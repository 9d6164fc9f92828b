-------------------------- MODULE BackgroundProofs ---------------------------
(***************************************************************************)
(* Proofs about the background workers and the requests they work for: the *)
(* outbox and its fan-out (Outbox), the turns of the assistant             *)
(* (AgentTurns), shared files (SharedFiles) and the review of images       *)
(* (MediaJobs).  Each part states its inductive invariant, the lemmas      *)
(* about the actions, and the theorem.                                     *)
(***************************************************************************)
EXTENDS MCBackgroundWork, FiniteSetTheorems, TLAPS

-----------------------------------------------------------------------------
(* The outbox.                                                             *)

EventRecords == [stored : BOOLEAN, pushed : BOOLEAN, attempts : Nat, due : BOOLEAN,
                 holder : Nodes \cup {"none"}, processed : BOOLEAN, dead : BOOLEAN]
HandRecords  == [id : Notices \cup {"none"}, attempts : Nat, ok : BOOLEAN]

OutboxTypes ==
    /\ event \in [Notices -> EventRecords]
    /\ batch \in [Nodes -> SUBSET [id : Notices, attempts : Nat]]
    /\ hand \in [Nodes -> HandRecords]
    /\ \A n \in Nodes : hand[n] = NoHand \/ hand[n].id \in Notices
    /\ plug \in [Nodes -> {"starting", "on", "deaf", "draining", "ending", "off"}]
    /\ channel \in [Nodes -> SUBSET Notices]
    /\ reached \in [Notices -> Nat]
    /\ lost \subseteq Notices /\ again \subseteq Notices

HandIsClaimed == \A n \in Nodes : hand[n] # NoHand => \E c \in batch[n] : c.id = hand[n].id

HandedOver(e) == \E n \in Nodes : hand[n].id = e /\ hand[n].ok
Claimed(e) == \E n \in Nodes : \E c \in batch[n] : c.id = e

\* What was handed over to a hub is somewhere.
Kept(e) ==
    event[e].processed \/ HandedOver(e) => reached[e] > 0 \/ Queued(e) \/ e \in lost

\* The parts of "at most once", for an event that no step has let happen twice:
\* whoever has claimed it holds its lease; its push is nowhere, or with one
\* publisher, or delivered; and what can still be dispatched is nowhere yet.
LeasedTo(e) == \A n \in Nodes : \A c \in batch[n] :
    c.id = e => event[e].holder = n /\ ~event[e].processed
OnePlace(e) ==
    /\ reached[e] \in {0, 1}
    /\ reached[e] = 1 => ~Queued(e)
    /\ \A n, m \in Nodes : e \in channel[n] /\ e \in channel[m] => n = m
Untouched(e) ==
    ~event[e].processed /\ ~HandedOver(e) /\ (event[e].holder = "none" \/ Claimed(e))
        => reached[e] = 0 /\ ~Queued(e)

Once(e) == LeasedTo(e) /\ OnePlace(e) /\ Untouched(e)

OutboxInv ==
    /\ OutboxTypes /\ HandIsClaimed
    /\ \A e \in Notices : Kept(e)
    /\ \A e \in Notices : e \notin again => Once(e)

\* What marking leaves of an event.
LEMMA ProcessedShape ==
    ASSUME OutboxTypes, NEW e \in Notices
    PROVE  /\ Processed(e) \in [Notices -> EventRecords]
           /\ Processed(e)[e].processed /\ Processed(e)[e].holder = "none"
           /\ \A d \in Notices : d # e => Processed(e)[d] = event[d]
  <1> DEFINE new == [event[e] EXCEPT !.processed = TRUE, !.holder = "none"]
  <1>1. event[e] \in EventRecords
    BY DEF OutboxTypes
  <1>2. new \in EventRecords /\ new.processed /\ new.holder = "none"
    BY <1>1 DEF EventRecords
  <1>3. Processed(e) = [event EXCEPT ![e] = new]
    BY DEF Processed
  <1> HIDE DEF new
  <1>4. QED
    BY <1>2, <1>3 DEF OutboxTypes

LEMMA FailedShape ==
    ASSUME OutboxTypes, NEW h \in HandRecords, h.id \in Notices
    PROVE  /\ Failed(h) \in [Notices -> EventRecords]
           /\ Failed(h)[h.id].processed = event[h.id].processed /\ Failed(h)[h.id].holder = "none"
           /\ \A d \in Notices : d # h.id => Failed(h)[d] = event[d]
  <1> DEFINE spent == h.attempts + 1 >= MaxDeliveries
             new   == [event[h.id] EXCEPT !.attempts = h.attempts + 1, !.holder = "none",
                                          !.dead = event[h.id].dead \/ spent, !.due = spent]
  <1>1. event[h.id] \in EventRecords /\ h.attempts + 1 \in Nat
    BY DEF OutboxTypes, HandRecords
  <1>2. spent \in BOOLEAN /\ (event[h.id].dead \/ spent) \in BOOLEAN
    OBVIOUS
  <1>3. Failed(h) = [event EXCEPT ![h.id] = new]
    BY DEF Failed
  <1> HIDE DEF spent
  <1>4. /\ new \in EventRecords /\ new.processed = event[h.id].processed /\ new.holder = "none"
    BY <1>1, <1>2 DEF EventRecords
  <1> HIDE DEF new
  <1>5. QED
    BY <1>3, <1>4 DEF OutboxTypes

\* A push reaches Home, or nobody.
LEMMA Reaching ==
    ASSUME OutboxTypes, NEW e \in Notices, NEW home \in BOOLEAN, Reach(e, home)
    PROVE  /\ reached' \in [Notices -> Nat] /\ lost' \subseteq Notices /\ lost \subseteq lost'
           /\ reached'[e] \in {reached[e], reached[e] + 1}
           /\ reached'[e] > 0 \/ e \in lost'
           /\ \A d \in Notices : d # e => reached'[d] = reached[d]
  <1>1. reached[e] \in Nat
    BY DEF OutboxTypes
  <1>2. CASE home
    <2>1. reached' = [reached EXCEPT ![e] = reached[e] + 1] /\ lost' = lost
      BY <1>2 DEF Reach
    <2>2. QED
      BY <1>1, <2>1 DEF OutboxTypes
  <1>3. CASE ~home
    <2>1. reached' = [reached EXCEPT ![e] = reached[e]] /\ lost' = lost \cup {e}
      BY <1>3 DEF Reach
    <2>2. QED
      BY <1>1, <2>1 DEF OutboxTypes
  <1>4. QED
    BY <1>2, <1>3

\* Whatever becomes of a failed publish, twice is remembered as such.
LEMMA FailureShape ==
    ASSUME OutboxTypes, NEW n \in Nodes, NEW e \in Notices, NEW published \in BOOLEAN,
           PublishFails(n, e, published)
    PROVE  /\ reached' \in [Notices -> Nat] /\ lost' \subseteq Notices /\ lost \subseteq lost'
           /\ again' \in {again, again \cup {e}}
           /\ e \in again' \/ reached'[e] \in {reached[e], reached[e] + 1}
           /\ reached'[e] > 0 \/ e \in lost'
           /\ \A d \in Notices : d # e => reached'[d] = reached[d]
  <1> DEFINE heard == published /\ plug[Home] = "on"
  <1>1. CASE heard /\ n = Home
    <2>1. reached' = [reached EXCEPT ![e] = reached[e] + 2] /\ again' = again \cup {e} /\ lost' = lost
      BY <1>1 DEF PublishFails
    <2>2. reached[e] \in Nat
      BY DEF OutboxTypes
    <2>3. QED
      BY <2>1, <2>2 DEF OutboxTypes
  <1>2. CASE ~(heard /\ n = Home)
    <2>1. Reach(e, heard \/ n = Home) /\ again' = again
      BY <1>2 DEF PublishFails
    <2>2. QED
      BY <2>1, Reaching
  <1>3. QED
    BY <1>1, <1>2

LEMMA OutboxTypesStep ==
    ASSUME OutboxTypes, [OutboxNext]_outboxVars
    PROVE  OutboxTypes'
  <1> USE OutboxAssumption
  <1>1. ASSUME NEW e \in Notices, NEW push \in BOOLEAN, CreateNotice(e, push) PROVE OutboxTypes'
    <2> DEFINE new == [event[e] EXCEPT !.stored = TRUE, !.pushed = push]
    <2>1. event[e] \in EventRecords
      BY DEF OutboxTypes
    <2>2. new \in EventRecords
      BY <2>1 DEF EventRecords
    <2>3. event' = [event EXCEPT ![e] = new] /\ UNCHANGED <<batch, hand, plug, channel, reached, lost, again>>
      BY <1>1 DEF CreateNotice
    <2> HIDE DEF new
    <2>4. QED
      BY <2>2, <2>3 DEF OutboxTypes
  <1>2. ASSUME NEW e \in Notices, LeaseLapses(e) PROVE OutboxTypes'
    BY <1>2 DEF LeaseLapses, Failing, OutboxTypes, EventRecords
  <1>3. ASSUME NEW e \in Notices, EventIsDue(e) \/ Replay(e) PROVE OutboxTypes'
    <2>1. PICK new \in EventRecords : event' = [event EXCEPT ![e] = new]
      <3>1. event[e] \in EventRecords
        BY DEF OutboxTypes
      <3>2. CASE EventIsDue(e)
        <4>1. [event[e] EXCEPT !.due = TRUE] \in EventRecords
          BY <3>1 DEF EventRecords
        <4>2. QED
          BY <3>2, <4>1 DEF EventIsDue
      <3>3. CASE Replay(e)
        <4>1. [event[e] EXCEPT !.dead = FALSE, !.attempts = 0, !.due = TRUE, !.holder = "none"] \in EventRecords
          BY <3>1 DEF EventRecords
        <4>2. QED
          BY <3>3, <4>1 DEF Replay
      <3>4. QED
        BY <1>3, <3>2, <3>3
    <2>2. UNCHANGED <<batch, hand, plug, channel, reached, lost>> /\ again' \subseteq Notices
      BY <1>3 DEF EventIsDue, Replay, Failing, OutboxTypes
    <2>3. QED
      BY <2>1, <2>2 DEF OutboxTypes
  <1>4. ASSUME NEW n \in Nodes, ClaimBatch(n) PROVE OutboxTypes'
    <2>1. /\ event' = [e \in Notices |-> IF e \in Due THEN [event[e] EXCEPT !.holder = n] ELSE event[e]]
          /\ batch' = [batch EXCEPT ![n] = {[id |-> e, attempts |-> event[e].attempts] : e \in Due}]
          /\ UNCHANGED <<hand, plug, channel, reached, lost, again>>
      BY <1>4 DEF ClaimBatch
    <2>2. event' \in [Notices -> EventRecords]
      BY <2>1 DEF OutboxTypes, EventRecords
    <2>3. {[id |-> e, attempts |-> event[e].attempts] : e \in Due} \in SUBSET [id : Notices, attempts : Nat]
      BY DEF Due, OutboxTypes, EventRecords
    <2>4. batch' \in [Nodes -> SUBSET [id : Notices, attempts : Nat]]
      BY <2>1, <2>3 DEF OutboxTypes
    <2>5. QED
      BY <2>1, <2>2, <2>4 DEF OutboxTypes
  <1>5. ASSUME NEW n \in Nodes, Dispatch(n) PROVE OutboxTypes'
    <2>1. PICK c \in batch[n] :
            /\ hand' = [hand EXCEPT ![n] = [id |-> c.id, attempts |-> c.attempts, ok |-> c.id \notin Unknown]]
            /\ IF c.id \in Unknown THEN UNCHANGED <<channel, reached, lost>> ELSE Broadcast(n, c.id)
      BY <1>5 DEF Dispatch
    <2>2. c \in [id : Notices, attempts : Nat] /\ UNCHANGED <<event, batch, plug, again>>
      BY <1>5 DEF Dispatch, OutboxTypes
    <2>3. hand' \in [Nodes -> HandRecords] /\ \A m \in Nodes : hand'[m] = NoHand \/ hand'[m].id \in Notices
      <3> DEFINE new == [id |-> c.id, attempts |-> c.attempts, ok |-> c.id \notin Unknown]
      <3>1. new \in HandRecords /\ new.id \in Notices
        <4>1. (c.id \notin Unknown) \in BOOLEAN
          OBVIOUS
        <4>2. QED
          BY <2>2, <4>1 DEF HandRecords
      <3>2. hand' = [hand EXCEPT ![n] = new]
        BY <2>1
      <3> HIDE DEF new
      <3>3. QED
        BY <3>1, <3>2 DEF OutboxTypes
    <2>4. channel' \in [Nodes -> SUBSET Notices] /\ reached' \in [Notices -> Nat] /\ lost' \subseteq Notices
      <3>1. c.id \in Notices
        BY <2>2
      <3>2. CASE UNCHANGED <<channel, reached, lost>>
        BY <3>2 DEF OutboxTypes
      <3>3. CASE channel' = [channel EXCEPT ![n] = @ \cup {c.id}] /\ UNCHANGED <<reached, lost>>
        BY <3>1, <3>3 DEF OutboxTypes
      <3>4. CASE Reach(c.id, n = Home /\ Serving(Home)) /\ UNCHANGED channel
        BY <3>1, <3>4, Reaching DEF OutboxTypes
      <3>5. QED
        BY <2>1, <3>2, <3>3, <3>4 DEF Broadcast
    <2>5. QED
      BY <2>2, <2>3, <2>4 DEF OutboxTypes
  <1>6. ASSUME NEW n \in Nodes, Mark(n) PROVE OutboxTypes'
    <2>1. hand[n].id \in Notices /\ hand[n].attempts \in Nat
      BY <1>6 DEF Mark, OutboxTypes, HandRecords
    <2>2. Processed(hand[n].id) \in [Notices -> EventRecords]
      BY <2>1, ProcessedShape
    <2>3. Failed(hand[n]) \in [Notices -> EventRecords]
      BY <2>1, FailedShape DEF OutboxTypes
    <2>4. event' \in [Notices -> EventRecords]
      BY <1>6, <2>2, <2>3 DEF Mark
    <2>5. QED
      BY <1>6, <2>4 DEF Mark, OutboxTypes, NoHand, HandRecords
  <1>7. ASSUME NEW n \in Nodes, NEW e \in Notices, Publish(n, e) PROVE OutboxTypes'
    <2>1. reached' \in [Notices -> Nat] /\ lost' \subseteq Notices
      BY <1>7, Reaching DEF Publish
    <2>2. QED
      BY <1>7, <2>1 DEF Publish, Take, OutboxTypes
  <1>8. ASSUME NEW n \in Nodes, MarkFails(n) PROVE OutboxTypes'
    BY <1>8 DEF MarkFails, Failing, OutboxTypes, NoHand, HandRecords
  <1>9. ASSUME NEW n \in Nodes, NEW e \in Notices, NEW published \in BOOLEAN, PublishFails(n, e, published)
        PROVE  OutboxTypes'
    <2>1. reached' \in [Notices -> Nat] /\ lost' \subseteq Notices /\ again' \subseteq Notices
      BY <1>9, FailureShape DEF OutboxTypes
    <2>2. QED
      BY <1>9, <2>1 DEF PublishFails, Take, OutboxTypes
  <1>10. ASSUME NEW n \in Nodes, Plug(n) \/ SubscriberEnds(n) \/ Drain(n) \/ PublisherEnds(n) PROVE OutboxTypes'
    BY <1>10 DEF Plug, SubscriberEnds, Drain, PublisherEnds, Forget, Failing, OutboxTypes
  <1>11. ASSUME NEW n \in Nodes, NodeDies(n) \/ Replace(n) PROVE OutboxTypes'
    <2>1. Reboot(n)
      BY <1>11 DEF NodeDies, Replace
    <2>2. NoHand \in HandRecords
      BY DEF NoHand, HandRecords
    <2>3. QED
      BY <2>1, <2>2 DEF Reboot, Forget, OutboxTypes
  <1>12. CASE UNCHANGED outboxVars
    BY <1>12 DEF outboxVars, OutboxTypes
  <1>13. QED
    BY <1>1, <1>2, <1>3, <1>4, <1>5, <1>6, <1>7, <1>8, <1>9, <1>10, <1>11, <1>12 DEF OutboxNext, OutboxStep

-----------------------------------------------------------------------------
\* What a worker does with a claimed event, for the lemmas below.
LEMMA DispatchShape ==
    ASSUME OutboxTypes, NEW n \in Nodes, Dispatch(n)
    PROVE  \E c \in batch[n] :
              /\ c.id \in Notices /\ hand[n] = NoHand
              /\ hand'[n].id = c.id /\ hand'[n] # NoHand /\ (hand'[n].ok <=> c.id \notin Unknown)
              /\ \A m \in Nodes : m # n => hand'[m] = hand[m]
              /\ IF c.id \in Unknown THEN UNCHANGED <<channel, reached, lost>> ELSE Broadcast(n, c.id)
              /\ UNCHANGED <<event, batch, plug, again>>
  <1>1. PICK c \in batch[n] :
          /\ hand' = [hand EXCEPT ![n] = [id |-> c.id, attempts |-> c.attempts, ok |-> c.id \notin Unknown]]
          /\ IF c.id \in Unknown THEN UNCHANGED <<channel, reached, lost>> ELSE Broadcast(n, c.id)
    BY DEF Dispatch
  <1>2. c \in [id : Notices, attempts : Nat]
    BY <1>1 DEF OutboxTypes
  <1>3. hand'[n] = [id |-> c.id, attempts |-> c.attempts, ok |-> c.id \notin Unknown]
        /\ \A m \in Nodes : m # n => hand'[m] = hand[m]
    BY <1>1 DEF OutboxTypes
  <1>4. hand'[n] # NoHand
    BY <1>2, <1>3, OutboxAssumption DEF NoHand
  <1>5. hand[n] = NoHand /\ UNCHANGED <<event, batch, plug, again>>
    BY DEF Dispatch
  <1>6. hand'[n].id = c.id /\ (hand'[n].ok <=> c.id \notin Unknown) /\ c.id \in Notices
    <2>1. hand'[n].id = c.id /\ c.id \in Notices
      BY <1>2, <1>3
    <2>2. hand'[n].ok <=> c.id \notin Unknown
      BY <1>1 DEF OutboxTypes
    <2>3. QED
      BY <2>1, <2>2
  <1>7. IF c.id \in Unknown THEN UNCHANGED <<channel, reached, lost>> ELSE Broadcast(n, c.id)
    BY <1>1
  <1> HIDE DEF NoHand
  <1>8. QED
    BY <1>3, <1>4, <1>5, <1>6, <1>7

LEMMA BroadcastShape ==
    ASSUME OutboxTypes, NEW n \in Nodes, NEW e \in Notices, Broadcast(n, e)
    PROVE  /\ \A m \in Nodes, d \in Notices : d # e \/ m # n => (d \in channel'[m] <=> d \in channel[m])
           /\ \A d \in Notices : d # e => reached'[d] = reached[d]
           /\ lost \subseteq lost'
           /\ \/ e \in channel'[n] /\ reached'[e] = reached[e]
              \/ /\ UNCHANGED channel /\ reached'[e] \in {reached[e], reached[e] + 1}
                 /\ reached'[e] > 0 \/ e \in lost'
  <1>1. CASE channel' = [channel EXCEPT ![n] = @ \cup {e}] /\ UNCHANGED <<reached, lost>>
    BY <1>1 DEF OutboxTypes
  <1>2. CASE Reach(e, n = Home /\ Serving(Home)) /\ UNCHANGED channel
    <2>1. (n = Home /\ Serving(Home)) \in BOOLEAN
      OBVIOUS
    <2>2. QED
      BY <1>2, <2>1, Reaching
  <1>3. QED
    BY <1>1, <1>2 DEF Broadcast

LEMMA MarkShape ==
    ASSUME OutboxTypes, NEW n \in Nodes, Mark(n)
    PROVE  \E e \in Notices :
              /\ e = hand[n].id /\ hand[n] # NoHand
              /\ event'[e].holder = "none" /\ (event'[e].processed <=> event[e].processed \/ hand[n].ok)
              /\ \A d \in Notices : d # e => event'[d] = event[d]
              /\ hand'[n] = NoHand /\ \A m \in Nodes : m # n => hand'[m] = hand[m] /\ batch'[m] = batch[m]
              /\ batch'[n] = {c \in batch[n] : c.id # e}
              /\ UNCHANGED <<plug, channel, reached, lost, again>>
  <1>0. PICK e \in Notices : e = hand[n].id
    BY DEF Mark, OutboxTypes
  <1>1. /\ hand[n] # NoHand /\ e = hand[n].id /\ hand[n] \in HandRecords
        /\ event' = IF hand[n].ok THEN Processed(e) ELSE Failed(hand[n])
        /\ batch' = [batch EXCEPT ![n] = {c \in @ : c.id # e}]
        /\ hand' = [hand EXCEPT ![n] = NoHand]
        /\ UNCHANGED <<plug, channel, reached, lost, again>>
    BY <1>0 DEF Mark, OutboxTypes
  <1>2. /\ event'[e].holder = "none" /\ (event'[e].processed <=> event[e].processed \/ hand[n].ok)
        /\ \A d \in Notices : d # e => event'[d] = event[d]
    BY <1>1, ProcessedShape, FailedShape DEF HandRecords
  <1>3. /\ hand'[n] = NoHand /\ \A m \in Nodes : m # n => hand'[m] = hand[m] /\ batch'[m] = batch[m]
        /\ batch'[n] = {c \in batch[n] : c.id # e}
    BY <1>1 DEF OutboxTypes
  <1>4. QED
    BY <1>1, <1>2, <1>3

\* A worker that stops forgets what it has claimed.
LEMMA ClearedShape ==
    ASSUME OutboxTypes, NEW n \in Nodes, Reboot(n) \/ MarkFails(n)
    PROVE  /\ batch'[n] = {} /\ hand'[n] = NoHand
           /\ \A m \in Nodes : m # n => batch'[m] = batch[m] /\ hand'[m] = hand[m]
           /\ UNCHANGED <<event, reached, again>>
           /\ lost \subseteq lost'
           /\ \A m \in Nodes : channel'[m] \subseteq channel[m] /\ channel[m] \subseteq channel'[m] \cup lost'
  BY DEF Reboot, MarkFails, Forget, OutboxTypes

\* A worker marks what it has claimed.
LEMMA HandIsClaimedStep ==
    ASSUME OutboxTypes, HandIsClaimed, [OutboxNext]_outboxVars
    PROVE  HandIsClaimed'
  <1>1. ASSUME UNCHANGED <<batch, hand>> PROVE HandIsClaimed'
    BY <1>1 DEF HandIsClaimed
  <1>2. ASSUME NEW n \in Nodes, ClaimBatch(n) PROVE HandIsClaimed'
    <2>1. batch[n] = {} /\ UNCHANGED hand /\ \A m \in Nodes : m # n => batch'[m] = batch[m]
      BY <1>2 DEF ClaimBatch, OutboxTypes
    <2>2. QED
      BY <2>1 DEF HandIsClaimed
  <1>3. ASSUME NEW n \in Nodes, Dispatch(n) PROVE HandIsClaimed'
    BY <1>3, DispatchShape DEF HandIsClaimed
  <1>4. ASSUME NEW n \in Nodes, Mark(n) PROVE HandIsClaimed'
    BY <1>4, MarkShape DEF HandIsClaimed
  <1>5. ASSUME NEW n \in Nodes, Reboot(n) \/ MarkFails(n) PROVE HandIsClaimed'
    BY <1>5, ClearedShape DEF HandIsClaimed
  <1>6. QED
    BY <1>1, <1>2, <1>3, <1>4, <1>5
       DEF OutboxNext, OutboxStep, CreateNotice, LeaseLapses, EventIsDue, Replay, Publish, PublishFails, Plug,
           SubscriberEnds, Drain, PublisherEnds, NodeDies, Replace, outboxVars

\* A push that was handed over is still accounted for.
LEMMA KeptStep ==
    ASSUME OutboxTypes, [OutboxNext]_outboxVars, NEW e \in Notices, Kept(e)
    PROVE  Kept(e)'
  <1>0. reached[e] \in Nat
    BY DEF OutboxTypes
  <1>1. ASSUME UNCHANGED <<hand, channel, reached, lost>>, event'[e].processed = event[e].processed PROVE Kept(e)'
    BY <1>1 DEF Kept, HandedOver, Queued
  <1>2. ASSUME NEW d \in Notices, (\E push \in BOOLEAN : CreateNotice(d, push)) \/ LeaseLapses(d) \/ EventIsDue(d)
                                    \/ Replay(d)
        PROVE  Kept(e)'
    <2>1. event'[e].processed = event[e].processed
      <3>1. event[d] \in EventRecords /\ DOMAIN event = Notices
        BY DEF OutboxTypes
      <3>2. CASE \E push \in BOOLEAN : CreateNotice(d, push)
        BY <3>1, <3>2 DEF CreateNotice, EventRecords
      <3>3. CASE LeaseLapses(d) \/ EventIsDue(d)
        BY <3>1, <3>3 DEF LeaseLapses, EventIsDue, EventRecords
      <3>4. CASE Replay(d)
        BY <3>1, <3>4 DEF Replay, EventRecords
      <3>5. QED
        BY <1>2, <3>2, <3>3, <3>4
    <2>2. UNCHANGED <<hand, channel, reached, lost>>
      BY <1>2 DEF CreateNotice, LeaseLapses, EventIsDue, Replay
    <2>3. QED
      BY <1>1, <2>1, <2>2
  <1>3. ASSUME NEW n \in Nodes, ClaimBatch(n) PROVE Kept(e)'
    <2>1. event'[e].processed = event[e].processed
      BY <1>3 DEF ClaimBatch, OutboxTypes, EventRecords
    <2>2. QED
      BY <1>1, <1>3, <2>1 DEF ClaimBatch
  <1>4. ASSUME NEW n \in Nodes, Dispatch(n) PROVE Kept(e)'
    <2>1. PICK c \in batch[n] :
              /\ c.id \in Notices /\ hand[n] = NoHand
              /\ hand'[n].id = c.id /\ hand'[n] # NoHand /\ (hand'[n].ok <=> c.id \notin Unknown)
              /\ \A m \in Nodes : m # n => hand'[m] = hand[m]
              /\ IF c.id \in Unknown THEN UNCHANGED <<channel, reached, lost>> ELSE Broadcast(n, c.id)
              /\ UNCHANGED <<event, batch, plug, again>>
      BY <1>4, DispatchShape
    <2>2. HandedOver(e)' => HandedOver(e) \/ (c.id = e /\ c.id \notin Unknown)
      BY <2>1 DEF HandedOver
    <2>3. CASE c.id \in Unknown
      BY <2>1, <2>2, <2>3 DEF Kept, Queued
    <2>4. CASE c.id \notin Unknown
      <3>1. Broadcast(n, c.id)
        BY <2>1, <2>4
      <3>2. /\ Queued(e) => Queued(e)' \/ e = c.id
            /\ e = c.id => reached'[e] > 0 \/ Queued(e)' \/ e \in lost'
            /\ e # c.id => reached'[e] = reached[e]
            /\ lost \subseteq lost'
        BY <2>1, <3>1, BroadcastShape DEF Queued
      <3>3. QED
        BY <2>1, <2>2, <3>2 DEF Kept
    <2>5. QED
      BY <2>3, <2>4
  <1>5. ASSUME NEW n \in Nodes, Mark(n) PROVE Kept(e)'
    <2>1. PICK d \in Notices :
              /\ d = hand[n].id /\ hand[n] # NoHand
              /\ event'[d].holder = "none" /\ (event'[d].processed <=> event[d].processed \/ hand[n].ok)
              /\ \A f \in Notices : f # d => event'[f] = event[f]
              /\ hand'[n] = NoHand /\ \A m \in Nodes : m # n => hand'[m] = hand[m] /\ batch'[m] = batch[m]
              /\ batch'[n] = {c \in batch[n] : c.id # d}
              /\ UNCHANGED <<plug, channel, reached, lost, again>>
      BY <1>5, MarkShape
    <2>2. event'[e].processed => event[e].processed \/ HandedOver(e)
      BY <2>1 DEF HandedOver
    <2>3. HandedOver(e)' => HandedOver(e)
      BY <2>1 DEF HandedOver, NoHand
    <2>4. QED
      BY <2>1, <2>2, <2>3 DEF Kept, Queued
  <1>6. ASSUME NEW n \in Nodes, Reboot(n) \/ MarkFails(n) PROVE Kept(e)'
    <2>1. HandedOver(e)' => HandedOver(e)
      BY <1>6, ClearedShape DEF HandedOver, NoHand
    <2>2. Queued(e) => Queued(e)' \/ e \in lost'
      BY <1>6, ClearedShape DEF Queued
    <2>3. QED
      BY <1>6, <2>1, <2>2, ClearedShape DEF Kept
  <1>7. ASSUME NEW n \in Nodes, NEW d \in Notices,
               Publish(n, d) \/ \E published \in BOOLEAN : PublishFails(n, d, published)
        PROVE  Kept(e)'
    <2>1. /\ reached'[d] > 0 \/ d \in lost'
          /\ \A f \in Notices : f # d => reached'[f] = reached[f]
          /\ lost \subseteq lost'
      <3>1. CASE Publish(n, d)
        BY <3>1, Reaching DEF Publish
      <3>2. QED
        BY <1>7, <3>1, FailureShape
    <2>2. UNCHANGED <<event, hand>> /\ channel' = [channel EXCEPT ![n] = @ \ {d}]
      BY <1>7 DEF Publish, PublishFails, Take
    <2>3. Queued(e) => Queued(e)' \/ e = d
      BY <2>2 DEF Queued, OutboxTypes
    <2>4. QED
      BY <2>1, <2>2, <2>3 DEF Kept, HandedOver
  <1>8. ASSUME NEW n \in Nodes, PublisherEnds(n) PROVE Kept(e)'
    <2>1. UNCHANGED <<event, hand, reached>> /\ Forget(n)
      BY <1>8 DEF PublisherEnds
    <2>2. Queued(e) => Queued(e)' \/ e \in lost'
      BY <2>1 DEF Forget, Queued, OutboxTypes
    <2>3. QED
      BY <2>1, <2>2 DEF Kept, HandedOver, Forget
  <1>9. QED
    BY <1>1, <1>2, <1>3, <1>4, <1>5, <1>6, <1>7, <1>8
       DEF OutboxNext, OutboxStep, Plug, SubscriberEnds, Drain, NodeDies, Replace, outboxVars

\* Leases, places and what is untouched, for an event left in peace.
LEMMA OnceStep ==
    ASSUME OutboxTypes, HandIsClaimed, [OutboxNext]_outboxVars, NEW e \in Notices, Once(e), e \notin again'
    PROVE  Once(e)'
  <1> USE OutboxAssumption
  <1>0. reached[e] \in Nat /\ \A n \in Nodes : \A c \in batch[n] : c.id \in Notices
    BY DEF OutboxTypes
  <1>1. ASSUME UNCHANGED <<batch, hand, channel, reached>>, event'[e].processed = event[e].processed,
               event'[e].holder = event[e].holder
        PROVE  Once(e)'
    BY <1>1 DEF Once, LeasedTo, OnePlace, Untouched, HandedOver, Claimed, Queued
  <1>2. ASSUME NEW d \in Notices, (\E push \in BOOLEAN : CreateNotice(d, push)) \/ LeaseLapses(d) \/ EventIsDue(d)
                                    \/ Replay(d)
        PROVE  Once(e)'
    <2>1. event'[e].processed = event[e].processed /\ event'[e].holder = event[e].holder
      <3>1. LeaseLapses(d) \/ Replay(d) => e # d
        BY DEF LeaseLapses, Replay
      <3>2. QED
        BY <1>2, <3>1 DEF CreateNotice, LeaseLapses, EventIsDue, Replay, OutboxTypes, EventRecords
    <2>2. QED
      BY <1>1, <1>2, <2>1 DEF CreateNotice, LeaseLapses, EventIsDue, Replay
  <1>3. ASSUME NEW n \in Nodes, ClaimBatch(n) PROVE Once(e)'
    <2>1. /\ event' = [d \in Notices |-> IF d \in Due THEN [event[d] EXCEPT !.holder = n] ELSE event[d]]
          /\ batch' = [batch EXCEPT ![n] = {[id |-> d, attempts |-> event[d].attempts] : d \in Due}]
          /\ batch[n] = {} /\ UNCHANGED <<hand, channel, reached>>
      BY <1>3 DEF ClaimBatch
    <2>2. /\ event'[e].processed = event[e].processed
          /\ e \notin Due => event'[e] = event[e]
          /\ e \in Due => event'[e].holder = n /\ event[e].holder = "none" /\ ~event[e].processed
      BY <2>1 DEF OutboxTypes, EventRecords, Due
    <2>3. /\ \A m \in Nodes : m # n => batch'[m] = batch[m]
          /\ \A c \in batch'[n] : c.id \in Due
      BY <2>1 DEF OutboxTypes
    <2>4. LeasedTo(e)'
      <3> SUFFICES ASSUME NEW m \in Nodes, NEW c \in batch'[m], c.id = e
                   PROVE  event'[e].holder = m /\ ~event'[e].processed
        BY DEF LeasedTo
      <3>1. CASE m = n
        BY <2>2, <2>3, <3>1
      <3>2. CASE m # n
        <4>1. event[e].holder = m /\ ~event[e].processed
          BY <2>3, <3>2 DEF Once, LeasedTo
        <4>2. QED
          BY <2>2, <4>1
      <3>3. QED
        BY <3>1, <3>2
    <2>5. OnePlace(e)'
      BY <2>1 DEF Once, OnePlace, Queued
    <2>6. Untouched(e)'
      <3>1. Claimed(e)' => Claimed(e) \/ e \in Due
        BY <2>3 DEF Claimed
      <3>2. HandedOver(e)' <=> HandedOver(e)
        BY <2>1 DEF HandedOver
      <3>3. event'[e].holder = "none" => event[e].holder = "none"
        BY <2>2
      <3>4. QED
        BY <2>1, <2>2, <3>1, <3>2, <3>3 DEF Once, Untouched, Queued
    <2>7. QED
      BY <2>4, <2>5, <2>6 DEF Once
  <1>4. ASSUME NEW n \in Nodes, Dispatch(n) PROVE Once(e)'
    <2>1. PICK c \in batch[n] :
              /\ c.id \in Notices /\ hand[n] = NoHand
              /\ hand'[n].id = c.id /\ hand'[n] # NoHand /\ (hand'[n].ok <=> c.id \notin Unknown)
              /\ \A m \in Nodes : m # n => hand'[m] = hand[m]
              /\ IF c.id \in Unknown THEN UNCHANGED <<channel, reached, lost>> ELSE Broadcast(n, c.id)
              /\ UNCHANGED <<event, batch, plug, again>>
      BY <1>4, DispatchShape
    <2>2. LeasedTo(e)'
      BY <2>1 DEF Once, LeasedTo
    <2>3. Claimed(e)' <=> Claimed(e)
      BY <2>1 DEF Claimed
    <2>4. HandedOver(e) => HandedOver(e)'
      BY <2>1 DEF HandedOver, NoHand
    <2>5. CASE c.id # e
      <3>1. reached'[e] = reached[e] /\ \A m \in Nodes : e \in channel'[m] <=> e \in channel[m]
        BY <2>1, <2>5, BroadcastShape
      <3>2. QED
        BY <2>1, <2>2, <2>3, <2>4, <3>1 DEF Once, OnePlace, Untouched, Queued
    <2>6. CASE c.id = e
      <3>1. event[e].holder = n /\ ~event[e].processed
        BY <2>1, <2>6 DEF Once, LeasedTo
      <3>2. ~HandedOver(e)
        <4> SUFFICES ASSUME NEW m \in Nodes, hand[m].id = e, hand[m].ok PROVE FALSE
          BY DEF HandedOver
        <4>1. PICK b \in batch[m] : b.id = e
          BY DEF HandIsClaimed, NoHand
        <4>2. m = n
          BY <3>1, <4>1 DEF Once, LeasedTo
        <4>3. QED
          BY <2>1, <4>2 DEF NoHand
      <3>3. reached[e] = 0 /\ ~Queued(e)
        BY <2>1, <2>6, <3>1, <3>2 DEF Once, Untouched, Claimed
      <3>4. CASE c.id \in Unknown
        BY <2>1, <2>2, <3>3, <3>4 DEF Once, OnePlace, Untouched, Queued
      <3>5. CASE c.id \notin Unknown
        <4>1. Broadcast(n, e) /\ HandedOver(e)'
          BY <2>1, <2>6, <3>5 DEF HandedOver
        <4>2. /\ \A m \in Nodes : m # n => e \notin channel'[m]
              /\ \/ e \in channel'[n] /\ reached'[e] = 0
                 \/ e \notin channel'[n] /\ reached'[e] \in {0, 1}
          BY <3>3, <4>1, BroadcastShape DEF Queued
        <4>3. OnePlace(e)'
          BY <4>2 DEF OnePlace, Queued
        <4>4. QED
          BY <2>2, <4>1, <4>3 DEF Once, Untouched
      <3>6. QED
        BY <3>4, <3>5
    <2>7. QED
      BY <2>5, <2>6
  <1>5. ASSUME NEW n \in Nodes, Mark(n) PROVE Once(e)'
    <2>1. PICK d \in Notices :
              /\ d = hand[n].id /\ hand[n] # NoHand
              /\ event'[d].holder = "none" /\ (event'[d].processed <=> event[d].processed \/ hand[n].ok)
              /\ \A f \in Notices : f # d => event'[f] = event[f]
              /\ hand'[n] = NoHand /\ \A m \in Nodes : m # n => hand'[m] = hand[m] /\ batch'[m] = batch[m]
              /\ batch'[n] = {c \in batch[n] : c.id # d}
              /\ UNCHANGED <<plug, channel, reached, lost, again>>
      BY <1>5, MarkShape
    <2>2. OnePlace(e)'
      BY <2>1 DEF Once, OnePlace, Queued
    <2>3. \A m \in Nodes : \A b \in batch'[m] : b \in batch[m] /\ (m = n => b.id # d)
      BY <2>1
    <2>4. Claimed(e)' => Claimed(e)
      BY <2>3 DEF Claimed
    <2>5. CASE e # d
      <3>1. HandedOver(e) => HandedOver(e)'
        BY <2>1, <2>5 DEF HandedOver
      <3>2. event'[e] = event[e]
        BY <2>1, <2>5
      <3>3. LeasedTo(e)'
        BY <2>3, <3>2 DEF Once, LeasedTo
      <3>4. Untouched(e)'
        BY <2>1, <2>4, <3>1, <3>2 DEF Once, Untouched, Queued
      <3>5. QED
        BY <2>2, <3>3, <3>4 DEF Once
    <2>6. CASE e = d
      <3>1. PICK c \in batch[n] : c.id = e
        BY <2>1, <2>6 DEF HandIsClaimed
      <3>2. event[e].holder = n /\ ~event[e].processed
        BY <3>1 DEF Once, LeasedTo
      <3>3. \A m \in Nodes : m # n => \A b \in batch[m] : b.id # e
        BY <3>2 DEF Once, LeasedTo
      <3>4. ~Claimed(e)'
        BY <2>3, <2>6, <3>3 DEF Claimed
      <3>5. LeasedTo(e)'
        BY <3>4 DEF LeasedTo, Claimed
      <3>6. ~event'[e].processed => reached[e] = 0 /\ ~Queued(e)
        <4> SUFFICES ASSUME ~hand[n].ok PROVE reached[e] = 0 /\ ~Queued(e)
          BY <2>1, <2>6
        <4>1. ~HandedOver(e)
          <5> SUFFICES ASSUME NEW m \in Nodes, hand[m].id = e, hand[m].ok PROVE FALSE
            BY DEF HandedOver
          <5>1. PICK b \in batch[m] : b.id = e
            BY DEF HandIsClaimed, NoHand
          <5>2. QED
            BY <3>3, <5>1
        <4>2. QED
          BY <3>1, <3>2, <4>1 DEF Once, Untouched, Claimed
      <3>7. QED
        BY <2>1, <2>2, <3>5, <3>6 DEF Once, Untouched, Queued
    <2>7. QED
      BY <2>5, <2>6
  <1>6. ASSUME NEW n \in Nodes, Reboot(n) \/ MarkFails(n) PROVE Once(e)'
    <2>1. \A m \in Nodes : batch'[m] \subseteq batch[m] /\ channel'[m] \subseteq channel[m]
      BY <1>6, ClearedShape
    <2>2. LeasedTo(e)'
      BY <1>6, <2>1, ClearedShape DEF Once, LeasedTo
    <2>3. OnePlace(e)'
      BY <1>6, <2>1, ClearedShape DEF Once, OnePlace, Queued
    <2>4. Untouched(e)'
      <3> SUFFICES ASSUME ~event[e].processed, ~HandedOver(e)', event[e].holder = "none" \/ Claimed(e)'
                   PROVE  reached[e] = 0 /\ ~Queued(e)'
        BY <1>6, ClearedShape DEF Untouched
      <3>1. Claimed(e)' => Claimed(e)
        BY <2>1 DEF Claimed
      <3>2. ~HandedOver(e)
        <4> SUFFICES ASSUME NEW m \in Nodes, hand[m].id = e, hand[m].ok PROVE FALSE
          BY DEF HandedOver
        <4>1. m = n
          BY <1>6, ClearedShape DEF HandedOver
        <4>2. PICK b \in batch[n] : b.id = e
          BY <4>1 DEF HandIsClaimed, NoHand
        <4>3. event[e].holder = n /\ n # "none"
          BY <4>2 DEF Once, LeasedTo
        <4>4. PICK k \in Nodes : \E f \in batch'[k] : f.id = e
          BY <4>3 DEF Claimed
        <4>5. k = n
          BY <2>1, <4>3, <4>4 DEF Once, LeasedTo
        <4>6. QED
          BY <1>6, <4>4, <4>5, ClearedShape
      <3>3. reached[e] = 0 /\ ~Queued(e)
        BY <3>1, <3>2 DEF Once, Untouched
      <3>4. QED
        BY <2>1, <3>3 DEF Queued
    <2>5. QED
      BY <2>2, <2>3, <2>4 DEF Once
  <1>7. ASSUME NEW n \in Nodes, NEW d \in Notices,
               Publish(n, d) \/ \E published \in BOOLEAN : PublishFails(n, d, published)
        PROVE  Once(e)'
    <2>1. /\ e = d => reached'[d] \in {reached[d], reached[d] + 1}
          /\ \A f \in Notices : f # d => reached'[f] = reached[f]
      <3>1. CASE Publish(n, d)
        BY <3>1, Reaching DEF Publish
      <3>2. QED
        BY <1>7, <3>1, FailureShape
    <2>2. UNCHANGED <<event, batch, hand>> /\ d \in channel[n] /\ channel' = [channel EXCEPT ![n] = @ \ {d}]
      BY <1>7 DEF Publish, PublishFails, Take
    <2>3. \A m \in Nodes : e \in channel'[m] <=> e \in channel[m] /\ ~(m = n /\ e = d)
      BY <2>2 DEF OutboxTypes
    <2>4. LeasedTo(e)'
      BY <2>2 DEF Once, LeasedTo
    <2>5. OnePlace(e)'
      BY <1>0, <2>1, <2>2, <2>3 DEF Once, OnePlace, Queued
    <2>6. Untouched(e)'
      BY <2>1, <2>2, <2>3 DEF Once, Untouched, Queued, HandedOver, Claimed
    <2>7. QED
      BY <2>4, <2>5, <2>6 DEF Once
  <1>8. ASSUME NEW n \in Nodes, PublisherEnds(n) PROVE Once(e)'
    <2>1. UNCHANGED <<event, batch, hand, reached>> /\ \A m \in Nodes : channel'[m] \subseteq channel[m]
      BY <1>8 DEF PublisherEnds, Forget, OutboxTypes
    <2>2. QED
      BY <2>1 DEF Once, LeasedTo, OnePlace, Untouched, HandedOver, Claimed, Queued
  <1>9. QED
    BY <1>1, <1>2, <1>3, <1>4, <1>5, <1>6, <1>7, <1>8
       DEF OutboxNext, OutboxStep, Plug, SubscriberEnds, Drain, NodeDies, Replace, outboxVars

\* Twice is remembered.
LEMMA AgainGrows ==
    ASSUME OutboxTypes, [OutboxNext]_outboxVars
    PROVE  again \subseteq again'
  <1>1. ASSUME NEW n \in Nodes, NEW d \in Notices, NEW published \in BOOLEAN, PublishFails(n, d, published)
        PROVE  again \subseteq again'
    BY <1>1, FailureShape
  <1>2. QED
    BY <1>1 DEF OutboxNext, OutboxStep, CreateNotice, LeaseLapses, EventIsDue, Replay, ClaimBatch, Dispatch, Mark,
                MarkFails, Publish, Plug, SubscriberEnds, Drain, PublisherEnds, NodeDies, Replace, Reboot, outboxVars

\* However the workers, the publishers, the subscribers and the leases of the
\* nodes interleave, start, fail and end, no push happens twice or is missed
\* but by the steps that are known for it (outbox.rs, ws_fanout.rs,
\* replicated_runtime.rs).
THEOREM PushesStayAccountedFor == OutboxSpec => []PushesAreAccountedFor
  <1>1. OutboxInit => OutboxInv
    <2>1. OutboxInit => OutboxTypes
      BY OutboxAssumption DEF OutboxInit, OutboxTypes, EventRecords, HandRecords, NoEvent, NoHand
    <2>2. OutboxInit => HandIsClaimed /\ \A e \in Notices : Kept(e) /\ Once(e)
      BY OutboxAssumption DEF OutboxInit, HandIsClaimed, Kept, Once, LeasedTo, OnePlace, Untouched, HandedOver,
                              Queued, NoEvent, NoHand
    <2>3. QED
      BY <2>1, <2>2 DEF OutboxInv
  <1>2. OutboxInv /\ [OutboxNext]_outboxVars => OutboxInv'
    <2> SUFFICES ASSUME OutboxInv, [OutboxNext]_outboxVars PROVE OutboxInv'
      OBVIOUS
    <2>1. OutboxTypes' /\ HandIsClaimed'
      BY OutboxTypesStep, HandIsClaimedStep DEF OutboxInv
    <2>2. \A e \in Notices : Kept(e)'
      BY KeptStep DEF OutboxInv
    <2>3. ASSUME NEW e \in Notices, e \notin again' PROVE Once(e)'
      BY <2>3, AgainGrows, OnceStep DEF OutboxInv
    <2>4. QED
      BY <2>1, <2>2, <2>3 DEF OutboxInv
  <1>3. OutboxInv => PushesAreAccountedFor
    <2> SUFFICES ASSUME OutboxInv, NEW e \in Notices
                 PROVE  /\ e \notin again => reached[e] + Cardinality({n \in Nodes : e \in channel[n]}) <= 1
                        /\ event[e].processed => reached[e] > 0 \/ Queued(e) \/ e \in lost
      BY DEF PushesAreAccountedFor
    <2> DEFINE holders == {n \in Nodes : e \in channel[n]}
    <2>1. Kept(e) /\ (e \notin again => OnePlace(e))
      BY DEF OutboxInv, Once
    <2>2. ASSUME e \notin again, Queued(e) PROVE reached[e] + Cardinality(holders) <= 1
      <3>1. PICK n \in Nodes : holders = {n}
        BY <2>1, <2>2 DEF Queued, OnePlace
      <3>2. Cardinality(holders) = 1
        BY <3>1, FS_Singleton
      <3>3. reached[e] = 0
        BY <2>1, <2>2 DEF OnePlace
      <3>4. QED
        BY <3>2, <3>3
    <2>3. ASSUME e \notin again, ~Queued(e) PROVE reached[e] + Cardinality(holders) <= 1
      <3>1. holders = {}
        BY <2>3 DEF Queued
      <3>2. Cardinality(holders) = 0
        BY <3>1, FS_EmptySet
      <3>3. QED
        BY <2>1, <2>3, <3>2 DEF OnePlace
    <2>4. QED
      BY <2>1, <2>2, <2>3 DEF Kept
  <1>4. QED
    BY <1>1, <1>2, <1>3, PTL DEF OutboxSpec

-----------------------------------------------------------------------------
(* Turns: a registry holds the one uncancelled turn of each conversation.   *)

TurnRecords == [stage : {"idle", "begun", "running", "ended", "gone"}, slot : Slots \cup {NoSlot},
                cancelled : BOOLEAN, steps : Nat, tools : Nat,
                end : {"none", "completed", "failed", "cancelled"}]
RunRecords  == [status : {"none", "started", "completed", "failed", "cancelled"},
                outcomes : Nat, stale : BOOLEAN]

RunsAreSound  == run \in [Turns -> RunRecords] /\ OneOutcome
TurnsAreTyped ==
    /\ turn \in [Turns -> TurnRecords]
    /\ registry \in [Slots -> Turns \cup {"none"}]
    /\ \A t \in Turns : turn[t].stage = "running" \/ turn[t].stage = "begun" => turn[t].slot \in Slots
RegisteredRun == \A c \in Slots :
    registry[c] # "none" => turn[registry[c]].stage = "running" /\ turn[registry[c]].slot = c
IdleHasNoRun == \A t \in Turns : turn[t].stage = "idle" => run[t].status = "none"

TurnInv == RunsAreSound /\ TurnsAreTyped /\ RegisteredRun /\ IdleHasNoRun /\ CancelReachesTurn

\* What there was not, there is not; what was ended, stays so.
NoNewRuns == \A t \in Turns : run[t].status = "none" => run'[t].status = "none"

LEMMA RunMoves ==
    ASSUME RunsAreSound, NEW t \in Turns, NEW new \in RunRecords, run' = [run EXCEPT ![t] = new],
           new.outcomes = IF new.status \in {"none", "started"} THEN 0 ELSE 1,
           run[t].status = "none" => new.status = "none"
    PROVE  RunsAreSound' /\ NoNewRuns
BY DEF RunsAreSound, OneOutcome, NoNewRuns

LEMMA RunEnds ==
    ASSUME RunsAreSound, NEW t \in Turns, NEW status \in {"completed", "failed", "cancelled"},
           run' \in Finished(t, status)
    PROVE  RunsAreSound' /\ NoNewRuns
<1>1. CASE run' # run /\ run[t].status = "started"
  <2> DEFINE new == [run[t] EXCEPT !.status = status, !.outcomes = 1]
  <2>1. run[t] \in RunRecords /\ run[t].outcomes = 0
    BY <1>1 DEF RunsAreSound, OneOutcome
  <2>4. new \in RunRecords
    BY <2>1 DEF RunRecords
  <2>2. new \in RunRecords /\ new.status = status /\ new.outcomes = 1
    BY <2>1, <2>4 DEF RunRecords
  <2>3. run' = [run EXCEPT ![t] = new]
    <3>1. run[t].outcomes + 1 = 1
      BY <2>1
    <3> QED
      BY <1>1, <3>1 DEF Finished, Ended
  <2> HIDE DEF new
  <2> QED
    BY <1>1, <2>2, <2>3, RunMoves
<1>2. CASE run' = run \/ run[t].status # "started"
  <2>1. run' = run
    BY <1>2 DEF Finished, Ended
  <2> QED
    BY <2>1 DEF RunsAreSound, OneOutcome, NoNewRuns
<1> QED
  BY <1>1, <1>2

LEMMA RunAgesOrNot ==
    ASSUME RunsAreSound, NEW t \in Turns, NEW stale \in BOOLEAN, run[t].status = "started",
           run' = [run EXCEPT ![t].stale = stale]
    PROVE  RunsAreSound' /\ NoNewRuns
<1> DEFINE new == [run[t] EXCEPT !.stale = stale]
<1>1. run[t] \in RunRecords /\ run[t].outcomes = 0
  BY DEF RunsAreSound, OneOutcome
<1>2. new \in RunRecords /\ new.status = "started" /\ new.outcomes = 0
  BY <1>1 DEF RunRecords
<1>3. run' = [run EXCEPT ![t] = new]
  OBVIOUS
<1> HIDE DEF new
<1> QED
  BY <1>2, <1>3, RunMoves

LEMMA WorkerEndsRuns ==
    ASSUME RunsAreSound, ReconcileRuns
    PROVE  RunsAreSound' /\ NoNewRuns
<1> DEFINE Next(t) == IF t \in StaleRuns THEN [run[t] EXCEPT !.status = "cancelled", !.outcomes = @ + 1]
                      ELSE run[t]
<1>1. ASSUME NEW t \in Turns
      PROVE  /\ Next(t) \in RunRecords
             /\ run[t].status = "none" => Next(t).status = "none"
             /\ Next(t).outcomes = IF Next(t).status \in {"none", "started"} THEN 0 ELSE 1
  <2>1. run[t] \in RunRecords /\ run[t].outcomes = IF run[t].status \in {"none", "started"} THEN 0 ELSE 1
    BY DEF RunsAreSound, OneOutcome
  <2>2. CASE t \in StaleRuns
    <3> DEFINE new == [run[t] EXCEPT !.status = "cancelled", !.outcomes = 1]
    <3>1. new \in RunRecords
      BY <2>1 DEF RunRecords
    <3>2. new.status = "cancelled" /\ new.outcomes = 1
      BY <2>1 DEF RunRecords
    <3>3. run[t].status = "started" /\ run[t].outcomes + 1 = 1
      BY <2>1, <2>2 DEF StaleRuns
    <3>4. Next(t) = new
      BY <2>2, <3>3
    <3> HIDE DEF new, Next
    <3> QED
      BY <3>1, <3>2, <3>3, <3>4
  <2>3. CASE t \notin StaleRuns
    BY <2>1, <2>3
  <2> QED
    BY <2>2, <2>3
<1>2. run' = [t \in Turns |-> Next(t)]
  BY DEF ReconcileRuns
<1> HIDE DEF Next
<1>3. run' \in [Turns -> RunRecords] /\ \A t \in Turns : run'[t] = Next(t)
  BY <1>1, <1>2
<1>4. OneOutcome' /\ NoNewRuns
  BY <1>1, <1>3 DEF OneOutcome, NoNewRuns
<1> QED
  BY <1>3, <1>4 DEF RunsAreSound

\* A turn moves on.  It leaves the registry when it stops running.
LEMMA TurnMoves ==
    ASSUME TurnInv, RunsAreSound', NoNewRuns, NEW t \in Turns, NEW new \in TurnRecords,
           turn' = [turn EXCEPT ![t] = new], new.slot = turn[t].slot, new.stage # "idle",
           turn[t].cancelled /\ new.stage = "running" => new.cancelled,
           \/ new.stage = turn[t].stage /\ UNCHANGED registry
           \/ new.stage \in {"ended", "gone"} /\ registry' = Unregistered(t)
           \/ turn[t].stage = "begun" /\ new.stage \in {"ended", "gone"} /\ UNCHANGED registry
    PROVE  TurnInv'
<1>1. /\ turn' \in [Turns -> TurnRecords] /\ turn'[t] = new
      /\ \A u \in Turns \ {t} : turn'[u] = turn[u]
  BY DEF TurnInv, TurnsAreTyped
<1>2. /\ registry' \in [Slots -> Turns \cup {"none"}]
      /\ \A c \in Slots : registry'[c] # registry[c] => registry[c] = t /\ registry'[c] = "none"
  BY DEF TurnInv, TurnsAreTyped, Unregistered
<1>3. TurnsAreTyped'
  BY <1>1, <1>2 DEF TurnInv, TurnsAreTyped
<1>4. new.stage # turn[t].stage => \A c \in Slots : registry'[c] # t
  BY TurnAssumption DEF TurnInv, TurnsAreTyped, RegisteredRun, Unregistered
<1>5. RegisteredRun'
  BY <1>1, <1>2, <1>4, TurnAssumption DEF TurnInv, TurnsAreTyped, RegisteredRun
<1>6. IdleHasNoRun'
  BY <1>1 DEF TurnInv, IdleHasNoRun, NoNewRuns
<1>7. CancelReachesTurn'
  BY <1>1, <1>2 DEF TurnInv, TurnsAreTyped, CancelReachesTurn
<1> QED
  BY <1>3, <1>5, <1>6, <1>7 DEF TurnInv

LEMMA LeftIsTyped ==
    ASSUME NEW t \in Turns, turn[t] \in TurnRecords, NEW stage \in {"ended", "gone"},
           NEW end \in {"none", "completed", "failed", "cancelled"}
    PROVE  /\ Left(t, stage, end) \in TurnRecords
           /\ Left(t, stage, end).stage = stage /\ Left(t, stage, end).slot = turn[t].slot
BY DEF Left, NoTurn, TurnRecords

LEMMA RegisteringIsSafe ==
    ASSUME TurnInv, NEW t \in Turns, RegisterTurn(t)
    PROVE  TurnInv'
<1>0. PICK c \in Slots : c = turn[t].slot
  BY DEF RegisterTurn, TurnInv, TurnsAreTyped
<1>1. registry[c] # t /\ turn[t].stage = "begun"
  BY TurnAssumption DEF RegisterTurn, TurnInv, RegisteredRun
<1>2. /\ registry' = [registry EXCEPT ![c] = t] /\ UNCHANGED run
      /\ turn' = [u \in Turns |->
           CASE u = t           -> [turn[u] EXCEPT !.stage = "running"]
             [] u = registry[c] -> [turn[u] EXCEPT !.cancelled = TRUE]
             [] OTHER           -> turn[u]]
  BY <1>0 DEF RegisterTurn
<1>3. ASSUME NEW u \in Turns
      PROVE  /\ u = t => turn'[u] = [turn[u] EXCEPT !.stage = "running"]
             /\ u = registry[c] => turn'[u] = [turn[u] EXCEPT !.cancelled = TRUE]
             /\ u # t /\ u # registry[c] => turn'[u] = turn[u]
  BY <1>1, <1>2
<1>4. ASSUME NEW u \in Turns
      PROVE  /\ turn'[u] \in TurnRecords /\ turn'[u].slot = turn[u].slot
             /\ turn'[u].stage = IF u = t THEN "running" ELSE turn[u].stage
             /\ turn[u].cancelled => turn'[u].cancelled
             /\ u = registry[c] => turn'[u].cancelled
  <2>1. turn[u] \in TurnRecords
    BY DEF TurnInv, TurnsAreTyped
  <2> QED
    BY <1>1, <1>3, <2>1 DEF TurnRecords
<1>5. turn' \in [Turns -> TurnRecords]
  BY <1>2, <1>4
<1>6. /\ registry' \in [Slots -> Turns \cup {"none"}] /\ registry'[c] = t
      /\ \A d \in Slots \ {c} : registry'[d] = registry[d]
  BY <1>2 DEF TurnInv, TurnsAreTyped
<1>7. TurnsAreTyped'
  BY <1>0, <1>1, <1>4, <1>5, <1>6 DEF TurnInv, TurnsAreTyped
<1>8. RegisteredRun'
  BY <1>0, <1>4, <1>6 DEF TurnInv, TurnsAreTyped, RegisteredRun
<1>9. IdleHasNoRun' /\ RunsAreSound'
  BY <1>2, <1>4 DEF TurnInv, IdleHasNoRun, RunsAreSound, OneOutcome
<1>10. CancelReachesTurn'
  <2> SUFFICES ASSUME NEW u \in Turns, turn'[u].stage = "running", ~turn'[u].cancelled
               PROVE  registry'[turn'[u].slot] = u
    BY DEF CancelReachesTurn
  <2>1. CASE u = t
    BY <1>0, <1>4, <1>6, <2>1
  <2>2. CASE u # t
    <3>1. registry[turn[u].slot] = u /\ turn[u].slot \in Slots /\ u # registry[c]
      BY <1>4, <2>2 DEF TurnInv, TurnsAreTyped, CancelReachesTurn
    <3> QED
      BY <1>4, <1>6, <3>1
  <2> QED
    BY <2>1, <2>2
<1> QED
  BY <1>7, <1>8, <1>9, <1>10 DEF TurnInv

\* Nothing of a turn but its runtime's counters, or the news that it is cancelled.
LEMMA RuntimeIsSafe ==
    ASSUME TurnInv, NEW t \in Turns, Answer(t) \/ Breakdown(t) \/ Heed(t) \/ CallTool(t)
    PROVE  TurnInv'
<1>1. turn[t] \in TurnRecords /\ turn[t].stage = "running"
  BY DEF Answer, Breakdown, Heed, CallTool, Stop, Running, TurnInv, TurnsAreTyped
<1>2. ASSUME NEW end \in {"completed", "failed", "cancelled"}, Stop(t, end)
      PROVE  TurnInv'
  <2> DEFINE new == [turn[t] EXCEPT !.end = end]
  <2>1. new \in TurnRecords
    BY <1>1 DEF TurnRecords
  <2>2. new.stage = turn[t].stage /\ new.slot = turn[t].slot /\ new.cancelled = turn[t].cancelled
    BY <1>1 DEF TurnRecords
  <2>3. turn' = [turn EXCEPT ![t] = new] /\ UNCHANGED <<registry, run>>
    BY <1>2 DEF Stop
  <2>4. RunsAreSound' /\ NoNewRuns
    BY <2>3 DEF TurnInv, RunsAreSound, OneOutcome, NoNewRuns
  <2> HIDE DEF new
  <2> QED
    BY <1>1, <2>1, <2>2, <2>3, <2>4, TurnMoves
<1>3. CASE CallTool(t)
  <2>0. PICK tools \in Nat, steps \in Nat : tools = turn[t].tools + 1 /\ steps = turn[t].steps + 1
    BY <1>1 DEF TurnRecords
  <2>7. PICK end \in {"failed", "none"} : end = IF Exhausts(t) THEN "failed" ELSE "none"
    OBVIOUS
  <2> DEFINE new == [turn[t] EXCEPT !.tools = tools, !.steps = steps, !.end = end]
  <2>1. new \in TurnRecords
    BY <1>1 DEF TurnRecords
  <2>2. new.stage = turn[t].stage /\ new.slot = turn[t].slot /\ new.cancelled = turn[t].cancelled
    BY <1>1 DEF TurnRecords
  <2>3. turn' = [turn EXCEPT ![t] = new] /\ UNCHANGED registry
    BY <1>3, <2>0, <2>7 DEF CallTool
  <2>4. run' = run \/ (run[t].status = "started" /\ run' = [run EXCEPT ![t].stale = FALSE])
    BY <1>3 DEF CallTool, Touched
  <2>5. RunsAreSound' /\ NoNewRuns
    <3>1. CASE run' = run
      BY <3>1 DEF TurnInv, RunsAreSound, OneOutcome, NoNewRuns
    <3>2. CASE run[t].status = "started" /\ run' = [run EXCEPT ![t].stale = FALSE]
      BY <3>2, RunAgesOrNot DEF TurnInv
    <3> QED
      BY <2>4, <3>1, <3>2
  <2> HIDE DEF new
  <2> QED
    BY <1>1, <2>1, <2>2, <2>3, <2>5, TurnMoves
<1> QED
  BY <1>2, <1>3 DEF Answer, Breakdown, Heed

\* The ends of a turn: at once, with its stream, or with its client.
LEMMA EndingTurnsIsSafe ==
    ASSUME TurnInv, NEW t \in Turns, EndAtOnce(t) \/ FinishTurn(t) \/ LoseClient(t)
    PROVE  TurnInv'
<1>1. turn[t] \in TurnRecords
  BY DEF TurnInv, TurnsAreTyped
<1>2. CASE EndAtOnce(t)
  <2> DEFINE new == Left(t, "ended", "none")
  <2>1. new \in TurnRecords /\ new.stage = "ended" /\ new.slot = turn[t].slot
    BY <1>1, LeftIsTyped
  <2>2. turn' = [turn EXCEPT ![t] = new] /\ UNCHANGED registry /\ turn[t].stage = "begun"
    BY <1>2 DEF EndAtOnce
  <2>3. RunsAreSound' /\ NoNewRuns
    BY <1>2, RunEnds DEF EndAtOnce, TurnInv
  <2> HIDE DEF new
  <2> QED
    BY <2>1, <2>2, <2>3, TurnMoves
<1>3. CASE FinishTurn(t)
  <2> DEFINE new == Left(t, "ended", turn[t].end)
  <2>1. turn[t].end \in {"completed", "failed", "cancelled"} /\ run' \in Finished(t, turn[t].end)
    BY <1>1, <1>3 DEF FinishTurn, TurnRecords
  <2>2. new \in TurnRecords /\ new.stage = "ended" /\ new.slot = turn[t].slot
    BY <1>1, <2>1, LeftIsTyped
  <2>3. turn' = [turn EXCEPT ![t] = new] /\ registry' = Unregistered(t)
    BY <1>3 DEF FinishTurn
  <2>4. RunsAreSound' /\ NoNewRuns
    BY <2>1, RunEnds DEF TurnInv
  <2> HIDE DEF new
  <2> QED
    BY <2>2, <2>3, <2>4, TurnMoves
<1>4. CASE LoseClient(t)
  <2> DEFINE new == Left(t, "gone", "none")
  <2>1. new \in TurnRecords /\ new.stage = "gone" /\ new.slot = turn[t].slot
    BY <1>1, LeftIsTyped
  <2>2. turn' = [turn EXCEPT ![t] = new] /\ registry' = Unregistered(t) /\ UNCHANGED run
    BY <1>4 DEF LoseClient
  <2>3. RunsAreSound' /\ NoNewRuns
    BY <2>2 DEF TurnInv, RunsAreSound, OneOutcome, NoNewRuns
  <2> HIDE DEF new
  <2> QED
    BY <2>1, <2>2, <2>3, TurnMoves
<1> QED
  BY <1>2, <1>3, <1>4

LEMMA BeginningIsSafe ==
    ASSUME TurnInv, NEW t \in Turns, NEW c \in Slots, BeginTurn(t, c)
    PROVE  TurnInv'
<1> DEFINE new == [NoTurn EXCEPT !.stage = "begun", !.slot = c]
           started == [run[t] EXCEPT !.status = "started"]
<1>1. new \in TurnRecords /\ new.stage = "begun" /\ new.slot = c /\ ~new.cancelled
  BY DEF NoTurn, TurnRecords
<1>2. turn[t].stage = "idle" /\ run[t].status = "none" /\ run[t] \in RunRecords /\ run[t].outcomes = 0
  BY DEF BeginTurn, NoTurn, TurnInv, IdleHasNoRun, RunsAreSound, OneOutcome
<1>3. started \in RunRecords
  BY <1>2 DEF RunRecords
<1>4. started.status = "started" /\ started.outcomes = 0
  BY <1>2 DEF RunRecords
<1>5. /\ turn' = [turn EXCEPT ![t] = new] /\ UNCHANGED registry
      /\ run' = run \/ run' = [run EXCEPT ![t] = started]
  BY DEF BeginTurn, Began
<1> HIDE DEF new, started
<1>6. RunsAreSound'
  BY <1>3, <1>4, <1>5 DEF TurnInv, RunsAreSound, OneOutcome
<1>7. /\ turn' \in [Turns -> TurnRecords] /\ turn'[t] = new
      /\ \A u \in Turns \ {t} : turn'[u] = turn[u] /\ run'[u] = run[u]
  BY <1>1, <1>5 DEF TurnInv, TurnsAreTyped, RunsAreSound
<1>8. \A d \in Slots : registry[d] # t
  BY <1>2, TurnAssumption DEF TurnInv, RegisteredRun
<1>9. TurnsAreTyped' /\ IdleHasNoRun'
  BY <1>1, <1>5, <1>7 DEF TurnInv, TurnsAreTyped, IdleHasNoRun
<1>10. RegisteredRun' /\ CancelReachesTurn'
  BY <1>1, <1>5, <1>7, <1>8 DEF TurnInv, TurnsAreTyped, RegisteredRun, CancelReachesTurn
<1> QED
  BY <1>6, <1>9, <1>10 DEF TurnInv

LEMMA CancellingIsSafe == ASSUME TurnInv, NEW c \in Slots, CancelTurn(c) PROVE TurnInv'
<1>1. PICK t \in Turns : t = registry[c]
  BY DEF CancelTurn, TurnInv, TurnsAreTyped
<1> DEFINE new == [turn[t] EXCEPT !.cancelled = TRUE]
<1>2. turn[t] \in TurnRecords /\ turn[t].stage = "running"
  BY <1>1 DEF CancelTurn, TurnInv, TurnsAreTyped, RegisteredRun
<1>3. new \in TurnRecords
  BY <1>2 DEF TurnRecords
<1>4. new.stage = turn[t].stage /\ new.slot = turn[t].slot /\ new.cancelled
  BY <1>2 DEF TurnRecords
<1>5. turn' = [turn EXCEPT ![t] = new] /\ UNCHANGED <<registry, run>>
  BY <1>1 DEF CancelTurn
<1>6. RunsAreSound' /\ NoNewRuns
  BY <1>5 DEF TurnInv, RunsAreSound, OneOutcome, NoNewRuns
<1> HIDE DEF new
<1> QED
  BY <1>2, <1>3, <1>4, <1>5, <1>6, TurnMoves

LEMMA OutagesAreSafe == ASSUME TurnInv, NEW p \in Processes, Outage(p) PROVE TurnInv'
<1> DEFINE Gone(t) == IF turn[t].slot[1] = p THEN Left(t, "gone", "none") ELSE turn[t]
<1>1. ASSUME NEW t \in Turns
      PROVE  /\ Gone(t) \in TurnRecords /\ Gone(t).slot = turn[t].slot
             /\ turn[t].slot[1] # p => Gone(t) = turn[t]
             /\ Gone(t).stage = IF turn[t].slot[1] = p THEN "gone" ELSE turn[t].stage
  <2>1. turn[t] \in TurnRecords
    BY DEF TurnInv, TurnsAreTyped
  <2> QED
    BY <2>1, LeftIsTyped
<1>2. /\ turn' = [t \in Turns |-> Gone(t)] /\ UNCHANGED run
      /\ registry' = [s \in Slots |-> IF s[1] = p THEN "none" ELSE registry[s]]
  BY DEF Outage
<1> HIDE DEF Gone
<1>3. turn' \in [Turns -> TurnRecords] /\ \A t \in Turns : turn'[t] = Gone(t)
  BY <1>1, <1>2
<1>4. RunsAreSound' /\ IdleHasNoRun'
  BY <1>1, <1>2, <1>3 DEF TurnInv, RunsAreSound, OneOutcome, IdleHasNoRun
<1>5. registry' \in [Slots -> Turns \cup {"none"}]
      /\ \A s \in Slots : registry'[s] = IF s[1] = p THEN "none" ELSE registry[s]
  BY <1>2 DEF TurnInv, TurnsAreTyped
<1>6. TurnsAreTyped'
  BY <1>1, <1>3, <1>5 DEF TurnInv, TurnsAreTyped
<1>7. RegisteredRun'
  <2> SUFFICES ASSUME NEW s \in Slots, registry'[s] # "none"
               PROVE  turn'[registry'[s]].stage = "running" /\ turn'[registry'[s]].slot = s
    BY DEF RegisteredRun
  <2>1. s[1] # p /\ registry'[s] = registry[s] /\ registry[s] \in Turns
    BY <1>5 DEF TurnInv, TurnsAreTyped
  <2>2. turn[registry[s]].stage = "running" /\ turn[registry[s]].slot = s
    BY <2>1 DEF TurnInv, RegisteredRun
  <2> QED
    BY <1>1, <1>3, <2>1, <2>2
<1>8. CancelReachesTurn'
  <2> SUFFICES ASSUME NEW t \in Turns, turn'[t].stage = "running", ~turn'[t].cancelled
               PROVE  registry'[turn'[t].slot] = t
    BY DEF CancelReachesTurn
  <2>1. turn[t].slot[1] # p /\ turn[t].stage = "running" /\ ~turn[t].cancelled
        /\ turn'[t].slot = turn[t].slot
    BY <1>1, <1>3
  <2>2. turn[t].slot \in Slots /\ registry[turn[t].slot] = t
    BY <2>1 DEF TurnInv, TurnsAreTyped, CancelReachesTurn
  <2> QED
    BY <1>5, <2>1, <2>2
<1> QED
  BY <1>4, <1>6, <1>7, <1>8 DEF TurnInv

LEMMA OnlyRunsMove == ASSUME TurnInv, RunsAreSound', NoNewRuns, UNCHANGED <<turn, registry>> PROVE TurnInv'
BY DEF TurnInv, TurnsAreTyped, RegisteredRun, IdleHasNoRun, CancelReachesTurn, NoNewRuns

LEMMA TurnStep == ASSUME TurnInv, [TurnNext]_turnVars PROVE TurnInv'
<1>1. ASSUME NEW t \in Turns, RunAges(t) PROVE TurnInv'
  BY <1>1, RunAgesOrNot, OnlyRunsMove DEF RunAges, TurnInv
<1>2. ASSUME NEW t \in Turns, WatchdogCancels(t) PROVE TurnInv'
  <2>1. run' \in Finished(t, "cancelled") /\ UNCHANGED <<turn, registry>>
    BY <1>2 DEF WatchdogCancels
  <2>2. RunsAreSound' /\ NoNewRuns
    BY <2>1, RunEnds DEF TurnInv
  <2> QED
    BY <2>1, <2>2, OnlyRunsMove
<1>3. CASE ReconcileRuns
  BY <1>3, WorkerEndsRuns, OnlyRunsMove DEF ReconcileRuns, TurnInv
<1>4. CASE UNCHANGED turnVars
  BY <1>4 DEF turnVars, TurnInv, RunsAreSound, OneOutcome, TurnsAreTyped, RegisteredRun, IdleHasNoRun,
              CancelReachesTurn
<1> QED
  BY <1>1, <1>2, <1>3, <1>4, BeginningIsSafe, RegisteringIsSafe, RuntimeIsSafe, EndingTurnsIsSafe,
     CancellingIsSafe, OutagesAreSafe DEF TurnNext

LEMMA TurnInitially == TurnInit => TurnInv
<1> SUFFICES ASSUME TurnInit PROVE TurnInv
  OBVIOUS
<1>1. NoTurn \in TurnRecords /\ NoTurn.stage = "idle"
  BY DEF NoTurn, TurnRecords
<1>2. NoRun \in RunRecords /\ NoRun.status = "none" /\ NoRun.outcomes = 0
  BY DEF NoRun, RunRecords
<1> QED
  BY <1>1, <1>2 DEF TurnInit, TurnInv, RunsAreSound, OneOutcome, TurnsAreTyped, RegisteredRun, IdleHasNoRun,
                    CancelReachesTurn

\* A run has one outcome, whoever ends it first - its stream, its watchdog or
\* the worker of any replica - and a turn that goes on uncancelled is the one
\* that its replica would cancel, whatever older turns do on their way out
\* (agent_run.rs, agents/runtime/mod.rs).
THEOREM RunsEndOnce == TurnSpec => []TurnsEndOnce
<1>1. TurnInv => TurnsEndOnce
  BY DEF TurnInv, RunsAreSound, TurnsEndOnce
<1> QED
  BY <1>1, TurnInitially, TurnStep, PTL DEF TurnSpec

-----------------------------------------------------------------------------
(* Shared files: a row that is not revoked keeps its object.               *)

FileFields == {"status", "verified", "job", "cleanup"}
Stored(f)  == row[f].status = "revoked" \/ f \in bucket
OnOffer    == {"active", "pending_review", "rejected"}

RowsAreSound ==
    /\ DOMAIN row = Objects /\ \A k \in Objects : DOMAIN row[k] = FileFields
    /\ \A f \in Files : row[f].status \in OnOffer => f \in bucket
    /\ \A f \in Files : row[f].job # "none" => Stored(f)

UploadsAreSound ==
    /\ upload \in [Uploads -> [stage : {"idle", "probed", "completed"}, file : Files \cup {"none"}]]
    /\ \A u \in Uploads : upload[u].stage # "idle" => upload[u].file \in Files
    /\ \A u \in Uploads : upload[u].stage = "probed" => Stored(upload[u].file)

CleanersAreSound ==
    /\ cleaner \in [Cleaners -> [claims : SUBSET Objects, key : Objects \cup {"none"},
                                 result : {"none", "ok", "error"}]]
    /\ \A w \in Cleaners : cleaner[w].result # "none" => cleaner[w].key \in Objects
    /\ \A w \in Cleaners : \A k \in cleaner[w].claims : row[k].status = "revoked"

FileInv == RowsAreSound /\ UploadsAreSound /\ CleanersAreSound

\* What is revoked stays so, and what is stored is removed only when it is.
FilesStay ==
    /\ \A k \in Objects : row[k].status = "revoked" => row'[k].status = "revoked"
    /\ \A f \in Files : f \in bucket => row'[f].status = "revoked" \/ f \in bucket'

LEMMA OthersStay ==
    ASSUME FileInv, FilesStay, RowsAreSound'
    PROVE  /\ UNCHANGED upload => UploadsAreSound'
           /\ UNCHANGED cleaner => CleanersAreSound'
<1>1. \A f \in Files : Stored(f) => Stored(f)'
  BY DEF FilesStay, Stored, Objects
<1>2. ASSUME UNCHANGED upload PROVE UploadsAreSound'
  BY <1>1, <1>2 DEF FileInv, UploadsAreSound, Stored
<1>3. ASSUME UNCHANGED cleaner PROVE CleanersAreSound'
  BY <1>3 DEF FileInv, CleanersAreSound, FilesStay
<1> QED
  BY <1>2, <1>3

LEMMA RowMoves ==
    ASSUME FileInv, NEW k \in Objects, NEW new, DOMAIN new = FileFields,
           row' = [row EXCEPT ![k] = new], UNCHANGED bucket,
           row[k].status = "revoked" => new.status = "revoked",
           k \in Files /\ new.status \in OnOffer => k \in bucket,
           k \in Files /\ new.job # "none" => new.status = "revoked" \/ k \in bucket
    PROVE  RowsAreSound' /\ FilesStay
<1>1. DOMAIN row' = Objects /\ row'[k] = new /\ \A l \in Objects \ {k} : row'[l] = row[l]
  BY DEF FileInv, RowsAreSound
<1>2. Files \subseteq Objects
  BY DEF Objects
<1> QED
  BY <1>1, <1>2 DEF FileInv, RowsAreSound, FilesStay, Stored

LEMMA NoRowMoves == ASSUME FileInv, UNCHANGED <<row, bucket>> PROVE RowsAreSound' /\ FilesStay
BY DEF FileInv, RowsAreSound, FilesStay, Stored

LEMMA RowIsThere == ASSUME FileInv, NEW f \in Files PROVE f \in Objects /\ DOMAIN row[f] = FileFields
BY DEF FileInv, RowsAreSound, Objects

LEMMA CompletingIsSafe == ASSUME FileInv, NEW u \in Uploads, Complete(u) PROVE FileInv'
<1>0. PICK f \in Files : f = upload[u].file
  BY DEF Complete, FileInv, UploadsAreSound
<1>1. Stored(f) /\ f \in Objects /\ DOMAIN row[f] = FileFields
  BY <1>0, RowIsThere DEF Complete, FileInv, UploadsAreSound
<1>2. RowsAreSound' /\ FilesStay
  <2>1. CASE AwaitsUpload(f)
    <3> DEFINE status == IF f \in Pictures THEN "pending_review" ELSE "active"
               new == [row[f] EXCEPT !.verified = TRUE, !.status = status]
    <3>1. row' = [row EXCEPT ![f] = new] /\ UNCHANGED bucket
      BY <1>0, <2>1 DEF Complete, Completed
    <3>2. row[f].status # "revoked"
      BY <2>1 DEF AwaitsUpload
    <3>3. DOMAIN new = FileFields
      BY <1>1
    <3>4. f \in bucket
      BY <1>1, <3>2 DEF Stored
    <3> HIDE DEF new
    <3> QED
      BY <1>1, <3>1, <3>2, <3>3, <3>4, RowMoves
  <2>2. CASE ~AwaitsUpload(f)
    BY <1>0, <2>2, NoRowMoves DEF Complete
  <2> QED
    BY <2>1, <2>2
<1>3. UploadsAreSound'
  <2>1. upload' = [upload EXCEPT ![u] = [upload[u] EXCEPT !.stage = "completed"]]
        \/ upload' = [upload EXCEPT ![u] = NoUpload]
    BY DEF Complete
  <2>2. \A g \in Files : Stored(g) => Stored(g)'
    BY <1>2 DEF FilesStay, Stored, Objects
  <2>3. CASE upload' = [upload EXCEPT ![u] = NoUpload]
    BY <2>2, <2>3 DEF FileInv, UploadsAreSound, NoUpload, Stored
  <2>4. CASE upload' = [upload EXCEPT ![u] = [upload[u] EXCEPT !.stage = "completed"]]
    <3> DEFINE new == [upload[u] EXCEPT !.stage = "completed"]
    <3>1. upload[u] \in [stage : {"idle", "probed", "completed"}, file : Files \cup {"none"}]
      BY DEF FileInv, UploadsAreSound
    <3>2. /\ new \in [stage : {"idle", "probed", "completed"}, file : Files \cup {"none"}]
          /\ new.stage = "completed" /\ new.file = f
      BY <1>0, <3>1
    <3>3. upload' = [upload EXCEPT ![u] = new]
      BY <2>4
    <3> HIDE DEF new
    <3> QED
      BY <2>2, <3>2, <3>3 DEF FileInv, UploadsAreSound, Stored
  <2> QED
    BY <2>1, <2>3, <2>4
<1>4. CleanersAreSound'
  BY <1>2, OthersStay DEF Complete
<1> QED
  BY <1>2, <1>3, <1>4 DEF FileInv

LEMMA UploadingIsSafe ==
    ASSUME FileInv, NEW u \in Uploads,
           (\E f \in Files : Probe(u, f)) \/ EnsureJob(u) \/ DropUpload(u)
    PROVE  FileInv'
<1>1. ASSUME NEW f \in Files, Probe(u, f) PROVE FileInv'
  <2>1. RowsAreSound' /\ FilesStay
    BY <1>1, NoRowMoves DEF Probe
  <2>2. CleanersAreSound'
    BY <1>1, <2>1, OthersStay DEF Probe
  <2>3. UploadsAreSound'
    BY <1>1 DEF Probe, FileInv, UploadsAreSound, Stored
  <2> QED
    BY <2>1, <2>2, <2>3 DEF FileInv
<1>2. CASE EnsureJob(u)
  <2>0. PICK f \in Files : f = upload[u].file
    BY <1>2 DEF EnsureJob, FileInv, UploadsAreSound
  <2>1. RowsAreSound' /\ FilesStay
    <3>1. CASE row[f].status = "pending_review" /\ row[f].job # "pending"
      <4> DEFINE new == [row[f] EXCEPT !.job = "pending"]
      <4>1. row' = [row EXCEPT ![f] = new] /\ UNCHANGED bucket
        BY <1>2, <2>0, <3>1 DEF EnsureJob
      <4>2. DOMAIN new = FileFields /\ new.status = "pending_review"
        BY <3>1, RowIsThere DEF FileFields
      <4>3. f \in bucket
        BY <3>1 DEF FileInv, RowsAreSound, OnOffer
      <4> HIDE DEF new
      <4> QED
        BY <3>1, <4>1, <4>2, <4>3, RowMoves, RowIsThere
    <3>2. CASE ~(row[f].status = "pending_review" /\ row[f].job # "pending")
      BY <1>2, <2>0, <3>2, NoRowMoves DEF EnsureJob
    <3> QED
      BY <3>1, <3>2
  <2>2. CleanersAreSound'
    BY <1>2, <2>1, OthersStay DEF EnsureJob
  <2>3. UploadsAreSound'
    <3>1. upload' = [upload EXCEPT ![u] = NoUpload]
      BY <1>2 DEF EnsureJob
    <3>2. \A g \in Files : Stored(g) => Stored(g)'
      BY <2>1 DEF FilesStay, Stored, Objects
    <3> QED
      BY <3>1, <3>2 DEF FileInv, UploadsAreSound, NoUpload, Stored
  <2> QED
    BY <2>1, <2>2, <2>3 DEF FileInv
<1>3. CASE DropUpload(u)
  <2>1. RowsAreSound' /\ FilesStay
    BY <1>3, NoRowMoves DEF DropUpload
  <2>2. CleanersAreSound'
    BY <1>3, <2>1, OthersStay DEF DropUpload
  <2>3. UploadsAreSound'
    BY <1>3 DEF DropUpload, FileInv, UploadsAreSound, NoUpload, Stored
  <2> QED
    BY <2>1, <2>2, <2>3 DEF FileInv
<1> QED
  BY <1>1, <1>2, <1>3

\* Rows that are created, judged or revoked.
LEMMA RowsMoveSafely ==
    ASSUME FileInv, NEW f \in Files, CreateFile(f) \/ PutObject(f) \/ Judge(f) \/ Revoke(f)
    PROVE  FileInv'
<1>1. f \in Objects /\ DOMAIN row[f] = FileFields
  BY RowIsThere
<1>2. RowsAreSound' /\ FilesStay
  <2>1. CASE CreateFile(f)
    <3> DEFINE new == [row[f] EXCEPT !.status = "pending_upload"]
    <3>1. DOMAIN new = FileFields /\ new.status = "pending_upload" /\ new.job = row[f].job
      BY <1>1 DEF FileFields
    <3>2. row' = [row EXCEPT ![f] = new] /\ UNCHANGED bucket /\ row[f].status = "none"
      BY <2>1 DEF CreateFile
    <3>3. row[f].job # "none" => f \in bucket
      BY <3>2 DEF FileInv, RowsAreSound, Stored
    <3> HIDE DEF new
    <3> QED
      BY <1>1, <3>1, <3>2, <3>3, RowMoves DEF OnOffer
  <2>2. CASE PutObject(f)
    BY <2>2 DEF PutObject, FileInv, RowsAreSound, FilesStay, Stored
  <2>3. CASE Judge(f)
    <3>1. PICK s : /\ row' = [row EXCEPT ![f] = [row[f] EXCEPT !.job = "settled", !.status = s]]
                   /\ row[f].status = "revoked" => s = "revoked"
                   /\ s \in {row[f].status, "active", "rejected"}
      BY <2>3 DEF Judge
    <3>2. Stored(f) /\ UNCHANGED bucket
      BY <2>3 DEF Judge, FileInv, RowsAreSound, Stored, OnOffer
    <3> DEFINE new == [row[f] EXCEPT !.job = "settled", !.status = s]
    <3>3. DOMAIN new = FileFields /\ new.status = s /\ new.job = "settled"
      BY <1>1 DEF FileFields
    <3>4. row' = [row EXCEPT ![f] = new]
      BY <3>1
    <3> HIDE DEF new
    <3> QED
      BY <1>1, <3>1, <3>2, <3>3, <3>4, RowMoves DEF Stored, OnOffer
  <2>4. CASE Revoke(f)
    <3> DEFINE new == [row[f] EXCEPT !.status = "revoked", !.cleanup = "due"]
    <3>1. DOMAIN new = FileFields /\ new.status = "revoked"
      BY <1>1 DEF FileFields
    <3>2. row' = [row EXCEPT ![f] = new] /\ UNCHANGED bucket
      BY <2>4 DEF Revoke
    <3> HIDE DEF new
    <3> QED
      BY <1>1, <3>1, <3>2, RowMoves DEF OnOffer
  <2> QED
    BY <2>1, <2>2, <2>3, <2>4
<1>3. UNCHANGED <<upload, cleaner>>
  BY DEF CreateFile, PutObject, Judge, Revoke
<1> QED
  BY <1>2, <1>3, OthersStay DEF FileInv

\* A worker that goes on to `now`, while what is revoked stays so.
LEMMA CleanerMoves ==
    ASSUME FileInv, FilesStay, NEW w \in Cleaners,
           NEW now \in [claims : SUBSET Objects, key : Objects \cup {"none"},
                        result : {"none", "ok", "error"}],
           now.result # "none" => now.key \in Objects,
           \A k \in now.claims : row[k].status = "revoked",
           cleaner' = [cleaner EXCEPT ![w] = now]
    PROVE  CleanersAreSound'
<1>1. /\ cleaner' \in [Cleaners -> [claims : SUBSET Objects, key : Objects \cup {"none"},
                                   result : {"none", "ok", "error"}]]
      /\ cleaner'[w] = now /\ \A v \in Cleaners \ {w} : cleaner'[v] = cleaner[v]
  BY DEF FileInv, CleanersAreSound
<1>2. \A v \in Cleaners : cleaner'[v].result # "none" => cleaner'[v].key \in Objects
  BY <1>1 DEF FileInv, CleanersAreSound
<1>3. ASSUME NEW v \in Cleaners, NEW k \in cleaner'[v].claims PROVE row'[k].status = "revoked"
  <2>1. k \in Objects /\ row[k].status = "revoked"
    BY <1>1 DEF FileInv, CleanersAreSound
  <2> QED
    BY <2>1 DEF FilesStay
<1> QED
  BY <1>1, <1>2, <1>3 DEF CleanersAreSound

\* Workers touch revoked rows alone, and the objects of revoked rows.
LEMMA CleaningIsSafe ==
    ASSUME FileInv, NEW w \in Cleaners,
           ClaimCleanup(w) \/ DeleteRemote(w) \/ RecordCleanup(w) \/ CleanerDies(w)
    PROVE  FileInv'
<1>1. UNCHANGED upload
  BY DEF ClaimCleanup, DeleteRemote, RecordCleanup, CleanerDies
<1>0. /\ cleaner[w] \in [claims : SUBSET Objects, key : Objects \cup {"none"},
                          result : {"none", "ok", "error"}]
      /\ \A k \in cleaner[w].claims : row[k].status = "revoked"
      /\ cleaner[w].result # "none" => cleaner[w].key \in Objects
  BY DEF FileInv, CleanersAreSound
<1>2. CASE ClaimCleanup(w)
  <2> DEFINE Later(k) == IF k \in CleanupDue THEN [row[k] EXCEPT !.cleanup = "later"] ELSE row[k]
  <2>1. \A k \in Objects : /\ DOMAIN Later(k) = FileFields /\ Later(k).status = row[k].status
                           /\ Later(k).job = row[k].job
    BY DEF FileInv, RowsAreSound, FileFields
  <2>2. row' = [k \in Objects |-> Later(k)] /\ UNCHANGED bucket
    BY <1>2 DEF ClaimCleanup
  <2> HIDE DEF Later
  <2>3. DOMAIN row' = Objects /\ \A k \in Objects : row'[k] = Later(k)
    BY <2>2
  <2>4. RowsAreSound' /\ FilesStay
    BY <2>1, <2>2, <2>3 DEF FileInv, RowsAreSound, FilesStay, Stored, Objects
  <2>5. CleanersAreSound'
    <3>1. cleaner' = [cleaner EXCEPT ![w].claims = CleanupDue]
      BY <1>2 DEF ClaimCleanup
    <3>2. CleanupDue \subseteq Objects /\ \A k \in CleanupDue : row[k].status = "revoked"
      BY DEF CleanupDue
    <3> DEFINE now == [cleaner[w] EXCEPT !.claims = CleanupDue]
    <3>3. now = [claims |-> CleanupDue, key |-> cleaner[w].key, result |-> cleaner[w].result]
      BY <1>0
    <3>4. cleaner' = [cleaner EXCEPT ![w] = now]
      BY <3>1
    <3> HIDE DEF now
    <3> QED
      BY <1>0, <2>4, <3>2, <3>3, <3>4, CleanerMoves
  <2> QED
    BY <1>1, <2>4, <2>5, OthersStay DEF FileInv
<1>3. CASE DeleteRemote(w)
  <2>1. PICK k \in cleaner[w].claims, result \in {"ok", "error"} :
             /\ cleaner' = [cleaner EXCEPT ![w] = [claims |-> cleaner[w].claims \ {k}, key |-> k,
                                                   result |-> result]]
             /\ bucket' \in {bucket, bucket \ {k}} /\ UNCHANGED row
    BY <1>3 DEF DeleteRemote
  <2>2. row[k].status = "revoked" /\ k \in Objects
    BY DEF FileInv, CleanersAreSound
  <2>3. RowsAreSound' /\ FilesStay
    BY <2>1, <2>2 DEF FileInv, RowsAreSound, FilesStay, Stored, OnOffer
  <2>4. CleanersAreSound'
    BY <1>0, <2>1, <2>2, <2>3, CleanerMoves
  <2> QED
    BY <1>1, <2>3, <2>4, OthersStay DEF FileInv
<1>4. CASE RecordCleanup(w)
  <2>0. PICK k \in Objects : k = cleaner[w].key
    BY <1>4 DEF RecordCleanup, FileInv, CleanersAreSound
  <2>1. row' = row \/ \E c \in {"done", "later"} : row' = [row EXCEPT ![k] = [row[k] EXCEPT !.cleanup = c]]
    BY <1>4, <2>0 DEF RecordCleanup
  <2>2. UNCHANGED bucket
    BY <1>4 DEF RecordCleanup
  <2>3. RowsAreSound' /\ FilesStay
    <3>1. CASE row' = row
      BY <2>2, <3>1, NoRowMoves
    <3>2. ASSUME NEW c, row' = [row EXCEPT ![k] = [row[k] EXCEPT !.cleanup = c]]
          PROVE  RowsAreSound' /\ FilesStay
      <4> DEFINE new == [row[k] EXCEPT !.cleanup = c]
      <4>1. DOMAIN new = FileFields /\ new.status = row[k].status /\ new.job = row[k].job
        BY DEF FileInv, RowsAreSound, FileFields
      <4>2. row' = [row EXCEPT ![k] = new]
        BY <3>2
      <4> HIDE DEF new
      <4> QED
        BY <2>2, <4>1, <4>2, RowMoves DEF FileInv, RowsAreSound, Stored
    <3> QED
      BY <2>1, <3>1, <3>2
  <2>4. CleanersAreSound'
    <3>1. cleaner' = [cleaner EXCEPT ![w].key = "none", ![w].result = "none"]
      BY <1>4 DEF RecordCleanup
    <3> DEFINE now == [claims |-> cleaner[w].claims, key |-> "none", result |-> "none"]
    <3>2. cleaner \in [Cleaners -> [claims : SUBSET Objects, key : Objects \cup {"none"},
                                   result : {"none", "ok", "error"}]]
      BY DEF FileInv, CleanersAreSound
    <3>3. DOMAIN cleaner' = Cleaners /\ cleaner'[w] = now
          /\ \A v \in Cleaners \ {w} : cleaner'[v] = cleaner[v]
      BY <3>1, <3>2
    <3>4. cleaner' = [v \in Cleaners |-> IF v = w THEN now ELSE cleaner[v]]
      BY <3>1, <3>2, <3>3
    <3>5. cleaner' = [cleaner EXCEPT ![w] = now]
      BY <3>2, <3>4
    <3> QED
      BY <1>0, <2>3, <3>5, CleanerMoves
  <2> QED
    BY <1>1, <2>3, <2>4, OthersStay DEF FileInv
<1>5. CASE CleanerDies(w)
  <2>1. RowsAreSound' /\ FilesStay
    BY <1>5, NoRowMoves DEF CleanerDies
  <2>2. CleanersAreSound'
    BY <1>5, <2>1, CleanerMoves DEF CleanerDies, AtRest
  <2> QED
    BY <1>1, <2>1, <2>2, OthersStay DEF FileInv
<1> QED
  BY <1>2, <1>3, <1>4, <1>5

LEMMA RetryingIsSafe == ASSUME FileInv, NEW k \in Objects, RetryIsDue(k) PROVE FileInv'
<1> DEFINE new == [row[k] EXCEPT !.cleanup = "due"]
<1>1. DOMAIN new = FileFields /\ new.status = row[k].status /\ new.job = row[k].job
  BY DEF FileInv, RowsAreSound, FileFields
<1>2. row' = [row EXCEPT ![k] = new] /\ UNCHANGED <<bucket, upload, cleaner>>
  BY DEF RetryIsDue
<1> HIDE DEF new
<1>3. RowsAreSound' /\ FilesStay
  BY <1>1, <1>2, RowMoves DEF FileInv, RowsAreSound, Stored
<1> QED
  BY <1>2, <1>3, OthersStay DEF FileInv

LEMMA FileStep == ASSUME FileInv, [FileNext]_fileVars PROVE FileInv'
<1>1. CASE UNCHANGED fileVars
  BY <1>1, NoRowMoves, OthersStay DEF fileVars, FileInv
<1> QED
  BY <1>1, RowsMoveSafely, UploadingIsSafe, CompletingIsSafe, CleaningIsSafe, RetryingIsSafe DEF FileNext

LEMMA FileInitially == FileInit => FileInv
<1> SUFFICES ASSUME FileInit PROVE FileInv
  OBVIOUS
<1>1. RowsAreSound
  BY DEF FileInit, RowsAreSound, NoFile, FileFields, OnOffer, Objects
<1>2. UploadsAreSound /\ CleanersAreSound
  BY DEF FileInit, UploadsAreSound, CleanersAreSound, NoUpload, AtRest
<1> QED
  BY <1>1, <1>2 DEF FileInv

-----------------------------------------------------------------------------
(* Images: a post, listing or message has one job for its image.           *)

JobFields   == {"resource", "image", "status", "retries", "owner", "leased"}
MediaFields == {"image", "status"}
Lasting     == Entries \cup Messages
StatusOf(job) == IF job.status \in Verdicts THEN job.status ELSE "pending"
LastWord(job, said) == IF said # "none" THEN said ELSE StatusOf(job)
CaseFields  == {"about", "status"}
\* Its job is not there yet.
Unasked(r) == media[r].image = "none" \/ (r \in Messages /\ handler[r] # "none")

MediaTypes ==
    /\ DOMAIN media = Shown /\ \A r \in Shown : DOMAIN media[r] = MediaFields
    /\ DOMAIN jobs = Jobs /\ \A j \in Jobs : DOMAIN jobs[j] = JobFields
    /\ \A j \in Jobs : IF jobs[j].status = "none" THEN jobs[j].resource = "none" ELSE jobs[j].resource \in Shown
    /\ DOMAIN handler = Messages \cup Avatars /\ DOMAIN ruling = Shown
CasesAbout ==
    /\ DOMAIN cases = Jobs \cup Reports
    /\ \A k \in Jobs \cup Reports : DOMAIN cases[k] = CaseFields
    /\ \A k \in Jobs \cup Reports : cases[k].status # "none" => cases[k].about \in Shown
WorkInHand ==
    /\ DOMAIN taken = Reviewers /\ \A w \in Reviewers : \A item \in taken[w] : item[1] \in Jobs
    /\ DOMAIN answer = Reviewers
    /\ \A w \in Reviewers : answer[w] = NoAnswer \/ (answer[w].job \in Jobs
                                /\ answer[w].says \in {"approved", "rejected", "error"})
OneJobEach == \A j, k \in Jobs :
    jobs[j].resource = jobs[k].resource /\ jobs[j].resource \in Lasting => j = k
AskedOnce == \A j \in Jobs : jobs[j].resource \in Lasting => ~Unasked(jobs[j].resource)
SentHasImage == \A m \in Messages : handler[m] # "none" => media[m].image # "none"

MediaInv ==
    MediaTypes /\ CasesAbout /\ WorkInHand /\ OneJobEach /\ AskedOnce /\ SentHasImage /\ LastWordStands

LEMMA Resources ==
    /\ Shown = Lasting \cup Avatars /\ Lasting \cap Avatars = {} /\ "none" \notin Shown
    /\ "none" \notin Verdicts \cup Images
BY ResourceAssumption, MediaAssumption DEF Shown, Lasting, Verdicts

LEMMA NewJobs ==
    ASSUME NEW r, NEW i
    PROVE  /\ DOMAIN NewJob(r, i) = JobFields /\ NewJob(r, i).resource = r
           /\ NewJob(r, i).status = "pending"
           /\ NoJob.resource = "none" /\ NoJob.status = "none" /\ DOMAIN NoJob = JobFields
BY DEF NewJob, NoJob, JobFields

\* A job is created, for a resource that is not asked for yet, or an avatar.
LEMMA JobComes ==
    ASSUME MediaInv, NEW j \in Fresh, NEW r \in Shown, NEW i, NEW new, DOMAIN new = MediaFields,
           jobs' = [jobs EXCEPT ![j] = NewJob(r, i)], media' = [media EXCEPT ![r] = new],
           ruling' = [ruling EXCEPT ![r] = "none"],
           new.status = "pending", r \in Avatars \/ Unasked(r)
    PROVE  /\ OneJobEach' /\ LastWordStands'
           /\ \A k \in Jobs : jobs'[k].resource = IF k = j THEN r ELSE jobs[k].resource
           /\ DOMAIN media' = Shown /\ \A s \in Shown : DOMAIN media'[s] = MediaFields
           /\ DOMAIN ruling' = Shown
           /\ DOMAIN jobs' = Jobs /\ \A k \in Jobs : DOMAIN jobs'[k] = JobFields
           /\ \A k \in Jobs : IF jobs'[k].status = "none" THEN jobs'[k].resource = "none"
                              ELSE jobs'[k].resource \in Shown
           /\ media'[r] = new /\ \A s \in Shown \ {r} : media'[s] = media[s]
<1>1. j \in Jobs /\ jobs[j] = NoJob
  BY DEF Fresh
<1>2. /\ DOMAIN media' = Shown /\ media'[r] = new /\ \A s \in Shown \ {r} : media'[s] = media[s]
      /\ DOMAIN jobs' = Jobs /\ jobs'[j] = NewJob(r, i) /\ \A k \in Jobs \ {j} : jobs'[k] = jobs[k]
      /\ DOMAIN ruling' = Shown /\ ruling'[r] = "none" /\ \A s \in Shown \ {r} : ruling'[s] = ruling[s]
  BY <1>1 DEF MediaInv, MediaTypes
<1>3. \A k \in Jobs : jobs'[k].resource = IF k = j THEN r ELSE jobs[k].resource
  BY <1>2, NewJobs
<1>4. \A k \in Jobs : jobs[k].resource = r => r \in Avatars
  BY Resources DEF MediaInv, AskedOnce
<1>5. OneJobEach'
  BY <1>3, <1>4, Resources DEF MediaInv, OneJobEach
<1>6. LastWordStands'
  <2> SUFFICES ASSUME NEW k \in Jobs, jobs'[k].resource \in Lasting
               PROVE  media'[jobs'[k].resource].status = LastWord(jobs'[k], ruling'[jobs'[k].resource])
    BY DEF LastWordStands, LastWord, StatusOf, Lasting
  <2>1. CASE k = j
    BY <1>2, <2>1, NewJobs DEF LastWord, StatusOf, Verdicts
  <2>2. CASE k # j
    <3>1. jobs'[k] = jobs[k] /\ jobs[k].resource # r /\ jobs[k].resource \in Shown
      BY <1>2, <1>4, <2>2, Resources
    <3> QED
      BY <1>2, <3>1 DEF MediaInv, LastWordStands, LastWord, StatusOf, Lasting
  <2> QED
    BY <2>1, <2>2
<1>7. \A k \in Jobs : /\ DOMAIN jobs'[k] = JobFields
                      /\ IF jobs'[k].status = "none" THEN jobs'[k].resource = "none"
                         ELSE jobs'[k].resource \in Shown
  BY <1>2, NewJobs DEF MediaInv, MediaTypes
<1>8. \A s \in Shown : DOMAIN media'[s] = MediaFields
  BY <1>2 DEF MediaInv, MediaTypes
<1> QED
  BY <1>2, <1>3, <1>5, <1>6, <1>7, <1>8

LEMMA PublishingIsSafe ==
    ASSUME MediaInv, NEW p \in Entries, NEW i \in Images, PublishMedia(p, i)
    PROVE  MediaInv'
<1>1. PICK j \in Fresh : /\ jobs' = [jobs EXCEPT ![j] = NewJob(p, i)]
                         /\ media' = [media EXCEPT ![p] = [image |-> i, status |-> "pending"]]
  BY DEF PublishMedia
<1>2. PICK new : new = [image |-> i, status |-> "pending"]
  OBVIOUS
<1>3. DOMAIN new = MediaFields /\ new.status = "pending" /\ new.image = i /\ i # "none"
  BY <1>2, Resources DEF MediaFields
<1>4. p \in Shown /\ p \notin Messages /\ Unasked(p)
  BY ResourceAssumption DEF PublishMedia, Unasked, Shown
<1>5. media' = [media EXCEPT ![p] = new]
  BY <1>1, <1>2
<1>7. UNCHANGED <<taken, answer, handler, cases>> /\ ruling' = [ruling EXCEPT ![p] = "none"]
  BY DEF PublishMedia
<1>9. /\ OneJobEach' /\ LastWordStands'
      /\ \A k \in Jobs : jobs'[k].resource = IF k = j THEN p ELSE jobs[k].resource
      /\ DOMAIN media' = Shown /\ \A s \in Shown : DOMAIN media'[s] = MediaFields
      /\ DOMAIN ruling' = Shown
      /\ DOMAIN jobs' = Jobs /\ \A k \in Jobs : DOMAIN jobs'[k] = JobFields
      /\ \A k \in Jobs : IF jobs'[k].status = "none" THEN jobs'[k].resource = "none"
                         ELSE jobs'[k].resource \in Shown
      /\ media'[p] = new /\ \A s \in Shown \ {p} : media'[s] = media[s]
  BY <1>1, <1>3, <1>4, <1>5, <1>7, JobComes
<1>6. /\ OneJobEach' /\ LastWordStands' /\ MediaTypes'
      /\ \A k \in Jobs : jobs'[k].resource = IF k = j THEN p ELSE jobs[k].resource
      /\ media'[p] = new /\ \A s \in Shown \ {p} : media'[s] = media[s]
  BY <1>7, <1>9 DEF MediaInv, MediaTypes
<1>8. AskedOnce' /\ SentHasImage'
  BY <1>3, <1>4, <1>6, <1>7, Resources DEF MediaInv, AskedOnce, SentHasImage, Unasked, Lasting, Shown
<1> QED
  BY <1>6, <1>7, <1>8 DEF MediaInv, CasesAbout, WorkInHand

LEMMA SendingImageIsSafe ==
    ASSUME MediaInv, NEW m \in Messages, NEW i \in Images, SendImage(m, i)
    PROVE  MediaInv'
<1> DEFINE new == [media[m] EXCEPT !.image = i]
<1>1. m \in Shown /\ m \in Lasting /\ Unasked(m) /\ i # "none"
  BY Resources DEF SendImage, Unasked, Shown, Lasting
<1>2. DOMAIN new = MediaFields /\ new.image = i /\ new.status = media[m].status
  BY <1>1 DEF MediaInv, MediaTypes, MediaFields
<1>3. media' = [media EXCEPT ![m] = new] /\ handler' = [handler EXCEPT ![m] = i]
      /\ UNCHANGED <<jobs, taken, answer, cases, ruling>>
  BY DEF SendImage
<1> HIDE DEF new
<1>4. /\ DOMAIN media' = Shown /\ media'[m] = new /\ \A s \in Shown \ {m} : media'[s] = media[s]
      /\ DOMAIN handler' = Messages \cup Avatars
      /\ \A n \in Messages \ {m} : handler'[n] = handler[n]
  BY <1>1, <1>3 DEF MediaInv, MediaTypes
<1>5. \A j \in Jobs : jobs[j].resource # m
  BY <1>1 DEF MediaInv, AskedOnce
<1>6. MediaTypes' /\ OneJobEach'
  BY <1>2, <1>3, <1>4 DEF MediaInv, MediaTypes, OneJobEach
<1>7. AskedOnce' /\ SentHasImage'
  BY <1>1, <1>2, <1>3, <1>4, <1>5, Resources DEF MediaInv, AskedOnce, SentHasImage, Unasked, Lasting, Shown
<1>8. LastWordStands'
  BY <1>2, <1>3, <1>4, <1>5 DEF MediaInv, LastWordStands, Shown
<1> QED
  BY <1>3, <1>6, <1>7, <1>8 DEF MediaInv, CasesAbout, WorkInHand

\* A handler is done, or takes its next step, without a job.
LEMMA HandlersGoOn ==
    ASSUME MediaInv, NEW r \in Messages \cup Avatars, NEW i, handler' = [handler EXCEPT ![r] = i],
           r \in Messages => i = "none", UNCHANGED <<jobs, media, taken, answer, cases, ruling>>
    PROVE  MediaInv'
<1>1. DOMAIN handler' = Messages \cup Avatars
      /\ \A m \in Messages : handler'[m] \in {handler[m], "none"}
  BY DEF MediaInv, MediaTypes
<1> QED
  BY <1>1 DEF MediaInv, MediaTypes, CasesAbout, WorkInHand, OneJobEach, AskedOnce, SentHasImage, LastWordStands,
              Unasked

\* A handler submits a job and goes on.
LEMMA SubmittingIsSafe ==
    ASSUME MediaInv, NEW r \in Messages \cup Avatars, NEW i, NEW image, NEW j \in Fresh,
           Submit(j, r, image), handler' = [handler EXCEPT ![r] = i],
           r \in Messages => i = "none" /\ handler[r] # "none", UNCHANGED <<taken, answer, cases>>
    PROVE  MediaInv'
<1> DEFINE new == [media[r] EXCEPT !.status = "pending"]
<1>1. r \in Shown /\ (r \in Avatars \/ Unasked(r))
  BY DEF Shown, Unasked
<1>2. DOMAIN new = MediaFields /\ new.status = "pending" /\ new.image = media[r].image
  BY <1>1 DEF MediaInv, MediaTypes, MediaFields
<1>3. jobs' = [jobs EXCEPT ![j] = NewJob(r, image)] /\ media' = [media EXCEPT ![r] = new]
      /\ ruling' = [ruling EXCEPT ![r] = "none"]
  BY DEF Submit
<1> HIDE DEF new
<1>4. DOMAIN handler' = Messages \cup Avatars /\ handler'[r] = i
      /\ \A s \in Messages \ {r} : handler'[s] = handler[s]
  BY DEF MediaInv, MediaTypes
<1>9. /\ OneJobEach' /\ LastWordStands'
      /\ \A k \in Jobs : jobs'[k].resource = IF k = j THEN r ELSE jobs[k].resource
      /\ DOMAIN media' = Shown /\ \A s \in Shown : DOMAIN media'[s] = MediaFields
      /\ DOMAIN ruling' = Shown
      /\ DOMAIN jobs' = Jobs /\ \A k \in Jobs : DOMAIN jobs'[k] = JobFields
      /\ \A k \in Jobs : IF jobs'[k].status = "none" THEN jobs'[k].resource = "none"
                         ELSE jobs'[k].resource \in Shown
      /\ media'[r] = new /\ \A s \in Shown \ {r} : media'[s] = media[s]
  BY <1>1, <1>2, <1>3, JobComes
<1>5. /\ OneJobEach' /\ LastWordStands' /\ MediaTypes'
      /\ \A k \in Jobs : jobs'[k].resource = IF k = j THEN r ELSE jobs[k].resource
      /\ media'[r] = new /\ \A s \in Shown \ {r} : media'[s] = media[s]
  BY <1>4, <1>9 DEF MediaInv, MediaTypes
<1>6. \A s \in Lasting : Unasked(s)' => Unasked(s) /\ s # r
  BY <1>2, <1>4, <1>5, ResourceAssumption DEF MediaInv, SentHasImage, Unasked, Lasting, Shown
<1>7. AskedOnce'
  BY <1>5, <1>6, Resources DEF MediaInv, AskedOnce
<1>8. SentHasImage'
  BY <1>2, <1>4, <1>5, ResourceAssumption DEF MediaInv, SentHasImage, Shown
<1> QED
  BY <1>5, <1>7, <1>8 DEF MediaInv, CasesAbout, WorkInHand

LEMMA SettingAvatarIsSafe == ASSUME MediaInv, NEW u \in Avatars, SetAvatar(u) PROVE MediaInv'
<1>0. PICK i : i = handler[u]
  OBVIOUS
<1> DEFINE new == [media[u] EXCEPT !.image = i]
<1>1. u \in Shown /\ u \notin Lasting /\ u \notin Messages
  BY ResourceAssumption DEF Shown, Lasting
<1>2. DOMAIN new = MediaFields
  BY <1>1 DEF MediaInv, MediaTypes
<1>3. media' = [media EXCEPT ![u] = new] /\ handler' = [handler EXCEPT ![u] = "none"]
      /\ UNCHANGED <<jobs, taken, answer, cases, ruling>>
  BY <1>0 DEF SetAvatar
<1> HIDE DEF new
<1>4. /\ DOMAIN media' = Shown /\ media'[u] = new /\ \A s \in Shown \ {u} : media'[s] = media[s]
      /\ DOMAIN handler' = Messages \cup Avatars
      /\ \A m \in Messages : handler'[m] = handler[m]
  BY <1>1, <1>3 DEF MediaInv, MediaTypes
<1>5. MediaTypes' /\ OneJobEach'
  BY <1>2, <1>3, <1>4 DEF MediaInv, MediaTypes, OneJobEach
<1>6. AskedOnce' /\ SentHasImage' /\ LastWordStands'
  BY <1>1, <1>3, <1>4, Resources
  DEF MediaInv, AskedOnce, SentHasImage, LastWordStands, Unasked, Lasting, Shown
<1> QED
  BY <1>3, <1>5, <1>6 DEF MediaInv, CasesAbout, WorkInHand

\* Jobs that are claimed, put back or without a lease mean what they meant.
LEMMA JobsGoRound ==
    ASSUME MediaInv, DOMAIN jobs' = Jobs, WorkInHand', UNCHANGED <<media, handler, cases, ruling>>,
           \A j \in Jobs : /\ DOMAIN jobs'[j] = JobFields /\ jobs'[j].resource = jobs[j].resource
                           /\ StatusOf(jobs'[j]) = StatusOf(jobs[j])
                           /\ jobs'[j].status = "none" <=> jobs[j].status = "none"
    PROVE  MediaInv'
<1>1. MediaTypes' /\ OneJobEach' /\ AskedOnce' /\ SentHasImage'
  BY DEF MediaInv, MediaTypes, OneJobEach, AskedOnce, SentHasImage, Unasked
<1>2. LastWordStands'
  BY DEF MediaInv, LastWordStands, StatusOf
<1> QED
  BY <1>1, <1>2 DEF MediaInv, CasesAbout

LEMMA OneJobGoesRound ==
    ASSUME MediaInv, WorkInHand', UNCHANGED <<media, handler, cases, ruling>>, NEW j \in Jobs, NEW new,
           jobs' = [jobs EXCEPT ![j] = new], DOMAIN new = JobFields,
           new.resource = jobs[j].resource, jobs[j].status = "processing",
           new.status \in {"pending", "processing"}
    PROVE  MediaInv'
<1>1. DOMAIN jobs' = Jobs /\ jobs'[j] = new /\ \A k \in Jobs \ {j} : jobs'[k] = jobs[k]
  BY DEF MediaInv, MediaTypes
<1> QED
  BY <1>1, JobsGoRound DEF StatusOf, Verdicts, MediaInv, MediaTypes

LEMMA ReviewingIsSafe ==
    ASSUME MediaInv, NEW w \in Reviewers,
           ClaimImages(w) \/ Review(w) \/ Requeue(w) \/ WorkerDies(w)
    PROVE  MediaInv'
<1>0. UNCHANGED <<media, handler, cases, ruling>>
  BY DEF ClaimImages, Review, Requeue, WorkerDies
<1>1. CASE ClaimImages(w)
  <2> DEFINE claimed == {j \in Jobs : Reviewable(j)}
             Next(j) == IF j \in claimed
                        THEN [jobs[j] EXCEPT !.status = "processing", !.owner = w, !.leased = TRUE]
                        ELSE jobs[j]
  <2>1. ASSUME NEW j \in Jobs
        PROVE  /\ DOMAIN Next(j) = JobFields /\ Next(j).resource = jobs[j].resource
               /\ StatusOf(Next(j)) = StatusOf(jobs[j])
               /\ Next(j).status = "none" <=> jobs[j].status = "none"
    BY DEF MediaInv, MediaTypes, JobFields, Reviewable, StatusOf, Verdicts
  <2>2. jobs' = [j \in Jobs |-> Next(j)]
        /\ taken' = [taken EXCEPT ![w] = {<<j, jobs[j].retries>> : j \in claimed}]
        /\ UNCHANGED answer
    BY <1>1 DEF ClaimImages
  <2>3. WorkInHand'
    <3>1. \A item \in {<<j, jobs[j].retries>> : j \in claimed} : item[1] \in Jobs
      OBVIOUS
    <3> DEFINE claims == {<<j, jobs[j].retries>> : j \in claimed}
    <3>2. taken' = [taken EXCEPT ![w] = claims] /\ \A item \in claims : item[1] \in Jobs
      BY <2>2, <3>1
    <3> HIDE DEF claims
    <3> QED
      BY <2>2, <3>2 DEF MediaInv, WorkInHand
  <2> HIDE DEF Next
  <2>4. DOMAIN jobs' = Jobs /\ \A j \in Jobs : jobs'[j] = Next(j)
    BY <2>2
  <2>5. ASSUME NEW j \in Jobs
        PROVE  /\ DOMAIN jobs'[j] = JobFields /\ jobs'[j].resource = jobs[j].resource
               /\ StatusOf(jobs'[j]) = StatusOf(jobs[j])
               /\ jobs'[j].status = "none" <=> jobs[j].status = "none"
    BY <2>1, <2>4
  <2> QED
    BY <1>0, <2>3, <2>4, <2>5, JobsGoRound
<1>2. CASE Review(w)
  <2>1. PICK item \in taken[w], says \in {"rejected", "approved", "error"} :
            /\ answer' = [answer EXCEPT ![w] = [job |-> item[1], retries |-> item[2], says |-> says]]
            /\ taken' = [taken EXCEPT ![w] = @ \ {item}] /\ UNCHANGED jobs
    BY <1>2 DEF Review
  <2>2. WorkInHand'
    BY <2>1 DEF MediaInv, WorkInHand
  <2> QED
    BY <1>0, <2>1, <2>2 DEF MediaInv, MediaTypes, CasesAbout, OneJobEach, AskedOnce, SentHasImage, Unasked, LastWordStands
<1>3. CASE Requeue(w)
  <2>1. answer[w].job \in Jobs
    BY <1>3 DEF Requeue, MayRetry, NoAnswer, MediaInv, WorkInHand
  <2>2. WorkInHand'
    BY <1>3 DEF Requeue, MediaInv, WorkInHand
  <2>3. CASE Holds(w, answer[w].job)
    <3>0. PICK j \in Jobs : j = answer[w].job
      BY <2>1
    <3>1. jobs' = [jobs EXCEPT ![j].status = "pending", ![j].owner = "none",
                               ![j].leased = FALSE, ![j].retries = @ + 1]
      BY <1>3, <2>3, <3>0 DEF Requeue
    <3> DEFINE new == [jobs[j] EXCEPT !.status = "pending", !.owner = "none", !.leased = FALSE,
                                      !.retries = @ + 1]
    <3>2. DOMAIN new = JobFields /\ new.status = "pending" /\ new.resource = jobs[j].resource
      BY DEF MediaInv, MediaTypes, JobFields
    <3>3. jobs' = [jobs EXCEPT ![j] = new]
      BY <3>1
    <3> HIDE DEF new
    <3>4. jobs[j].status = "processing"
      BY <2>3, <3>0 DEF Holds
    <3> QED
      BY <1>0, <2>2, <3>2, <3>3, <3>4, OneJobGoesRound
  <2>4. CASE ~Holds(w, answer[w].job)
    <3>1. UNCHANGED jobs
      BY <1>3, <2>4 DEF Requeue
    <3> QED
      BY <1>0, <2>2, <3>1 DEF MediaInv, MediaTypes, CasesAbout, OneJobEach, AskedOnce, SentHasImage, Unasked, LastWordStands
  <2> QED
    BY <2>3, <2>4
<1>4. CASE WorkerDies(w)
  <2>1. WorkInHand' /\ UNCHANGED jobs
    BY <1>4 DEF WorkerDies, MediaInv, WorkInHand
  <2> QED
    BY <1>0, <2>1 DEF MediaInv, MediaTypes, CasesAbout, OneJobEach, AskedOnce, SentHasImage, Unasked, LastWordStands
<1> QED
  BY <1>1, <1>2, <1>3, <1>4

\* The resource and the job of a verdict change together, and no other job is
\* about that resource.
LEMMA SettlingReviewIsSafe == ASSUME MediaInv, NEW w \in Reviewers, SettleReview(w) PROVE MediaInv'
<1>1. PICK j \in Jobs : j = answer[w].job
  BY DEF SettleReview, MediaInv, WorkInHand
<1>2. PICK v \in Verdicts : v = VerdictOf(w)
  BY DEF SettleReview, MediaInv, WorkInHand, VerdictOf, Verdicts
<1>3. WorkInHand' /\ UNCHANGED handler
  BY DEF SettleReview, MediaInv, WorkInHand
<1>4. CASE Holds(w, j)
  <2>0. PICK r \in Shown : r = jobs[j].resource
    BY <1>4 DEF Holds, MediaInv, MediaTypes
  <2> DEFINE job == [jobs[j] EXCEPT !.status = v, !.owner = "none", !.leased = FALSE]
             new == [media[r] EXCEPT !.status = v]
  <2>1. /\ jobs' = [jobs EXCEPT ![j] = job] /\ media' = [media EXCEPT ![r] = new]
        /\ ruling' = [ruling EXCEPT ![r] = "none"]
        /\ cases' = cases \/ cases' = [cases EXCEPT ![j] = [about |-> r, status |-> "actioned"]]
    BY <1>1, <1>2, <1>4, <2>0 DEF SettleReview, SettledAs, Rejects
  <2>2. DOMAIN job = JobFields /\ job.status = v /\ job.resource = r
    BY <2>0 DEF MediaInv, MediaTypes, JobFields
  <2>3. DOMAIN new = MediaFields /\ new.status = v /\ new.image = media[r].image
    BY DEF MediaInv, MediaTypes, MediaFields
  <2> HIDE DEF job, new
  <2>4. /\ DOMAIN jobs' = Jobs /\ jobs'[j] = job /\ \A k \in Jobs \ {j} : jobs'[k] = jobs[k]
        /\ DOMAIN media' = Shown /\ media'[r] = new /\ \A s \in Shown \ {r} : media'[s] = media[s]
        /\ DOMAIN ruling' = Shown /\ ruling'[r] = "none"
        /\ \A s \in Shown \ {r} : ruling'[s] = ruling[s]
    BY <2>1 DEF MediaInv, MediaTypes
  <2>5. \A k \in Jobs : jobs'[k].resource = jobs[k].resource
    BY <2>0, <2>2, <2>4
  <2>6. \A s \in Shown : media'[s].image = media[s].image
    BY <2>3, <2>4
  <2>7. MediaTypes'
    BY <1>3, <2>2, <2>3, <2>4, Resources DEF MediaInv, MediaTypes
  <2>10. CasesAbout'
    BY <2>1 DEF MediaInv, CasesAbout, CaseFields
  <2>8. OneJobEach' /\ AskedOnce' /\ SentHasImage'
    BY <1>3, <2>5, <2>6 DEF MediaInv, OneJobEach, AskedOnce, SentHasImage, Unasked, Lasting, Shown
  <2>9. LastWordStands'
    <3> SUFFICES ASSUME NEW k \in Jobs, jobs'[k].resource \in Lasting
                 PROVE  media'[jobs'[k].resource].status = LastWord(jobs'[k], ruling'[jobs'[k].resource])
      BY DEF LastWordStands, LastWord, StatusOf, Lasting
    <3>1. CASE k = j
      BY <2>2, <2>3, <2>4, <3>1 DEF LastWord, StatusOf
    <3>2. CASE k # j
      <4>1. jobs'[k] = jobs[k] /\ jobs[k].resource # r /\ jobs[k].resource \in Shown
        BY <2>0, <2>4, <3>2, Resources DEF MediaInv, OneJobEach
      <4> QED
        BY <2>4, <4>1 DEF MediaInv, LastWordStands, LastWord, StatusOf, Lasting
    <3> QED
      BY <3>1, <3>2
  <2> QED
    BY <1>3, <2>7, <2>8, <2>9, <2>10 DEF MediaInv
<1>5. CASE ~Holds(w, j)
  <2>1. UNCHANGED <<jobs, media, cases, ruling>>
    BY <1>1, <1>5 DEF SettleReview
  <2> QED
    BY <1>3, <2>1 DEF MediaInv, MediaTypes, CasesAbout, OneJobEach, AskedOnce, SentHasImage, Unasked, LastWordStands
<1> QED
  BY <1>4, <1>5

LEMMA LosingLeaseIsSafe == ASSUME MediaInv, NEW j \in Jobs, LeaseEnds(j) PROVE MediaInv'
<1> DEFINE new == [jobs[j] EXCEPT !.leased = FALSE]
<1>1. DOMAIN new = JobFields /\ new.resource = jobs[j].resource /\ new.status = jobs[j].status
  BY DEF MediaInv, MediaTypes, JobFields
<1>2. jobs' = [jobs EXCEPT ![j] = new] /\ UNCHANGED <<media, taken, answer, handler, cases, ruling>>
      /\ jobs[j].status = "processing"
  BY DEF LeaseEnds
<1> HIDE DEF new
<1>3. WorkInHand'
  BY <1>2 DEF MediaInv, WorkInHand
<1> QED
  BY <1>1, <1>2, <1>3, OneJobGoesRound

\* Moderators change a status and, with it, the last word on the resource.
LEMMA RulingIsSafe ==
    ASSUME MediaInv, NEW k \in Jobs \cup Reports, NEW says \in {"approved", "rejected"}, Rule(k, says)
    PROVE  MediaInv'
<1>0. cases[k].status # "none"
  BY DEF Rule
<1>1. PICK r \in Shown : r = cases[k].about
  BY <1>0 DEF MediaInv, CasesAbout
<1> DEFINE new == [media[r] EXCEPT !.status = says]
<1>2. DOMAIN new = MediaFields /\ new.status = says /\ new.image = media[r].image
  BY <1>1 DEF MediaInv, MediaTypes, MediaFields
<1>3. /\ media' = [media EXCEPT ![r] = new] /\ ruling' = [ruling EXCEPT ![r] = says]
      /\ cases' = [cases EXCEPT ![k].status = CaseAfter(@, says)]
      /\ UNCHANGED <<jobs, taken, answer, handler>>
  BY <1>1 DEF Rule
<1> HIDE DEF new
<1>4. /\ DOMAIN media' = Shown /\ media'[r] = new /\ \A s \in Shown \ {r} : media'[s] = media[s]
      /\ DOMAIN ruling' = Shown /\ ruling'[r] = says /\ \A s \in Shown \ {r} : ruling'[s] = ruling[s]
  BY <1>1, <1>3 DEF MediaInv, MediaTypes
<1>5. CasesAbout'
  BY <1>0, <1>3 DEF MediaInv, CasesAbout, CaseFields
<1>6. MediaTypes' /\ OneJobEach'
  BY <1>2, <1>3, <1>4, <1>5 DEF MediaInv, MediaTypes, OneJobEach
<1>7. \A s \in Shown : media'[s].image = media[s].image
  BY <1>2, <1>4
<1>8. AskedOnce' /\ SentHasImage'
  BY <1>3, <1>7 DEF MediaInv, AskedOnce, SentHasImage, Unasked, Lasting, Shown
<1>9. LastWordStands'
  BY <1>2, <1>3, <1>4 DEF MediaInv, LastWordStands, Shown
<1> QED
  BY <1>3, <1>5, <1>6, <1>8, <1>9 DEF MediaInv, WorkInHand

LEMMA ReportingIsSafe ==
    ASSUME MediaInv, NEW k \in Reports, NEW m \in Messages, Report(k, m)
    PROVE  MediaInv'
<1>1. CasesAbout'
  BY DEF Report, MediaInv, CasesAbout, CaseFields, Shown
<1>2. UNCHANGED <<media, jobs, taken, answer, handler, ruling>>
  BY DEF Report
<1> QED
  BY <1>1, <1>2 DEF MediaInv, MediaTypes, CasesAbout, WorkInHand, OneJobEach, AskedOnce, SentHasImage, Unasked,
                    LastWordStands

LEMMA MediaStep == ASSUME MediaInv, [MediaNext]_mediaVars PROVE MediaInv'
<1>1. ASSUME NEW m \in Messages, EnqueueMessage(m) PROVE MediaInv'
  BY <1>1, SubmittingIsSafe, HandlersGoOn DEF EnqueueMessage
<1>2. ASSUME NEW u \in Avatars, NEW i \in Images, SubmitAvatar(u, i) PROVE MediaInv'
  BY <1>2, SubmittingIsSafe, HandlersGoOn, ResourceAssumption DEF SubmitAvatar
<1>3. CASE UNCHANGED mediaVars
  BY <1>3 DEF mediaVars, MediaInv, MediaTypes, CasesAbout, WorkInHand, OneJobEach, AskedOnce, SentHasImage, Unasked,
              LastWordStands
<1> QED
  BY <1>1, <1>2, <1>3, PublishingIsSafe, SendingImageIsSafe, SettingAvatarIsSafe, ReviewingIsSafe,
     SettlingReviewIsSafe, LosingLeaseIsSafe, ReportingIsSafe, RulingIsSafe DEF MediaNext

LEMMA MediaInitially == MediaInit => MediaInv
<1> SUFFICES ASSUME MediaInit PROVE MediaInv
  OBVIOUS
<1>1. NoJob.resource = "none" /\ NoJob.status = "none" /\ DOMAIN NoJob = JobFields
  BY NewJobs
<1>2. /\ \A r \in Shown : DOMAIN NoMedia(r) = MediaFields
      /\ DOMAIN NoCase = CaseFields /\ NoCase.status = "none"
  BY DEF NoMedia, MediaFields, NoCase, CaseFields
<1> QED
  BY <1>1, <1>2, Resources DEF MediaInit, MediaInv, MediaTypes, CasesAbout, WorkInHand, OneJobEach, AskedOnce, SentHasImage,
                               LastWordStands, Lasting

\* A post, listing or message shows what the one job of its image came to, or
\* what moderators said since, whoever held or lost the lease
\* (moderation_worker.rs, moderation_case.rs), and a file that is offered is in
\* the store, whoever completed, revoked or cleaned it up (shared_object.rs).
THEOREM ReviewsStayHonoured == MediaSpec /\ FileSpec => []ReviewsAreHonoured
<1>1. MediaInv /\ FileInv => ReviewsAreHonoured
  BY DEF MediaInv, FileInv, RowsAreSound, OnOffer, OfferedIsStored, ReviewsAreHonoured
<1> QED
  BY <1>1, MediaInitially, MediaStep, FileInitially, FileStep, PTL DEF MediaSpec, FileSpec

-----------------------------------------------------------------------------
(* Together.                                                               *)

\* A step of the composition is one of each component, or none.
LEMMA WorkGoesOn ==
    ASSUME [WorkNext]_workVars
    PROVE  /\ [MediaNext]_mediaVars /\ [FileNext]_fileVars
           /\ [TurnNext]_turnVars /\ [OutboxNext]_outboxVars
BY DEF WorkNext, workVars, Follow

\* What the run background explores keeps what its components promise one by
\* one, for any number of workers, jobs, files, turns and notices.
THEOREM WorkKeepsItsWord ==
    WorkSpec => [](ReviewsAreHonoured /\ TurnsEndOnce /\ PushesAreAccountedFor)
<1>1. WorkInit => MediaInit /\ FileInit /\ TurnInit /\ OutboxInit
  BY DEF WorkInit
<1>2. [WorkNext]_workVars => /\ [MediaNext]_mediaVars /\ [FileNext]_fileVars
                            /\ [TurnNext]_turnVars /\ [OutboxNext]_outboxVars
  BY WorkGoesOn
<1>3. WorkSpec => MediaSpec /\ FileSpec /\ TurnSpec /\ OutboxSpec
  BY <1>1, <1>2, PTL DEF WorkSpec, MediaSpec, FileSpec, TurnSpec, OutboxSpec
<1> QED
  BY <1>3, ReviewsStayHonoured, RunsEndOnce, PushesStayAccountedFor, PTL
=============================================================================
