-------------------------------- MODULE Outbox --------------------------------
(***************************************************************************)
(* Notifications on their way to a phone.  A notification is written       *)
(* together with an event of `outbox_events`; the worker of some node      *)
(* claims the event under a lease, hands the push to the WebSocket hub of  *)
(* its node and marks the event.  With Redis the hub queues the push in    *)
(* memory for a publisher task, and every node that listens delivers what  *)
(* is published to the sockets it holds.                                   *)
(*                                                                         *)
(* A node claims events as soon as it starts, before it has its publisher. *)
(*                                                                         *)
(* One recipient is followed, connected to one node, Home, whenever it     *)
(* serves.  A push that a fault has put twice into one channel is counted  *)
(* once.                                                                   *)
(***************************************************************************)
EXTENDS Naturals, FiniteSets

CONSTANTS
    Nodes, Home,    \* replicas; the one that holds the recipient's socket
    Notices,        \* notifications to write
    Unknown,        \* those of a topic that has no dispatcher
    MaxDeliveries,    \* outbox_events.max_attempts
    Buffer,         \* capacity of the publisher's channel
    MaxFailures     \* bound: crashes, shutdowns, lapsed leases, errors, replays

ASSUME OutboxAssumption ==
    /\ Home \in Nodes /\ Unknown \subseteq Notices /\ "none" \notin Nodes \cup Notices
    /\ MaxDeliveries \in Nat \ {0} /\ Buffer \in Nat \ {0} /\ MaxFailures \in Nat

VARIABLES
    event,      \* outbox_events, and with it the row of `notifications`
    batch,      \* what each worker has claimed and not yet marked
    hand,       \* the event it has dispatched but not yet marked
    plug,       \* each node's publisher and subscriber
    channel,    \* fanout_tx: pushes queued in the memory of a node
    reached,    \* how often each push was delivered at Home
    failures,   \* bound
    lost,       \* history: pushes that some step dropped,
    again       \* and those that a step let happen twice

outboxVars == <<event, batch, hand, plug, channel, reached, failures, lost, again>>

-----------------------------------------------------------------------------
NoEvent == [stored |-> FALSE, pushed |-> FALSE, attempts |-> 0, due |-> TRUE,
            holder |-> "none", processed |-> FALSE, dead |-> FALSE]

NoHand == [id |-> "none", attempts |-> 0, ok |-> FALSE]

OutboxInit ==
    /\ event = [e \in Notices |-> NoEvent]
    /\ batch = [n \in Nodes |-> {}]
    /\ hand = [n \in Nodes |-> NoHand]
    /\ plug = [n \in Nodes |-> "starting"]
    /\ channel = [n \in Nodes |-> {}]
    /\ reached = [e \in Notices |-> 0]
    /\ failures = 0 /\ lost = {} /\ again = {}

Failing ==
    /\ failures < MaxFailures
    /\ failures' = failures + 1

\* create, create_in_tx: the row and, unless the user's budget withholds it
\* (create_budgeted), its push event, in one transaction.
CreateNotice(e, push) ==
    /\ event[e] = NoEvent
    /\ event' = [event EXCEPT ![e].stored = TRUE, ![e].pushed = push]
    /\ UNCHANGED <<batch, hand, plug, channel, reached, failures, lost, again>>

-----------------------------------------------------------------------------
(* The worker of a node.                                                   *)

\* Bug: a claim that overlooks the leases.
DueWhoeverHolds == {e \in Notices : /\ event[e].pushed /\ event[e].due
                                    /\ ~event[e].processed /\ ~event[e].dead}

Due == {e \in Notices : /\ event[e].pushed /\ event[e].due
                        /\ ~event[e].processed /\ ~event[e].dead
                        /\ event[e].holder = "none"}

\* claim_batch.  The worker of a starting node claims, that of a draining one
\* finishes its batch and claims no other.
ClaimBatch(n) ==
    /\ plug[n] \in {"starting", "on", "deaf"} /\ batch[n] = {} /\ Due # {}
    /\ batch' = [batch EXCEPT ![n] =
                    {[id |-> e, attempts |-> event[e].attempts] : e \in Due}]
    /\ event' = [e \in Notices |->
                    IF e \in Due THEN [event[e] EXCEPT !.holder = n] ELSE event[e]]
    /\ UNCHANGED <<hand, plug, channel, reached, failures, lost, again>>

\* deliver_local_scoped, handle_fanout_payload: to the sockets of the nodes
\* that get the push, Home's, if it is one of them, or to none.
Reach(e, home) ==
    /\ reached' = [reached EXCEPT ![e] = IF home THEN @ + 1 ELSE @]
    /\ lost' = IF home THEN lost ELSE lost \cup {e}

Serving(n) == plug[n] # "starting"

\* broadcast_to_user_scoped: queued for the publisher if there is one and it
\* keeps up, delivered locally otherwise.  A starting node has no sockets.
Broadcast(n, e) ==
    IF plug[n] \notin {"starting", "off"} /\ Cardinality(channel[n]) < Buffer
    THEN /\ channel' = [channel EXCEPT ![n] = @ \cup {e}]
         /\ UNCHANGED <<reached, lost>>
    ELSE /\ Reach(e, n = Home /\ Serving(Home))
         /\ UNCHANGED channel

\* process_batch, dispatch: an unknown topic is refused.
Dispatch(n) ==
    /\ hand[n] = NoHand
    /\ \E c \in batch[n] :
        /\ hand' = [hand EXCEPT ![n] =
                       [id |-> c.id, attempts |-> c.attempts, ok |-> c.id \notin Unknown]]
        /\ IF c.id \in Unknown THEN UNCHANGED <<channel, reached, lost>>
           ELSE Broadcast(n, c.id)
    /\ UNCHANGED <<event, batch, plug, failures, again>>

\* mark_processed, mark_failed: by id only, whoever holds the lease by now.
Processed(e) == [event EXCEPT ![e].processed = TRUE, ![e].holder = "none"]

\* Bug: a failure that counts no attempt.
FailedForEver(h) == [event EXCEPT ![h.id].holder = "none", ![h.id].due = FALSE]

Failed(h) ==
    LET spent == h.attempts + 1 >= MaxDeliveries
    IN  [event EXCEPT ![h.id].attempts = h.attempts + 1, ![h.id].holder = "none",
                      ![h.id].dead = @ \/ spent, ![h.id].due = spent]

Mark(n) ==
    /\ hand[n] # NoHand
    /\ event' = IF hand[n].ok THEN Processed(hand[n].id) ELSE Failed(hand[n])
    /\ batch' = [batch EXCEPT ![n] = {c \in @ : c.id # hand[n].id}]
    /\ hand' = [hand EXCEPT ![n] = NoHand]
    /\ UNCHANGED <<plug, channel, reached, failures, lost, again>>

\* A database error while marking ends the batch: its leases have to lapse.
MarkFails(n) ==
    /\ hand[n] # NoHand /\ Failing
    /\ batch' = [batch EXCEPT ![n] = {}]
    /\ hand' = [hand EXCEPT ![n] = NoHand]
    /\ UNCHANGED <<event, plug, channel, reached, lost, again>>

-----------------------------------------------------------------------------
(* The publisher and the subscriber of a node.                             *)

\* The channel is subscribed first, then the publisher is installed.
Plug(n) ==
    /\ plug[n] = "starting"
    /\ plug' = [plug EXCEPT ![n] = "on"]
    /\ UNCHANGED <<event, batch, hand, channel, reached, failures, lost, again>>

Take(n, e) ==
    /\ plug[n] \in {"on", "deaf", "draining"} /\ e \in channel[n]
    /\ channel' = [channel EXCEPT ![n] = @ \ {e}]

\* publish_scoped reaches every node whose subscriber still listens.
Publish(n, e) ==
    /\ Take(n, e)
    /\ Reach(e, plug[Home] = "on")
    /\ UNCHANGED <<event, batch, hand, plug, failures, again>>

\* Redis fails, or does not answer in 500 ms (and may have published): the
\* push is delivered locally, at Home perhaps for the second time.
PublishFails(n, e, published) ==
    /\ Take(n, e) /\ Failing
    /\ LET heard == published /\ plug[Home] = "on"
       IN  IF heard /\ n = Home
           THEN /\ reached' = [reached EXCEPT ![e] = @ + 2]
                /\ again' = again \cup {e}
                /\ UNCHANGED lost
           ELSE Reach(e, heard \/ n = Home) /\ UNCHANGED again
    /\ UNCHANGED <<event, batch, hand, plug>>

\* The stream of the subscriber ends, and the task with it, for good: the
\* node publishes what it claims and hears nothing.
SubscriberEnds(n) ==
    /\ plug[n] = "on" /\ Failing
    /\ plug' = [plug EXCEPT ![n] = "deaf"]
    /\ UNCHANGED <<event, batch, hand, channel, reached, lost, again>>

\* The signal to terminate stops the subscriber at once; the publisher
\* empties its channel and then goes, while requests are still served.
Drain(n) ==
    /\ plug[n] \in {"on", "deaf"} /\ Failing
    /\ plug' = [plug EXCEPT ![n] = "draining"]
    /\ UNCHANGED <<event, batch, hand, channel, reached, lost, again>>

Forget(n) ==
    /\ channel' = [channel EXCEPT ![n] = {}]
    /\ lost' = lost \cup channel[n]

PublisherEnds(n) ==
    /\ \/ /\ plug[n] = "draining" /\ channel[n] = {}
          /\ plug' = [plug EXCEPT ![n] = "ending"]
       \/ /\ plug[n] = "ending"         \* clear_fanout_publisher
          /\ plug' = [plug EXCEPT ![n] = "off"]
    /\ Forget(n)
    /\ UNCHANGED <<event, batch, hand, reached, failures, again>>

\* What is in the memory of a process ends with it.  Another one starts.
Reboot(n) ==
    /\ batch' = [batch EXCEPT ![n] = {}]
    /\ hand' = [hand EXCEPT ![n] = NoHand]
    /\ plug' = [plug EXCEPT ![n] = "starting"]
    /\ Forget(n)
    /\ UNCHANGED <<event, reached, again>>

NodeDies(n) == Failing /\ Reboot(n)

Replace(n) ==
    /\ plug[n] = "off" /\ batch[n] = {}
    /\ Reboot(n) /\ UNCHANGED failures

-----------------------------------------------------------------------------
(* Time and operators.                                                     *)

Working(e) == event[e].holder # "none" /\ \E c \in batch[event[e].holder] : c.id = e

\* LEASE_SECS pass: because the worker is gone, or because it is slow.
LeaseLapses(e) ==
    /\ event[e].holder # "none"
    /\ IF Working(e) THEN Failing ELSE UNCHANGED failures
    /\ event' = [event EXCEPT ![e].holder = "none"]
    /\ again' = again \cup {e}
    /\ UNCHANGED <<batch, hand, plug, channel, reached, lost>>

EventIsDue(e) ==
    /\ ~event[e].due
    /\ event' = [event EXCEPT ![e].due = TRUE]
    /\ UNCHANGED <<batch, hand, plug, channel, reached, failures, lost, again>>

\* replay_dead_lettered.
Replay(e) ==
    /\ event[e].dead /\ Failing
    /\ event' = [event EXCEPT ![e].dead = FALSE, ![e].attempts = 0,
                              ![e].due = TRUE, ![e].holder = "none"]
    /\ again' = again \cup {e}
    /\ UNCHANGED <<batch, hand, plug, channel, reached, lost>>

OutboxStep(n) ==
    \/ ClaimBatch(n) \/ Dispatch(n) \/ Mark(n)
    \/ \E e \in Notices : Publish(n, e)

OutboxNext ==
    \/ \E e \in Notices : \/ \E push \in BOOLEAN : CreateNotice(e, push)
                          \/ LeaseLapses(e) \/ EventIsDue(e) \/ Replay(e)
    \/ \E n \in Nodes :
        \/ OutboxStep(n) \/ MarkFails(n)
        \/ \E e \in Notices, published \in BOOLEAN : PublishFails(n, e, published)
        \/ Plug(n) \/ SubscriberEnds(n) \/ Drain(n) \/ PublisherEnds(n)
        \/ NodeDies(n) \/ Replace(n)

\* The tasks of a running process are scheduled, deadlines pass, and a
\* terminated process is replaced.
OutboxFairness ==
    /\ \A n \in Nodes : /\ WF_outboxVars(ClaimBatch(n)) /\ WF_outboxVars(Dispatch(n))
                        /\ WF_outboxVars(Mark(n)) /\ WF_outboxVars(PublisherEnds(n))
                        /\ WF_outboxVars(Plug(n)) /\ WF_outboxVars(Replace(n))
                        /\ \A e \in Notices : WF_outboxVars(Publish(n, e))
    /\ \A e \in Notices : /\ WF_outboxVars(EventIsDue(e))
                          /\ WF_outboxVars(LeaseLapses(e) /\ UNCHANGED failures)

OutboxSpec == OutboxInit /\ [][OutboxNext]_outboxVars /\ OutboxFairness

-----------------------------------------------------------------------------
Queued(e) == \E n \in Nodes : e \in channel[n]

\* A push happens twice only if a lease has lapsed, an operator has replayed
\* the event or Home was told that publishing failed; and an event that is
\* marked processed, by whichever worker, was delivered, is queued, or is one
\* of those that a start, an end, a full channel or a failure dropped
\* (outbox.rs, ws_fanout.rs, replicated_runtime.rs).
PushesAreAccountedFor ==
    \A e \in Notices :
        /\ e \notin again => reached[e] + Cardinality({n \in Nodes : e \in channel[n]}) <= 1
        /\ event[e].processed => reached[e] > 0 \/ Queued(e) \/ e \in lost

\* Not so: a push is dropped only when something has failed or a channel is
\* full.  A worker that claims before its node has a publisher delivers to its
\* own sockets, of which there are none, and marks the event processed.
DroppedOnlyByFailure ==
    failures = 0 /\ Cardinality(Notices) <= Buffer => lost = {}

\* Every event is in the end processed, or set aside for an operator, through
\* crashes, lost leases and failed marks (process_batch, LEASE_SECS).
EveryEventEnds ==
    \A e \in Notices : event[e].pushed ~> (event[e].processed \/ event[e].dead)

\* Refuted.  "a crash right after this commit cannot lose the push": an event
\* that is processed is no longer queued in the memory of a process, or it
\* will be published.
ProcessedIsDelivered ==
    \A e \in Notices : event[e].processed ~> reached[e] > 0
=============================================================================
