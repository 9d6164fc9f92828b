-------------------------------- MODULE Posts ---------------------------------
(***************************************************************************)
(* Posts of a campus, the listings that offers stand for, their replies,   *)
(* and the undo window of what the assistant has published.                *)
(*                                                                         *)
(* A request to publish looks for its Idempotency-Key and then inserts     *)
(* listing and post in one transaction.  A reply and the trigger that      *)
(* recounts the replies of its post are one statement, which counts what   *)
(* was committed when it began.                                            *)
(***************************************************************************)
EXTENDS Naturals, FiniteSets

CONSTANTS
    Topics,         \* rows of `posts`, each with the `inventory` row it may have
    PostKeys, Contents, \* Idempotency-Key values; hashes of request bodies
    Requests,       \* calls of POST /api/posts
    Replies,        \* rows of post_replies
    MaxMoves        \* bound: edits, sales, deletions, restrictions, locks, replies

ASSUME PostAssumption ==
    /\ "none" \notin PostKeys \cup Topics /\ MaxMoves \in Nat

VARIABLES
    post,       \* posts
    item,       \* inventory: the listing of each offer
    request,    \* requests to publish, in the middle of publish_in_tx
    reversal,   \* reversible_actions, with what the listing was like
    reply,      \* post_replies; `seen` is the count its statement took
    moves       \* bound

postVars == <<post, item, request, reversal, reply, moves>>

-----------------------------------------------------------------------------
NoPost     == [status |-> "none", key |-> "none", content |-> "none", replies |-> 0]
NoItem     == [status |-> "none", revision |-> 0, restricted |-> FALSE]
NoRequest  == [stage |-> "idle", key |-> "none", content |-> "none",
               offer |-> FALSE, answer |-> "none"]
NoReversal == [status |-> "none", of |-> NoItem]
NoReply    == [status |-> "none", on |-> "none", seen |-> 0]

PostInit ==
    /\ post = [p \in Topics |-> NoPost]
    /\ item = [p \in Topics |-> NoItem]
    /\ request = [q \in Requests |-> NoRequest]
    /\ reversal = [p \in Topics |-> NoReversal]
    /\ reply = [r \in Replies |-> NoReply]
    /\ moves = 0

\* find_by_id: open or locked, and its listing is not restricted.
Visible(p) == post[p].status \in {"active", "locked"} /\ ~item[p].restricted

-----------------------------------------------------------------------------
(* Publishing (create_post, PostService::publish, publish_in_tx).          *)

OfKey(k) == {p \in Topics : k # "none" /\ post[p].key = k}

\* A replay finds the post its key was used for, if it was the same request
\* and the post is still visible; it is refused otherwise.
Replayed(q) ==
    \E p \in OfKey(q.key) :
        request[q.id].answer = "none" /\ request' = [request EXCEPT ![q.id] =
            [stage |-> "done", key |-> q.key, content |-> q.content, offer |-> q.offer,
             answer |-> IF post[p].content = q.content /\ Visible(p)
                        THEN p ELSE "none"]]

\* A request that looks for its key.  Without a key there is no hash either.
BeginPublish(id, k, c, offer) ==
    /\ request[id].stage = "idle"
    /\ IF OfKey(k) # {}
       THEN Replayed([id |-> id, key |-> k, content |-> c, offer |-> offer])
       ELSE request' = [request EXCEPT ![id] =
                [stage |-> "checked", key |-> k, content |-> c, offer |-> offer,
                 answer |-> "none"]]
    /\ UNCHANGED <<post, item, reversal, reply, moves>>

NewItem(offer) ==
    IF offer THEN [NoItem EXCEPT !.status = "active", !.revision = 1] ELSE NoItem

\* Bug: the unique index is gone; the look before is all there is.
NeverTaken(k) == FALSE

\* posts_author_idempotency_key_uq and its like on inventory.
TakenMeanwhile(k) == OfKey(k) # {}

\* create_idempotent_in_tx, create_post_in_tx: ON CONFLICT DO NOTHING.
InsertPost(id, p) ==
    LET q == request[id] IN
    /\ q.stage = "checked" /\ post[p] = NoPost
    /\ IF TakenMeanwhile(q.key)
       THEN /\ Replayed([id |-> id, key |-> q.key, content |-> q.content, offer |-> q.offer])
            /\ UNCHANGED <<post, item>>
       ELSE /\ request' = [request EXCEPT ![id].stage = "done", ![id].answer = p]
            /\ post' = [post EXCEPT ![p] = [NoPost EXCEPT !.status = "active",
                            !.key = q.key, !.content = q.content]]
            /\ item' = [item EXCEPT ![p] = NewItem(q.offer)]
    /\ UNCHANGED <<reversal, reply, moves>>

\* execute_l2_create_listing: the assistant publishes an offer ...
PublishByAgent(p) ==
    /\ post[p] = NoPost
    /\ post' = [post EXCEPT ![p].status = "active"]
    /\ item' = [item EXCEPT ![p] = NewItem(TRUE)]
    /\ reversal' = [reversal EXCEPT ![p].status = "owed"]
    /\ UNCHANGED <<request, reply, moves>>

\* ... and then registers it as reversible, which may fail.
RegisterReversal(p, ok) ==
    /\ reversal[p].status = "owed"
    /\ reversal' = [reversal EXCEPT ![p] =
                       IF ok THEN [status |-> "open", of |-> NewItem(TRUE)] ELSE NoReversal]
    /\ UNCHANGED <<post, item, request, reply, moves>>

\* apply_inverse compares the status.
MayRevert(p) == item[p].status = reversal[p].of.status

Undo(p) ==
    /\ reversal[p].status = "open" /\ MayRevert(p)
    /\ item' = [item EXCEPT ![p].status = "deleted"]
    /\ reversal' = [reversal EXCEPT ![p].status = "undone"]
    /\ UNCHANGED <<post, request, reply, moves>>

UndoWindowCloses(p) ==      \* UNDO_WINDOW_MINUTES, prune
    /\ reversal[p].status = "open"
    /\ reversal' = [reversal EXCEPT ![p].status = "expired"]
    /\ UNCHANGED <<post, item, request, reply, moves>>

-----------------------------------------------------------------------------
(* The life of a listing.                                                  *)

Moving == moves < MaxMoves /\ moves' = moves + 1

ItemIs(p, change) ==
    /\ item' = [item EXCEPT ![p] = change]
    /\ Moving /\ UNCHANGED <<post, request, reversal, reply>>

\* update_owned_active_with_state_in_tx
UpdateListing(p) ==
    /\ item[p].status = "active" /\ ~item[p].restricted
    /\ ItemIs(p, [item[p] EXCEPT !.revision = @ + 1])

\* delete_owned_with_revision_in_tx: also of a restricted listing, the post stays.
DeleteListing(p) ==
    /\ item[p].status \in {"active", "fulfilled"}
    /\ ItemIs(p, [item[p] EXCEPT !.status = "deleted"])

\* mark_sold_if_active_in_tx, on behalf of a deal
MarkSold(p) ==
    /\ item[p].status = "active" /\ ~item[p].restricted
    /\ ItemIs(p, [item[p] EXCEPT !.status = "sold"])

RelistItem(p) ==
    /\ item[p].status \in {"sold", "deleted", "fulfilled"} /\ ~item[p].restricted
    /\ ItemIs(p, [item[p] EXCEPT !.status = "active"])

\* moderation: a restriction of the listing is imposed or lifted
SetRestricted(p) ==
    /\ item[p].status # "none"
    /\ ItemIs(p, [item[p] EXCEPT !.restricted = ~@])

-----------------------------------------------------------------------------
(* Topics and replies.                                                     *)

LockTopic(p, locked) ==     \* PostService::update, by its author
    /\ Visible(p)
    /\ post' = [post EXCEPT ![p].status = IF locked THEN "locked" ELSE "active"]
    /\ Moving /\ UNCHANGED <<item, request, reversal, reply>>

DeletePost(p) ==            \* the listing may outlive it
    /\ Visible(p)
    /\ post' = [post EXCEPT ![p].status = "deleted"]
    /\ Moving /\ UNCHANGED <<item, request, reversal, reply>>

RepliesOf(p) == {r \in Replies : reply[r].on = p /\ reply[r].status \in {"active", "deleting"}}

\* create_reply: the row and, in its trigger, the count of the rows committed
\* before, with this one.
BeginReply(r, p) ==
    /\ reply[r] = NoReply
    /\ Visible(p) /\ post[p].status = "active"
    /\ reply' = [reply EXCEPT ![r] = [status |-> "writing", on |-> p,
                                      seen |-> Cardinality(RepliesOf(p)) + 1]]
    /\ Moving /\ UNCHANGED <<post, item, request, reversal>>

\* delete_reply, of one's own reply to a visible post
BeginDeleteReply(r) ==
    /\ reply[r].status = "active" /\ Visible(reply[r].on)
    /\ reply' = [reply EXCEPT ![r].status = "deleting",
                              ![r].seen = Cardinality(RepliesOf(reply[r].on)) - 1]
    /\ Moving /\ UNCHANGED <<post, item, request, reversal>>

\* refresh_post_reply_count: the row of the post was locked by another
\* statement or not, it is this statement's count that is stored.
CommitReply(r) ==
    /\ reply[r].status \in {"writing", "deleting"}
    /\ post' = [post EXCEPT ![reply[r].on].replies = reply[r].seen]
    /\ reply' = [reply EXCEPT ![r].seen = 0, ![r].status =
                    IF @ = "writing" THEN "active" ELSE "deleted"]
    /\ UNCHANGED <<item, request, reversal, moves>>

PostNext ==
    \/ \E q \in Requests :
        \/ \E k \in PostKeys, c \in Contents, o \in BOOLEAN : BeginPublish(q, k, c, o)
        \/ \E o \in BOOLEAN : BeginPublish(q, "none", "none", o)
        \/ \E p \in Topics : InsertPost(q, p)
    \/ \E p \in Topics :
        \/ PublishByAgent(p)
        \/ \E ok \in BOOLEAN : RegisterReversal(p, ok)
        \/ Undo(p) \/ UndoWindowCloses(p)
        \/ UpdateListing(p) \/ DeleteListing(p) \/ MarkSold(p) \/ RelistItem(p) \/ SetRestricted(p)
        \/ \E locked \in BOOLEAN : LockTopic(p, locked)
        \/ DeletePost(p)
        \/ \E r \in Replies : BeginReply(r, p)
    \/ \E r \in Replies : BeginDeleteReply(r) \/ CommitReply(r)

PostSpec == PostInit /\ [][PostNext]_postVars

-----------------------------------------------------------------------------
\* Retrying a publication finds the post it made (0115_post_idempotency):
\* requests with one key are answered with one post, and with the post of
\* what each of them asked for, also when they run at the same time.
RetriesFindThePost ==
    /\ \A k \in PostKeys : \A p, s \in OfKey(k) : p = s
    /\ \A q \in Requests :
        request[q].answer # "none" =>
            LET p == request[q].answer
            IN  post[p].key = request[q].key /\ post[p].content = request[q].content

InFlight(p) == {r \in Replies : reply[r].on = p /\ reply[r].status \in {"writing", "deleting"}}

\* Refuted.  "The parent topic's `reply_count` is maintained by" a trigger:
\* a post nobody is replying to shows how many replies it has.
ReplyCountIsTrue ==
    \A p \in Topics : InFlight(p) = {} => post[p].replies = Cardinality(RepliesOf(p))

\* Refuted.  "once anyone -- the owner, a buyer, a moderator -- has moved it
\* on, undo refuses": what is undone is as it was published.
UndoSparesChanges ==
    [][\A p \in Topics :
        reversal[p].status = "open" /\ reversal'[p].status = "undone"
            => item[p] = reversal[p].of]_postVars
=============================================================================
