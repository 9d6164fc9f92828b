--------------------------- MODULE MCBackgroundWork ---------------------------
(***************************************************************************)
(* The workers, each with the handlers it works for.  No state is shared   *)
(* between the modules, so each behaviour follows one of them, chosen in   *)
(* the beginning, while the others rest: what two of them do side by side  *)
(* is what each of them does alone.  Of the reviews, a behaviour follows   *)
(* those of one post, message or avatar, for no step looks at two.         *)
(***************************************************************************)
EXTENDS MediaJobs, SharedFiles, AgentTurns, Outbox, Intents

\* One intent with an end will do here: what is offered and sought for how
\* much, and who answers, is a matter of the handlers.
MCStatements == {[AsTyped("seek") EXCEPT !.ends = TRUE]}

VARIABLE focus

workVars == <<focus, mediaVars, fileVars, turnVars, outboxVars, wishVars>>

WorkInit ==
    /\ focus \in {"files", "turns", "outbox", "wishes"} \cup Shown
    /\ MediaInit /\ FileInit /\ TurnInit /\ OutboxInit /\ WishInit

Follow(component, others) == focus = component /\ UNCHANGED <<focus, others>>

About(r) ==
    /\ \A s \in Shown \ {r} : media'[s] = media[s]
    /\ \A s \in (Messages \cup Avatars) \ {r} : handler'[s] = handler[s]

\* Turns and replicas are alike: call the first turn First, and its replica Main.
First == CHOOSE t \in Turns : TRUE
Main  == CHOOSE p \in Processes : TRUE
Named == (\E t \in Turns : turn'[t] # NoTurn) => turn'[First].slot[1] = Main

WorkNext ==
    \/ \E r \in Shown :
        Follow(r, <<fileVars, turnVars, outboxVars, wishVars>>) /\ MediaNext /\ About(r)
    \/ Follow("files", <<mediaVars, turnVars, outboxVars, wishVars>>) /\ FileNext
    \/ Follow("turns", <<mediaVars, fileVars, outboxVars, wishVars>>) /\ TurnNext /\ Named
    \/ Follow("outbox", <<mediaVars, fileVars, turnVars, wishVars>>) /\ OutboxNext
    \/ Follow("wishes", <<mediaVars, fileVars, turnVars, outboxVars>>) /\ WishNext

WorkSpec ==
    /\ WorkInit /\ [][WorkNext]_workVars
    /\ MediaFairness /\ FileFairness /\ TurnFairness /\ OutboxFairness /\ WishFairness

\* An image shows what its review or, later, a moderator decided, however often
\* reviews are retried, leased and lost (moderation_worker.rs); a file that is offered to users is
\* still in the store while its upload and the cleanup worker race
\* (shared_object.rs, shared_object_cleanup.rs).
ReviewsAreHonoured == LastWordStands /\ OfferedIsStored

\* A run has one outcome, though the reconciler, of any replica, and a slow turn
\* both want to end it, and the replica that serves a turn can cancel it
\* (agent_run.rs, agents/runtime/mod.rs).
TurnsEndOnce == OneOutcome /\ CancelReachesTurn

\* Whatever a worker is there to end does end, through crashes, lost leases
\* and failures: reviews, cleanups, assistant runs, push events, intents whose
\* moment has passed.
BackgroundWorkEnds ==
    EveryJobIsSettled /\ RevokedIsCleaned /\ EveryRunEnds /\ EveryEventEnds /\ MomentsPass
===============================================================================
