------------------------------ MODULE AgentTurns ------------------------------
(***************************************************************************)
(* Turns of the assistant and the `agent_runs` rows that record them.      *)
(*                                                                         *)
(* A request starts a run, registers its turn as the one of its            *)
(* conversation, which cancels the turn before it, and streams what the    *)
(* runtime produces.  The run is ended by the stream, by a        *)
(* watchdog of the same process three seconds after the client has gone,   *)
(* or by a worker that looks for runs nobody has touched for long.         *)
(*                                                                         *)
(* Runs are rows that all replicas share.  Turns, registry and watchdogs   *)
(* are in the memory of the replica that serves the request, and so is     *)
(* what a request to cancel finds: the one that gets it looks at its own.  *)
(***************************************************************************)
EXTENDS Naturals, FiniteSets

CONSTANTS
    Turns,      \* requests to POST /api/chat/stream
    Talks,      \* conversations with the assistant
    Processes,  \* replicas
    MaxSteps, MaxTools,   \* max_model_steps, max_tool_calls
    MaxOutages  \* bound: process crashes

ASSUME TurnAssumption ==
    /\ "none" \notin Turns \cup Processes
    /\ MaxSteps \in Nat \ {0} /\ MaxTools \in Nat /\ MaxOutages \in Nat

VARIABLES
    turn,       \* the handler and the runtime of each request
    registry,   \* TURN_REGISTRY of each process: the turn of each conversation
    run,        \* agent_runs, with the number of outcome events; the
                \* middleware gives each request a trace ID of its own
    watchdog,   \* the task that schedule_reconciliation spawned
    outages

turnVars == <<turn, registry, run, watchdog, outages>>

-----------------------------------------------------------------------------
\* The place of a turn: the process that serves it and its conversation.
Slots  == Processes \X Talks
NoSlot == <<"none", "none">>

NoTurn == [stage |-> "idle", slot |-> NoSlot, cancelled |-> FALSE,
           steps |-> 0, tools |-> 0, end |-> "none"]
NoRun  == [status |-> "none", outcomes |-> 0, stale |-> FALSE]

TurnInit ==
    /\ turn = [t \in Turns |-> NoTurn]
    /\ registry = [s \in Slots |-> "none"]
    /\ run = [t \in Turns |-> NoRun]
    /\ watchdog = [t \in Turns |-> "off"]
    /\ outages = 0

\* finish: only a started run can be ended, and its end is one event.
Ended(t, status) ==
    IF run[t].status = "started"
    THEN [run EXCEPT ![t].status = status, ![t].outcomes = @ + 1]
    ELSE run

\* begin_agent_run: without a campus, or when the insert fails, the turn goes
\* on without a run.
Began(t) == {run, [run EXCEPT ![t].status = "started"]}

\* finish_agent_run_with_usage: a database that does not take the end leaves
\* the run as it is.
Finished(t, status) == {run, Ended(t, status)}

\* What is left of a turn that is over or was dropped: the budget goes with it.
Left(t, stage, end) == [NoTurn EXCEPT !.stage = stage, !.slot = turn[t].slot, !.end = end]

\* A tool result counts, and makes the run recent, while it is started.
Touched(t) == IF run[t].status = "started" THEN [run EXCEPT ![t].stale = FALSE] ELSE run

-----------------------------------------------------------------------------
(* The request.                                                            *)

BeginTurn(t, s) ==
    /\ turn[t] = NoTurn
    /\ turn' = [turn EXCEPT ![t] = [NoTurn EXCEPT !.stage = "begun", !.slot = s]]
    /\ run' \in Began(t)
    /\ UNCHANGED <<registry, watchdog, outages>>

\* A direct response, or a provider that cannot be had.
EndAtOnce(t) ==
    /\ turn[t].stage = "begun"
    /\ \E status \in {"completed", "failed"} : run' \in Finished(t, status)
    /\ turn' = [turn EXCEPT ![t] = Left(t, "ended", "none")]
    /\ UNCHANGED <<registry, watchdog, outages>>

RegisterTurn(t) ==
    LET s == turn[t].slot IN
    /\ turn[t].stage = "begun"
    /\ turn' = [u \in Turns |->
           CASE u = t           -> [turn[u] EXCEPT !.stage = "running"]
             [] u = registry[s] -> [turn[u] EXCEPT !.cancelled = TRUE]
             [] OTHER           -> turn[u]]
    /\ registry' = [registry EXCEPT ![s] = t]
    /\ watchdog' = [watchdog EXCEPT ![t] = IF run[t].status = "none" THEN "off" ELSE "armed"]
    /\ UNCHANGED <<run, outages>>

\* POST /api/agent/turns/:id/cancel, at some process.
CancelTurn(s) ==
    /\ registry[s] # "none"
    /\ turn' = [turn EXCEPT ![registry[s]].cancelled = TRUE]
    /\ UNCHANGED <<registry, run, watchdog, outages>>

-----------------------------------------------------------------------------
(* The runtime: model steps and tool calls within the budget.  A select    *)
(* takes any branch that is ready, so a cancelled turn may still complete, *)
(* but starts no further step.                                             *)

Running(t) == turn[t].stage = "running" /\ turn[t].end = "none"

Stop(t, end) ==
    /\ Running(t)
    /\ turn' = [turn EXCEPT ![t].end = end]
    /\ UNCHANGED <<registry, run, watchdog, outages>>

Answer(t)    == Stop(t, "completed")
Breakdown(t) == Stop(t, "failed")   \* provider, tool, timeout, deadline, loop guard
Heed(t)      == turn[t].cancelled /\ Stop(t, "cancelled")

Exhausts(t) == turn[t].tools + 1 > MaxTools \/ turn[t].steps + 1 >= MaxSteps

CallTool(t) ==
    /\ Running(t) /\ ~turn[t].cancelled
    /\ turn' = [turn EXCEPT ![t].tools = @ + 1, ![t].steps = @ + 1,
                            ![t].end = IF Exhausts(t) THEN "failed" ELSE "none"]
    /\ run' = IF turn[t].tools + 1 > MaxTools THEN run ELSE Touched(t)
    /\ UNCHANGED <<registry, watchdog, outages>>

-----------------------------------------------------------------------------
(* The end of the stream.                                                  *)

\* Bug: Drop removes whatever turn is registered.
Unregister(t) == [registry EXCEPT ![turn[t].slot] = "none"]

\* Dropping a registration: remove_if.
Unregistered(t) ==
    IF registry[turn[t].slot] = t THEN [registry EXCEPT ![turn[t].slot] = "none"] ELSE registry

\* The terminal event is delivered, the reply kept, the run ended; when that
\* fails, or was done already, the watchdog is left to look again.
FinishTurn(t) ==
    /\ turn[t].stage = "running" /\ turn[t].end # "none"
    /\ turn' = [turn EXCEPT ![t] = Left(t, "ended", turn[t].end)]
    /\ run' \in Finished(t, turn[t].end)
    /\ watchdog' = [watchdog EXCEPT ![t] = IF @ = "armed" /\ run' = run THEN "grace" ELSE "off"]
    /\ registry' = Unregistered(t)
    /\ UNCHANGED outages

\* The client goes away and the handler, or the stream, is dropped.
LoseClient(t) ==
    /\ turn[t].stage \in {"begun", "running"}
    /\ turn' = [turn EXCEPT ![t] = Left(t, "gone", "none")]
    /\ registry' = Unregistered(t)
    /\ watchdog' = [watchdog EXCEPT ![t] = IF @ = "armed" THEN "grace" ELSE @]
    /\ UNCHANGED <<run, outages>>

WatchdogCancels(t) ==
    /\ watchdog[t] = "grace"
    /\ watchdog' = [watchdog EXCEPT ![t] = "off"]
    /\ run' \in Finished(t, "cancelled")
    /\ UNCHANGED <<turn, registry, outages>>

\* A process dies with its turns, its registry and its watchdogs.
Outage(p) ==
    LET here == {t \in Turns : turn[t].slot[1] = p} IN
    /\ outages < MaxOutages
    /\ outages' = outages + 1
    /\ turn' = [t \in Turns |-> IF t \in here THEN Left(t, "gone", "none") ELSE turn[t]]
    /\ registry' = [s \in Slots |-> IF s[1] = p THEN "none" ELSE registry[s]]
    /\ watchdog' = [t \in Turns |-> IF t \in here THEN "off" ELSE watchdog[t]]
    /\ UNCHANGED run

-----------------------------------------------------------------------------
(* The durable worker.                                                     *)

\* STALE_RUN_MAX_AGE without a change.
RunAges(t) ==
    /\ run[t].status = "started" /\ ~run[t].stale
    /\ run' = [run EXCEPT ![t].stale = TRUE]
    /\ UNCHANGED <<turn, registry, watchdog, outages>>

\* Bug: the age alone decides.
StaleByAge == {t \in Turns : run[t].stale}

\* Bug: runs are looked for among those this process began.
StaleHere == {t \in Turns : run[t].status = "started" /\ run[t].stale
                             /\ turn[t].stage # "gone"}

StaleRuns == {t \in Turns : run[t].status = "started" /\ run[t].stale}

ReconcileRuns ==
    /\ StaleRuns # {}
    /\ run' = [t \in Turns |-> IF t \in StaleRuns
                                THEN [run[t] EXCEPT !.status = "cancelled", !.outcomes = @ + 1]
                                ELSE run[t]]
    /\ UNCHANGED <<turn, registry, watchdog, outages>>

-----------------------------------------------------------------------------
TurnNext ==
    \/ \E t \in Turns, s \in Slots : BeginTurn(t, s)
    \/ \E t \in Turns :
        EndAtOnce(t) \/ RegisterTurn(t) \/ Answer(t) \/ Breakdown(t) \/ Heed(t) \/ CallTool(t)
        \/ FinishTurn(t) \/ LoseClient(t) \/ WatchdogCancels(t)
    \/ \E s \in Slots : CancelTurn(s)
    \/ \E p \in Processes : Outage(p)
    \/ \E t \in Turns : RunAges(t)
    \/ ReconcileRuns

TurnSpec == TurnInit /\ [][TurnNext]_turnVars

\* The worker's ticks come for ever, and a run that is not touched gets old.
TurnFairness ==
    /\ \A t \in Turns : WF_turnVars(RunAges(t))
    /\ WF_turnVars(ReconcileRuns)

-----------------------------------------------------------------------------
(* Properties.                                                             *)

\* A run ends once, however its stream, its watchdog and the worker race for it.
OneOutcome == \A t \in Turns :
    run[t].outcomes = IF run[t].status \in {"none", "started"} THEN 0 ELSE 1

\* A turn that goes on uncancelled can be cancelled where it runs: the registry
\* of its process knows it, whatever older turns of its conversation have done
\* on their way out.  So one process runs one such turn of a conversation.
CancelReachesTurn == \A t \in Turns :
    turn[t].stage = "running" /\ ~turn[t].cancelled => registry[turn[t].slot] = t

\* No run stays started, be its process alive or not.
EveryRunEnds == \A t \in Turns : run[t].status = "started" ~> run[t].status # "started"

\* Not so.  mod.rs: "one active turn per conversation" - per process; a turn of
\* the same conversation at another one goes on, and a request to cancel that
\* arrives there finds the other turn or none.
OneTurnPerTalk == \A t, u \in Turns :
    /\ turn[t].stage = "running" /\ ~turn[t].cancelled
    /\ turn[u].stage = "running" /\ ~turn[u].cancelled
    /\ turn[t].slot[2] = turn[u].slot[2]
    => t = u

\* agent_run_reconciler.rs: a healthy but slow completion is not pre-empted.
SlowTurnsComplete == \A t \in Turns :
    turn[t].stage = "ended" /\ turn[t].end = "completed" => run[t].status = "completed"
=============================================================================
