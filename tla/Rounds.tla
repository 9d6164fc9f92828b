------------------------------- MODULE Rounds -------------------------------
(***************************************************************************)
(* What a wanted post promises to those who answer it, without the rows,   *)
(* locks and requests that keep the promise (WantedRounds).                *)
(*                                                                         *)
(* A wanted post is answered in rounds.  A round is open, suspended by     *)
(* moderation, or closed; a closed one never opens again, the post goes on *)
(* with the next round.  Each offer answers a round at most once, and an   *)
(* answer is settled, once, only while its own round is open.              *)
(***************************************************************************)
EXTENDS Integers

CONSTANTS Wanteds, Offers

VARIABLES
    phase,      \* [Wanteds -> "open", "suspended" or "closed"]
    epoch,      \* [Wanteds -> Nat]: number of the current round
    answers     \* [wanted, epoch, offer, status] of every answer given

vars == <<phase, epoch, answers>>

Verdicts == {"accepted", "dismissed", "withdrawn"}
Answers  == [wanted : Wanteds, epoch : Nat, offer : Offers,
             status : {"pending"} \cup Verdicts]

Init ==
    /\ phase = [w \in Wanteds |-> "open"]
    /\ epoch = [w \in Wanteds |-> 1]
    /\ answers = {}

Turn(w, from, to) ==
    /\ phase[w] \in from
    /\ phase' = [phase EXCEPT ![w] = to]
    /\ answers' = answers

Suspend(w) == Turn(w, {"open"}, "suspended") /\ epoch' = epoch
Resume(w)  == Turn(w, {"suspended"}, "open") /\ epoch' = epoch
Close(w)   == Turn(w, {"open", "suspended"}, "closed") /\ epoch' = epoch
Reopen(w)  == Turn(w, {"closed"}, "open") /\ epoch' = [epoch EXCEPT ![w] = @ + 1]

Answered(w, o) ==
    \E a \in answers : a.wanted = w /\ a.epoch = epoch[w] /\ a.offer = o

Answer(w, o) ==
    /\ phase[w] = "open"
    /\ ~Answered(w, o)
    /\ answers' = answers \cup
           {[wanted |-> w, epoch |-> epoch[w], offer |-> o, status |-> "pending"]}
    /\ UNCHANGED <<phase, epoch>>

Settle(a, verdict) ==
    /\ phase[a.wanted] = "open" /\ epoch[a.wanted] = a.epoch
    /\ a.status = "pending"
    /\ answers' = (answers \ {a}) \cup {[a EXCEPT !.status = verdict]}
    /\ UNCHANGED <<phase, epoch>>

Next ==
    \/ \E w \in Wanteds : Suspend(w) \/ Resume(w) \/ Close(w) \/ Reopen(w)
    \/ \E w \in Wanteds, o \in Offers : Answer(w, o)
    \/ \E a \in answers, verdict \in Verdicts : Settle(a, verdict)

Spec == Init /\ [][Next]_vars
=============================================================================
