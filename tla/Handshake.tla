------------------------------ MODULE Handshake ------------------------------
(***************************************************************************)
(* What a direct conversation of two users promises, without deadlines,    *)
(* request keys, blocks or rows: nobody is connected who has not said so,  *)
(* and what has ended stays ended.                                         *)
(***************************************************************************)
CONSTANTS Users, Convs

VARIABLES phase,      \* phase[c]: how far conversation c has got
          consent     \* consent[c]: who has said yes to it

vars == <<phase, consent>>

Phases == {"none", "mail", "offered", "answered", "connected", "ended"}

TypeOK ==
    /\ phase \in [Convs -> Phases]
    /\ consent \in [Convs -> SUBSET Users]

Init ==
    /\ phase = [c \in Convs |-> "none"]
    /\ consent = [c \in Convs |-> {}]

Move(c, from, to, agreed) ==
    /\ phase[c] = from
    /\ phase' = [phase EXCEPT ![c] = to]
    /\ consent' = [consent EXCEPT ![c] = agreed]

(* A letter needs nobody's consent to be left.                             *)
Leave(c) == Move(c, "none", "mail", {})

Offer(c, u) == Move(c, "none", "offered", {u})

(* The other one answers; the first may yet withdraw.                      *)
Answer(c, u) == u \notin consent[c] /\ Move(c, "offered", "answered", consent[c] \cup {u})

(* Whoever asked confirms that he is still there.                          *)
Confirm(c) == Move(c, "answered", "connected", consent[c])

(* Both asked, each for himself.                                           *)
Meet(c, u) == u \notin consent[c] /\ Move(c, "offered", "connected", consent[c] \cup {u})

End(ended) ==
    /\ ended # {}
    /\ \A c \in ended : phase[c] \in {"offered", "answered", "connected"}
    /\ phase' = [c \in Convs |-> IF c \in ended THEN "ended" ELSE phase[c]]
    /\ UNCHANGED consent

Next ==
    \/ \E c \in Convs : Leave(c) \/ Confirm(c)
    \/ \E c \in Convs, u \in Users : Offer(c, u) \/ Answer(c, u) \/ Meet(c, u)
    \/ \E ended \in SUBSET Convs : End(ended)

Spec == Init /\ [][Next]_vars
==============================================================================
