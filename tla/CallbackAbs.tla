----------------------------- MODULE CallbackAbs -----------------------------
(***************************************************************************)
(* What the callback dispatcher promises for the status notifications of   *)
(* one transaction (spec 4.3): each notification is started after the      *)
(* earlier ones, is offered to the client's endpoint at most CallbackTries *)
(* times, stops at the first acknowledgement, and is given up only once    *)
(* all its attempts have gone unacknowledged.  An attempt that was not     *)
(* acknowledged may still have reached the endpoint.                       *)
(***************************************************************************)
EXTENDS Naturals, Sequences

CONSTANTS NCallbacks, CallbackTries

Callbacks == 1..NCallbacks

VARIABLES
    status,     \* "idle", "sending", "delivered" or "abandoned"
    attempts,   \* the attempts made for each notification
    received    \* the notifications the endpoint accepted, in order

avars == <<status, attempts, received>>

AbsInit ==
    /\ status = [c \in Callbacks |-> "idle"]
    /\ attempts = [c \in Callbacks |-> 0]
    /\ received = <<>>

\* Notification c is sent once every earlier one has been.
Begin(c) ==
    /\ status[c] = "idle"
    /\ \A d \in Callbacks : d < c => status[d] # "idle"
    /\ status' = [status EXCEPT ![c] = "sending"]
    /\ UNCHANGED <<attempts, received>>

\* One attempt, while attempts remain; an acknowledged one ends c.
Attempt(c, reached, acked) ==
    /\ status[c] = "sending"
    /\ attempts[c] < CallbackTries
    /\ attempts' = [attempts EXCEPT ![c] = @ + 1]
    /\ received' = IF reached \/ acked THEN Append(received, c) ELSE received
    /\ status' = [status EXCEPT ![c] = IF acked THEN "delivered" ELSE "sending"]

\* Given up once every attempt has gone unacknowledged.
GiveUp(c) ==
    /\ status[c] = "sending"
    /\ attempts[c] = CallbackTries
    /\ status' = [status EXCEPT ![c] = "abandoned"]
    /\ UNCHANGED <<attempts, received>>

AbsNext ==
    \E c \in Callbacks :
        \/ Begin(c)
        \/ GiveUp(c)
        \/ \E reached, acked \in BOOLEAN : Attempt(c, reached, acked)

\* Every notification is started and runs to delivery or to giving up.
AbsFairness ==
    \A c \in Callbacks :
        /\ WF_avars(Begin(c))
        /\ WF_avars(GiveUp(c) \/ \E r, a \in BOOLEAN : Attempt(c, r, a))

Spec == AbsInit /\ [][AbsNext]_avars /\ AbsFairness

=============================================================================
