------------------------------ MODULE BatchAbs ------------------------------
(***************************************************************************)
(* What PutTransactions promises (spec 4.2, put_transactions): one call    *)
(* that either fails as a whole or answers with the status record of each  *)
(* element of the batch, in input order; and that it does one or the      *)
(* other.                                                                  *)
(***************************************************************************)
EXTENDS Naturals, Sequences

CONSTANTS Hashes, Batch, NoStatus

VARIABLES
    state,   \* "running", "returned" or "failed"
    out      \* the answer: one status per element, NoStatus before it

avars == <<state, out>>

AbsInit ==
    /\ state = "running"
    /\ out = [i \in 1..Len(Batch) |-> NoStatus]

\* The answer: slot i is the status of element i.
Respond ==
    /\ state = "running"
    /\ state' = "returned"
    /\ out' = [i \in 1..Len(Batch) |-> Batch[i]]

Fail ==
    /\ state = "running"
    /\ state' = "failed"
    /\ UNCHANGED out

AbsNext == Respond \/ Fail

Spec == AbsInit /\ [][AbsNext]_avars /\ WF_avars(AbsNext)

=============================================================================
