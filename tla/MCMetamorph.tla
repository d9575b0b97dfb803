---------------------------- MODULE MCMetamorph -----------------------------
(***************************************************************************)
(* Small instances of Metamorph for TLC.                                   *)
(***************************************************************************)
EXTENDS Metamorph, TLC

\* Clients either leave WaitForStatus at 0 (SEEN_ON_NETWORK) or ask for STORED.
MCWaitTargets == {UNKNOWN, STORED}

\* A peer sees the transaction or rejects it.
MCNetStatuses == {SEEN_ON_NETWORK, REJECTED}

\* Instances and requests are interchangeable when every store is local.
MCSymmetry == Permutations(Insts) \cup Permutations(Reqs)

=============================================================================
