------------------------------- MODULE MCBatch -------------------------------
(***************************************************************************)
(* Batches for TLC: three distinct hashes, and a batch that repeats one.   *)
(***************************************************************************)
EXTENDS Batch, TLC

CONSTANTS t1, t2, t3

\* Three elements, three transactions.
MCDistinct == <<t1, t2, t3>>

\* The same transaction submitted twice in one batch, between another.
MCDuplicate == <<t1, t2, t1>>

=============================================================================
