----------------------------- MODULE MCBlockGaps -----------------------------
(***************************************************************************)
(* The gap filler for TLC: a few heights and a short scan range.           *)
(***************************************************************************)
EXTENDS BlockGaps, TLC

=============================================================================
