---------------------------- MODULE BlockGapsProofs ----------------------------
(***************************************************************************)
(* TLAPS proofs about the gap filler, for every height bound, scan range   *)
(* and starting tip.                                                       *)
(***************************************************************************)
EXTENDS BlockGaps, WellFoundedInduction, TLAPS

USE GapConstAssumption

\* The strengthening: the store is never empty and the state is typed.
GapInductive ==
    /\ GapTypeOK
    /\ blocks # {}
    /\ RequestsAreRealHeights

\* Every row of GetBlockGaps is an integer whose successor is stored.
LEMMA GapRowsReal ==
    ASSUME NEW B \in SUBSET Heights, NEW h \in GetBlockGaps(B)
    PROVE  h \in Int /\ h + 1 \in B /\ h < h + 1
<1>1. B # {}
  BY DEF GetBlockGaps
<1>2. h \in Series(B) /\ h + 1 \in B
  BY <1>1 DEF GetBlockGaps
<1>3. h \in Int
  BY <1>2 DEF Series
<1>. QED
  BY <1>2, <1>3

\* A tick requests only rows that passed the uint64 scan.
LEMMA FillGapsInductive ==
    ASSUME GapInductive, FillGaps
    PROVE  GapInductive'
<1>1. /\ requested' = requested \cup GetBlockGaps(blocks)
      /\ blocks' = blocks
      /\ ScanOK(GetBlockGaps(blocks))
  BY DEF FillGaps
<1>2. ASSUME NEW h \in GetBlockGaps(blocks)
      PROVE  h \in Nat /\ \E b \in blocks : h < b
  <2>1. h \in Int /\ h + 1 \in blocks /\ h < h + 1
    BY GapRowsReal DEF GapInductive, GapTypeOK
  <2>2. h >= 0
    BY <1>1 DEF ScanOK
  <2>. QED
    BY <2>1, <2>2
<1>3. GapTypeOK'
  <2>1. GetBlockGaps(blocks) \subseteq Int
    BY <1>2
  <2>2. requested \subseteq Int
    BY DEF GapInductive, GapTypeOK
  <2>3. requested' \subseteq Int
    BY <1>1, <2>1, <2>2
  <2>. QED
    BY <1>1, <2>3 DEF GapInductive, GapTypeOK
<1>4. RequestsAreRealHeights'
  BY <1>1, <1>2 DEF GapInductive, RequestsAreRealHeights
<1>. QED
  BY <1>1, <1>3, <1>4 DEF GapInductive

\* An answer stores a block and retires its request.
LEMMA AnswerInductive ==
    ASSUME GapInductive, NEW h \in requested, Answer(h)
    PROVE  GapInductive'
<1>1. h \in Heights
  BY DEF GapInductive, GapTypeOK, RequestsAreRealHeights, Heights
<1>. QED
  BY <1>1 DEF GapInductive, GapTypeOK, RequestsAreRealHeights, Answer

LEMMA LoseRequestInductive ==
    ASSUME GapInductive, NEW h \in requested, LoseRequest(h)
    PROVE  GapInductive'
BY DEF GapInductive, GapTypeOK, RequestsAreRealHeights, LoseRequest

LEMMA NewBlockInductive ==
    ASSUME GapInductive, NEW h \in Heights, NewBlock(h)
    PROVE  GapInductive'
BY DEF GapInductive, GapTypeOK, RequestsAreRealHeights, NewBlock

LEMMA GapInductiveInit == Init => GapInductive
BY DEF Init, GapInductive, GapTypeOK, RequestsAreRealHeights

LEMMA GapInductiveNext == GapInductive /\ [Next]_vars => GapInductive'
<1> SUFFICES ASSUME GapInductive, [Next]_vars PROVE GapInductive'
  OBVIOUS
<1>1. CASE FillGaps
  BY <1>1, FillGapsInductive
<1>2. ASSUME NEW h \in requested, Answer(h) \/ LoseRequest(h)
      PROVE  GapInductive'
  BY <1>2, AnswerInductive, LoseRequestInductive
<1>3. ASSUME NEW h \in Heights, NewBlock(h) PROVE GapInductive'
  BY <1>3, NewBlockInductive
<1>4. CASE UNCHANGED vars
  BY <1>4 DEF vars, GapInductive, GapTypeOK, RequestsAreRealHeights
<1>. QED
  BY <1>1, <1>2, <1>3, <1>4 DEF Next

(***************************************************************************)
(* Theorem: whatever the chain, the scan range and the order in which      *)
(* peers answer, lose requests or announce blocks, the gap filler never    *)
(* requests a negative height or one at or above the stored tip: a row     *)
(* with height -1 is stopped by the failing uint64 scan of GetBlockGaps,   *)
(* and every other row lies below the block that is joined to it.          *)
(***************************************************************************)
THEOREM RequestsAreRealHeightsHolds == Spec => []RequestsAreRealHeights
<1>1. GapInductive => RequestsAreRealHeights
  BY DEF GapInductive
<1>. QED
  BY <1>1, GapInductiveInit, GapInductiveNext, PTL DEF Spec


-----------------------------------------------------------------------------
(***************************************************************************)
(* The query's max(height) is well defined: a non-empty set of stored      *)
(* heights has a greatest element.  The heights below MaxHeight are turned *)
(* into distances MaxHeight - b, which are naturals, and < is well founded *)
(* on Nat, so some distance is least; its block is the tip.                *)
(***************************************************************************)
LEMMA MaxHeightExists ==
    ASSUME NEW B \in SUBSET Heights, B # {}
    PROVE  \E m \in B : \A b \in B : b <= m
<1> DEFINE Dist == {MaxHeight - b : b \in B}
<1>1. Dist \subseteq Nat /\ Dist # {}
  <2>1. \A b \in B : MaxHeight - b \in Nat
    BY DEF Heights
  <2>2. PICK b0 \in B : TRUE
    OBVIOUS
  <2>. QED
    BY <2>1, <2>2, Zenon DEF Dist
<1>2. PICK x \in Dist : \A y \in Dist : ~(<<y, x>> \in OpToRel(<, Nat))
  BY <1>1, WFMin, NatLessThanWellFounded, Zenon
<1>3. PICK m \in B : x = MaxHeight - m
  BY DEF Dist
<1>4. ASSUME NEW b \in B PROVE b <= m
  <2>1. MaxHeight - b \in Dist /\ MaxHeight - b \in Nat /\ x \in Nat
    BY <1>1 DEF Dist
  <2>2. ~(MaxHeight - b < x)
    BY <1>2, <2>1, Zenon DEF OpToRel
  <2>. QED
    BY <2>2, <1>3 DEF Heights
<1>. QED
  BY <1>4

\* TipOf picks that greatest element.
LEMMA TipIsMax ==
    ASSUME NEW B \in SUBSET Heights, B # {}
    PROVE  /\ TipOf(B) \in B
           /\ \A b \in B : b <= TipOf(B)
BY MaxHeightExists DEF TipOf


\* In a non-empty store the query is sound and reports the highest gap.
LEMMA QuerySoundInStore ==
    ASSUME GapInductive
    PROVE  GapQuerySound
<1> DEFINE tip == TipOf(blocks)
<1>1. /\ blocks \subseteq Heights
      /\ tip \in blocks
      /\ \A b \in blocks : b <= tip
      /\ tip \in Int
  <2>1. blocks \in SUBSET Heights /\ blocks # {}
    BY DEF GapInductive, GapTypeOK
  <2>2. tip \in blocks /\ \A b \in blocks : b <= tip
    BY <2>1, TipIsMax DEF tip
  <2>3. tip \in Int
    <3>1. tip \in 0..MaxHeight
      BY <2>1, <2>2 DEF Heights
    <3>. QED
      BY <3>1
  <2>. QED
    BY <2>1, <2>2, <2>3
<1>2. Series(blocks) = tip - GapRange .. tip
  BY DEF Series, tip
<1>3. ASSUME ScanOK(GetBlockGaps(blocks))
      PROVE  GetBlockGaps(blocks) \subseteq Missing(blocks)
  BY <1>3 DEF GapInductive, GetBlockGaps, Missing, ScanOK
<1>4. ASSUME NEW h \in Missing(blocks),
             \A g \in Missing(blocks) : g <= h
      PROVE  h \in GetBlockGaps(blocks)
  <2>1. h \in tip - GapRange .. tip /\ h >= 0 /\ h \notin blocks
    BY <1>2 DEF Missing
  <2>2. h < tip /\ h + 1 \in tip - GapRange .. tip
    BY <1>1, <2>1
  <2>3. h + 1 \in blocks
    <3>1. SUFFICES ASSUME h + 1 \notin blocks PROVE FALSE
      OBVIOUS
    <3>2. h + 1 \in Missing(blocks)
      BY <3>1, <1>2, <2>1, <2>2 DEF Missing
    <3>. QED
      BY <3>2, <1>4, <2>1
  <2>. QED
    BY <1>2, <2>1, <2>2, <2>3 DEF GapInductive, GetBlockGaps
<1>. QED
  BY <1>3, <1>4 DEF GapQuerySound

(***************************************************************************)
(* Theorem: GetBlockGaps agrees with its reference in every reachable      *)
(* state, for every height bound and scan range.  A row it returns (when   *)
(* the uint64 scan succeeds) is a missing height among the last GapRange   *)
(* below the tip, and the highest missing height is always a row, because  *)
(* the block above it is stored or is itself missing and higher.  This is  *)
(* why the filler's walk down from the tip never skips a gap.              *)
(***************************************************************************)
THEOREM GapQuerySoundHolds == Spec => []GapQuerySound
<1>1. GapInductive => GapQuerySound
  BY QuerySoundInStore
<1>. QED
  BY <1>1, GapInductiveInit, GapInductiveNext, PTL DEF Spec

=============================================================================
