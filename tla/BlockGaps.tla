------------------------------ MODULE BlockGaps ------------------------------
(***************************************************************************)
(* The gap filler of BlockTx and the query it rests on: GetBlockGaps in    *)
(* src/blocktx/store/sql/get_block_gaps.go.  The filler itself (the        *)
(* peer handler's FillGaps, not in this repository) is modelled from spec  *)
(* 4.5: on every tick, the primary asks the store for the gaps among the   *)
(* last GapRange heights and requests each reported block from a peer.     *)
(* A block is a height; its hash is the prevhash column of the block one   *)
(* above, which the query returns beside the height and the model leaves   *)
(* out.                                                                    *)
(***************************************************************************)
EXTENDS Integers

CONSTANTS
    MaxHeight,   \* the heights a peer can announce are 0..MaxHeight
    GapRange,    \* blockHeightRange, the heights scanned below the tip
    MinTip       \* the lowest tip the store starts from

ASSUME GapConstAssumption ==
    /\ MaxHeight \in Nat
    /\ GapRange \in Nat
    /\ MinTip \in 0..MaxHeight

Heights == 0..MaxHeight

VARIABLES
    blocks,      \* the heights of the rows of the blocks table
    requested    \* the heights of the getdata messages the filler sent

vars == <<blocks, requested>>

GapTypeOK ==
    /\ blocks \in SUBSET Heights
    /\ requested \in SUBSET Int

\* The store holds some chain whose tip is at least MinTip; nothing is
\* being requested yet.
Init ==
    /\ blocks \in {B \in SUBSET Heights : \E b \in B : b >= MinTip}
    /\ requested = {}

\* SELECT max(height) FROM blocks.
TipOf(B) == CHOOSE m \in B : \A b \in B : b <= m

\* generate_series(max(height) - $1, max(height)): the heights scanned.
Series(B) == TipOf(B) - GapRange .. TipOf(B)

GetBlockGapsPrevJoin(B) ==
    IF B = {} THEN {}
    ELSE {h \in Series(B) : h \notin B /\ h - 1 \in B}

(***************************************************************************)
(* The rows of the query: the scanned heights with no block (LEFT JOIN ... *)
(* WHERE blks.height IS NULL) that are joined to the block one above       *)
(* (blocks.height = missing_block_height + 1).  An empty table has no      *)
(* max, so the series and the result are empty.                            *)
(***************************************************************************)
GetBlockGaps(B) ==
    IF B = {} THEN {}
    ELSE {h \in Series(B) : h \notin B /\ h + 1 \in B}

(***************************************************************************)
(* rows.Scan(&height, ...) into a uint64: a negative height (the series    *)
(* starts below 0 when the tip is below GapRange, and -1 is a row when     *)
(* block 0 is stored) fails the scan, and GetBlockGaps returns nil and the *)
(* error; the rows scanned before it are dropped.                          *)
(***************************************************************************)
ScanOK(gaps) == \A h \in gaps : h >= 0

(***************************************************************************)
(* One tick of the filler on the primary: query the gaps and send a block  *)
(* request for each.  When the query fails FillGaps returns its error and   *)
(* nothing is requested: the tick changes no state.                        *)
(***************************************************************************)
FillGaps ==
    /\ ScanOK(GetBlockGaps(blocks))
    /\ requested' = requested \cup GetBlockGaps(blocks)
    /\ UNCHANGED blocks

\* A peer answers the request for h; a block already stored is stored once.
Answer(h) ==
    /\ h \in requested
    /\ blocks' = blocks \cup {h}
    /\ requested' = requested \ {h}

\* A peer never answers a request (it disconnects or drops the message).
LoseRequest(h) ==
    /\ h \in requested
    /\ requested' = requested \ {h}
    /\ UNCHANGED blocks

\* A peer announces a block the store does not have: a new tip, or a block
\* that arrived before its predecessor.
NewBlock(h) ==
    /\ h \notin blocks
    /\ blocks' = blocks \cup {h}
    /\ UNCHANGED requested

Next ==
    \/ FillGaps
    \/ \E h \in requested : Answer(h) \/ LoseRequest(h)
    \/ \E h \in Heights : NewBlock(h)

(***************************************************************************)
(* The ticker fires on every interval (weak fairness), and a block that is *)
(* requested again and again is eventually delivered by some peer (strong  *)
(* fairness: a request may be lost, but the next tick sends it again).     *)
(* Announcements of new blocks are the network's and are not fair.         *)
(***************************************************************************)
Fairness ==
    /\ WF_vars(FillGaps)
    /\ \A h \in Heights : SF_vars(Answer(h))

Spec == Init /\ [][Next]_vars /\ Fairness

-----------------------------------------------------------------------------
\* The heights among the last GapRange below the tip that have no block.
Missing(B) == {h \in Series(B) : h >= 0 /\ h \notin B}

(***************************************************************************)
(* Spec 4.5 and scenario S6: the filler fills every gap among the last     *)
(* GapRange heights, so that get_block_gaps eventually returns empty and   *)
(* stays so.  The query reports only a missing height whose successor is   *)
(* stored, so a run of missing heights is walked down one block per tick;  *)
(* this says the walk ends.                                                *)
(***************************************************************************)
GapsEventuallyFilled == <>[](Missing(blocks) = {})

(***************************************************************************)
(* The query checked against its reference, the set of missing heights:    *)
(* when GetBlockGaps succeeds it reports only heights that are missing,    *)
(* and it always reports the highest one, the one the walk down from the   *)
(* tip needs next.                                                         *)
(***************************************************************************)
GapQuerySound ==
    ScanOK(GetBlockGaps(blocks)) =>
        /\ GetBlockGaps(blocks) \subseteq Missing(blocks)
        /\ \A h \in Missing(blocks) :
              (\A g \in Missing(blocks) : g <= h) => h \in GetBlockGaps(blocks)

(***************************************************************************)
(* No request of the filler is for a height that cannot exist: every       *)
(* requested height is at least 0 and below a block the store holds.       *)
(***************************************************************************)
RequestsAreRealHeights ==
    \A h \in requested : h \in Nat /\ \E b \in blocks : h < b

=============================================================================
