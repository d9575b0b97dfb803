------------------------ MODULE MetamorphStoreProofs ------------------------
(***************************************************************************)
(* Proofs that the store and the response map stay consistent with BlockTx *)
(* and the processor, for every value of the constants: a MINED record has *)
(* a block.  They rest on StoreInductive, which extends OwnerInductive of   *)
(* MetamorphProofs, and on peers never reporting MINED.                    *)
(***************************************************************************)
EXTENDS MetamorphProofs

\* The initial fleet has stored nothing, started nothing and mapped nothing.
LEMMA StoreInit == Init => StoreInductive
<1> SUFFICES ASSUME Init PROVE StoreInductive
  OBVIOUS
<1>1. OwnerInductive
  BY OwnerInit
<1>2. StoreFacts
  BY DEF Init, StoreFacts, MinedAhead, MinedHasBlock, ProcessorsHaveRecord,
         EntryHasRecord, EntryNotMined, EntryCallsDone, ProcessorAfterProcess,
         NoRecord, MINED
<1>. QED
  BY <1>1, <1>2 DEF StoreInductive

(***************************************************************************)
(* A write of a status to one record: no record disappears, and a record   *)
(* is MINED afterwards only if it was, or the write was of MINED.          *)
(***************************************************************************)
LEMMA StoreWriteFacts ==
    ASSUME store \in [Insts -> [Txs -> Status \cup {NoRecord}]],
           NEW j \in Insts, NEW x \in Txs, NEW val \in Status,
           store' = [store EXCEPT ![j][x] = val]
    PROVE  \A k \in Insts, y \in Txs :
              /\ store[k][y] # NoRecord => store'[k][y] # NoRecord
              /\ store'[k][y] = MINED => store[k][y] = MINED \/ val = MINED
BY DEF NoRecord, Status, MINED

\* SendStatusForTransaction's update of an entry keeps its call.
LEMMA SetStatusFields ==
    ASSUME NEW e \in Entry, NEW v
    PROVE  [e EXCEPT !.status = v].status = v /\ [e EXCEPT !.status = v].call = e.call
BY Zenon DEF Entry

\* IncrementRetry keeps an entry's status and call.
LEMMA IncrementRetryFields ==
    ASSUME NEW e \in Entry, NEW v
    PROVE  /\ [e EXCEPT !.retries = v].status = e.status
           /\ [e EXCEPT !.retries = v].call = e.call
BY Zenon DEF Entry

(***************************************************************************)
(* A step of one handler that only moves its pc (and its reply fields)    *)
(* keeps the facts, when it neither enters the mined path nor leaves the  *)
(* waiting states while its processor runs.                                *)
(***************************************************************************)
LEMMA PcOnlyStep ==
    ASSUME StoreFacts, pc \in [Calls -> PCs], NEW c \in Calls, NEW v,
           v \notin {"setMined", "updateMined"},
           ppc[c] # "none" => v \in {"waiting", "returned"},
           pc' = [pc EXCEPT ![c] = v], ppc' = ppc, store' = store,
           inMap' = inMap, entry' = entry, inst' = inst, tx' = tx, mined' = mined
    PROVE  StoreFacts'
BY DEF StoreFacts, MinedAhead, MinedHasBlock, ProcessorsHaveRecord,
       EntryHasRecord, EntryNotMined, EntryCallsDone, ProcessorAfterProcess

\* A step that moves no handler, processor or call, and touches no data.
LEMMA QuietStep ==
    ASSUME StoreFacts, tx \in [Calls -> Txs], pc' = pc, ppc' = ppc,
           store' = store, inMap' = inMap, entry' = entry, inst' = inst, tx' = tx,
           \A t \in Txs : mined[t] => mined'[t]
    PROVE  StoreFacts'
BY DEF StoreFacts, MinedAhead, MinedHasBlock, ProcessorsHaveRecord,
       EntryHasRecord, EntryNotMined, EntryCallsDone, ProcessorAfterProcess


(***************************************************************************)
(* Every step keeps the facts, one step per action.  The handler steps     *)
(* only move their call, except on the mined path, which BlockTx entered  *)
(* (MinedAhead); the processor writes its record before it announces and  *)
(* maps the hash; the loops write statuses other than NoRecord, never a   *)
(* MINED one to an entry, and only remove entries.                         *)
(***************************************************************************)
LEMMA StoreFactsNext ==
    ASSUME PeersNeverReportMined, StoreInductive, [Next]_vars
    PROVE  StoreFacts'
<1>0. /\ store \in [Insts -> [Txs -> Status \cup {NoRecord}]]
      /\ inMap \in [Insts -> SUBSET Txs]
      /\ entry \in [Insts -> [Txs -> Entry]]
      /\ mined \in [Txs -> BOOLEAN]
      /\ pc \in [Calls -> PCs]
      /\ inst \in [Calls -> Insts]
      /\ tx \in [Calls -> Txs]
      /\ ppc \in [Calls -> PPCs]
  BY DEF StoreInductive, OwnerInductive, TypeOK
<1>1. IdleHasNoProcessor /\ ForwardAfterRegister
  BY DEF StoreInductive, OwnerInductive
<1>2. StoreFacts
  BY DEF StoreInductive
\* A call that has not reached processTransaction has no processor.
<1>3. \A c \in Calls : pc[c] \notin {"waiting", "returned"} => ppc[c] = "none"
  BY <1>2 DEF StoreFacts, ProcessorAfterProcess
<1>4. ASSUME NEW r \in Reqs, NEW i \in Insts, NEW t \in Txs, NEW w \in WaitTargets,
             PutTransaction(r, i, t, w)
      PROVE  StoreFacts'
  <2>0. <<r, "client">> \in Calls
    BY CallsFacts, Zenon
  <2>1. /\ pc[<<r, "client">>] = "idle" /\ ppc[<<r, "client">>] = "none"
        /\ pc' = [pc EXCEPT ![<<r, "client">>] = "register"]
        /\ inst' = [inst EXCEPT ![<<r, "client">>] = i]
        /\ tx' = [tx EXCEPT ![<<r, "client">>] = t]
        /\ store' = store /\ inMap' = inMap /\ entry' = entry /\ ppc' = ppc
        /\ mined' = mined
    BY <1>4, <2>0, <1>1 DEF PutTransaction, Goto, blocktxVars, mapVars, IdleHasNoProcessor
  <2>. QED
    BY <2>0, <2>1, <1>0, <1>2 DEF StoreFacts, MinedAhead, MinedHasBlock,
       ProcessorsHaveRecord, EntryHasRecord, EntryNotMined, EntryCallsDone,
       ProcessorAfterProcess
<1>5. ASSUME NEW c \in Calls, RegisterTransaction(c)
      PROVE  StoreFacts'
  <2>0. /\ pc[c] = "register" /\ ppc[c] = "none"
        /\ store' = store /\ inMap' = inMap /\ entry' = entry /\ ppc' = ppc
        /\ mined' = mined
    BY <1>5, <1>3 DEF RegisterTransaction, mapVars
  <2>1. CASE ~Centralised /\ RegisteredSource(tx[c], inst[c]) # inst[c] /\ IsFwd(c)
    <3>1. pc' = [pc EXCEPT ![c] = "failed"] /\ inst' = inst /\ tx' = tx
      BY <1>5, <2>1 DEF RegisterTransaction
    <3>. QED
      BY <3>1, <2>0, <1>0, <1>2, PcOnlyStep
  <2>2. CASE ~Centralised /\ RegisteredSource(tx[c], inst[c]) # inst[c] /\ ~IsFwd(c)
    <3>0. /\ <<c[1], "fwd">> \in Calls /\ <<c[1], "fwd">> # c
          /\ c = <<c[1], "client">>
      BY <2>2, CallsFacts DEF IsFwd, Calls
    <3>1. /\ pc' = [pc EXCEPT ![c] = "forwarding", ![<<c[1], "fwd">>] = "register"]
          /\ inst' = [inst EXCEPT ![<<c[1], "fwd">>] = RegisteredSource(tx[c], inst[c])]
          /\ tx' = [tx EXCEPT ![<<c[1], "fwd">>] = tx[c]]
      BY <1>5, <2>2 DEF RegisterTransaction
    \* The forwarded call was never started.
    <3>2. ppc[<<c[1], "fwd">>] = "none"
      BY <3>0, <2>0, <1>0, <1>1, CallsFacts DEF ForwardAfterRegister, IdleHasNoProcessor
    <3>. QED
      BY <3>0, <3>1, <3>2, <2>0, <1>0, <1>2 DEF StoreFacts, MinedAhead, MinedHasBlock,
         ProcessorsHaveRecord, EntryHasRecord, EntryNotMined, EntryCallsDone,
         ProcessorAfterProcess
  <2>3. CASE ~(~Centralised /\ RegisteredSource(tx[c], inst[c]) # inst[c])
    \* The mined path is taken exactly when BlockTx knows a block.
    <3>1. /\ pc' = [pc EXCEPT ![c] = IF mined[tx[c]] THEN "setMined" ELSE "checkStore"]
          /\ inst' = inst /\ tx' = tx
      BY <1>5, <2>3 DEF RegisterTransaction
    <3>. QED
      BY <3>1, <2>0, <1>0, <1>2 DEF StoreFacts, MinedAhead, MinedHasBlock,
         ProcessorsHaveRecord, EntryHasRecord, EntryNotMined, EntryCallsDone,
         ProcessorAfterProcess
  <2>. QED
    BY <2>1, <2>2, <2>3
<1>6. ASSUME NEW c \in Calls, StoreSetMined(c)
      PROVE  StoreFacts'
  <2>0. /\ pc[c] = "setMined" /\ pc' = [pc EXCEPT ![c] = "updateMined"]
        /\ store' = [store EXCEPT ![StoreOf(inst[c])][tx[c]] = UNKNOWN]
        /\ inMap' = inMap /\ entry' = entry /\ ppc' = ppc /\ mined' = mined
        /\ inst' = inst /\ tx' = tx
    BY <1>6 DEF StoreSetMined, Goto, blocktxVars, mapVars
  <2>1. /\ mined[tx[c]] /\ ppc[c] = "none"
        /\ StoreOf(inst[c]) \in Insts /\ UNKNOWN \in Status /\ UNKNOWN # MINED
    BY <2>0, <1>0, <1>2, <1>3, StoreOfType DEF StoreFacts, MinedAhead, UNKNOWN, Status, MINED
  <2>2. \A k \in Insts, y \in Txs :
           /\ store[k][y] # NoRecord => store'[k][y] # NoRecord
           /\ store'[k][y] = MINED => store[k][y] = MINED
    BY <2>0, <2>1, <1>0, StoreWriteFacts
  <2>. QED
    BY <2>0, <2>1, <2>2, <1>0, <1>2, StoreOfType DEF StoreFacts, MinedAhead,
       MinedHasBlock, ProcessorsHaveRecord, EntryHasRecord, EntryNotMined,
       EntryCallsDone, ProcessorAfterProcess
<1>7. ASSUME NEW c \in Calls, UpdateMined(c)
      PROVE  StoreFacts'
  <2>0. /\ pc[c] = "updateMined" /\ mined[tx[c]] /\ ppc[c] = "none"
        /\ inMap' = inMap /\ entry' = entry /\ ppc' = ppc /\ mined' = mined
        /\ inst' = inst /\ tx' = tx
    BY <1>7, <1>2, <1>3 DEF UpdateMined, blocktxVars, mapVars, StoreFacts, MinedAhead
  <2>1. CASE /\ pc' = [pc EXCEPT ![c] = "checkStore"]
             /\ store' = [store EXCEPT ![StoreOf(inst[c])][tx[c]] = MINED]
    \* UpdateMined writes MINED for a hash BlockTx has in a block.
    <3>1. StoreOf(inst[c]) \in Insts /\ MINED \in Status
      BY <1>0, StoreOfType DEF MINED, Status
    <3>2. \A k \in Insts, y \in Txs :
             /\ store[k][y] # NoRecord => store'[k][y] # NoRecord
             /\ store'[k][y] = MINED => store[k][y] = MINED \/ y = tx[c]
      BY <2>1, <3>1, <1>0 DEF NoRecord, Status, MINED
    <3>. QED
      BY <2>0, <2>1, <3>2, <1>0, <1>2 DEF StoreFacts, MinedAhead,
         MinedHasBlock, ProcessorsHaveRecord, EntryHasRecord, EntryNotMined,
         EntryCallsDone, ProcessorAfterProcess
  <2>2. CASE pc' = [pc EXCEPT ![c] = "failed"] /\ UNCHANGED store
    BY <2>0, <2>2, <1>0, <1>2, PcOnlyStep
  <2>. QED
    BY <1>7, <2>1, <2>2 DEF UpdateMined
<1>8. ASSUME NEW c \in Calls,
             \/ ForwardReturned(c) \/ CheckStore(c) \/ CheckUtxos(c)
             \/ ReceiveStatus(c) \/ Timeout(c)
             \/ RegisterTransactionFailed(c) \/ ForwardFailed(c)
      PROVE  StoreFacts'
  \* The steps that only move the handler, to a state off the mined path.
  <2>0. /\ store' = store /\ inMap' = inMap /\ entry' = entry /\ ppc' = ppc
        /\ mined' = mined /\ inst' = inst /\ tx' = tx
    BY <1>8 DEF ForwardReturned, CheckStore, CheckUtxos, ReceiveStatus, Timeout,
       RegisterTransactionFailed, ForwardFailed, Goto, blocktxVars, mapVars
  <2>1. \E v \in {"returned", "failed", "panicked", "checkUtxos", "process", "waiting"} :
           /\ pc' = [pc EXCEPT ![c] = v]
           /\ ppc[c] # "none" => v \in {"waiting", "returned"}
    <3>1. CASE ForwardReturned(c) \/ CheckStore(c) \/ CheckUtxos(c)
              \/ RegisterTransactionFailed(c) \/ ForwardFailed(c)
      <4>1. ppc[c] = "none"
        BY <3>1, <1>3 DEF ForwardReturned, CheckStore, CheckUtxos,
           RegisterTransactionFailed, ForwardFailed, Goto
      <4>. QED
        BY <3>1, <4>1 DEF ForwardReturned, CheckStore, CheckUtxos,
           RegisterTransactionFailed, ForwardFailed, Goto
    <3>2. CASE ReceiveStatus(c) \/ Timeout(c)
      BY <3>2 DEF ReceiveStatus, Timeout, Goto
    <3>. QED
      BY <1>8, <3>1, <3>2
  <2>. QED
    BY <2>0, <2>1, <1>0, <1>2, PcOnlyStep
<1>9. ASSUME NEW c \in Calls, ProcessTransaction(c)
      PROVE  StoreFacts'
  <2>0. /\ pc[c] = "process" /\ pc' = [pc EXCEPT ![c] = "waiting"]
        /\ ppc' = [ppc EXCEPT ![c] = "get"]
        /\ store' = store /\ inMap' = inMap /\ entry' = entry /\ mined' = mined
        /\ inst' = inst /\ tx' = tx
    BY <1>9 DEF ProcessTransaction, Goto, blocktxVars, mapVars
  \* No entry holds the channel of a call that is only now processed.
  <2>1. ppc[c] = "none"
    BY <2>0, <1>3
  <2>. QED
    BY <2>0, <2>1, <1>0, <1>2 DEF StoreFacts, MinedAhead, MinedHasBlock,
       ProcessorsHaveRecord, EntryHasRecord, EntryNotMined, EntryCallsDone,
       ProcessorAfterProcess
<1>10. ASSUME NEW c \in Calls, Deliver(c)
      PROVE  StoreFacts'
  BY <1>10, <1>0, <1>2, QuietStep DEF Deliver, blocktxVars, mapVars, callVars
<1>11. ASSUME NEW c \in Calls, ProcGet(c)
      PROVE  StoreFacts'
  <2>0. /\ ppc[c] = "get" /\ pc' = pc
        /\ store' = store /\ inMap' = inMap /\ entry' = entry /\ mined' = mined
        /\ inst' = inst /\ tx' = tx
        /\ \E v \in {"done", "store"} : ppc' = [ppc EXCEPT ![c] = v]
    BY <1>11 DEF ProcGet, blocktxVars, mapVars, callVars
  <2>. QED
    BY <2>0, <1>0, <1>2 DEF StoreFacts, MinedAhead, MinedHasBlock,
       ProcessorsHaveRecord, EntryHasRecord, EntryNotMined, EntryCallsDone,
       ProcessorAfterProcess
<1>12. ASSUME NEW c \in Calls, ProcStore(c)
      PROVE  StoreFacts'
  <2>0. /\ ppc[c] = "store" /\ pc' = pc
        /\ inMap' = inMap /\ entry' = entry /\ mined' = mined
        /\ inst' = inst /\ tx' = tx
    BY <1>12 DEF ProcStore, blocktxVars, mapVars, callVars
  \* store.Set writes the STORED record the later steps rely on.
  <2>1. CASE /\ store' = [store EXCEPT ![StoreOf(inst[c])][tx[c]] = STORED]
             /\ ppc' = [ppc EXCEPT ![c] = "announce"]
    <3>1. StoreOf(inst[c]) \in Insts /\ STORED \in Status /\ STORED # MINED
      BY <1>0, StoreOfType DEF STORED, Status, MINED
    <3>2. \A k \in Insts, y \in Txs :
             /\ store[k][y] # NoRecord => store'[k][y] # NoRecord
             /\ store'[k][y] = MINED => store[k][y] = MINED
      BY <2>1, <3>1, <1>0, StoreWriteFacts
    <3>3. store'[StoreOf(inst[c])][tx[c]] # NoRecord
      BY <2>1, <3>1, <1>0 DEF NoRecord, STORED
    <3>. QED
      BY <2>0, <2>1, <3>2, <3>3, <1>0, <1>2, StoreOfType DEF StoreFacts, MinedAhead,
         MinedHasBlock, ProcessorsHaveRecord, EntryHasRecord, EntryNotMined,
         EntryCallsDone, ProcessorAfterProcess
  <2>2. CASE ProcStoreFailed(c)
    <3>1. store' = store /\ ppc' = [ppc EXCEPT ![c] = "done"]
      BY <2>2 DEF ProcStoreFailed
    <3>. QED
      BY <2>0, <3>1, <1>0, <1>2 DEF StoreFacts, MinedAhead, MinedHasBlock,
         ProcessorsHaveRecord, EntryHasRecord, EntryNotMined, EntryCallsDone,
         ProcessorAfterProcess
  <2>. QED
    BY <1>12, <2>1, <2>2 DEF ProcStore
<1>13. ASSUME NEW c \in Calls, ProcAnnounce(c)
      PROVE  StoreFacts'
  <2>0. /\ ppc[c] = "announce" /\ pc' = pc /\ ppc' = [ppc EXCEPT ![c] = "addMap"]
        /\ store' = store /\ inMap' = inMap /\ entry' = entry /\ mined' = mined
        /\ inst' = inst /\ tx' = tx
    BY <1>13 DEF ProcAnnounce, blocktxVars, mapVars, callVars
  <2>. QED
    BY <2>0, <1>0, <1>2 DEF StoreFacts, MinedAhead, MinedHasBlock,
       ProcessorsHaveRecord, EntryHasRecord, EntryNotMined, EntryCallsDone,
       ProcessorAfterProcess
<1>14. ASSUME NEW c \in Calls, ProcAddMap(c)
      PROVE  StoreFacts'
  <2>0. /\ ppc[c] = "addMap" /\ pc' = pc /\ ppc' = [ppc EXCEPT ![c] = "done"]
        /\ inMap' = [inMap EXCEPT ![inst[c]] = @ \cup {tx[c]}]
        /\ entry' = [entry EXCEPT ![inst[c]][tx[c]] =
                       [status |-> ANNOUNCED_TO_NETWORK, retries |-> 0, call |-> c]]
        /\ store' = store /\ mined' = mined /\ inst' = inst /\ tx' = tx
    BY <1>14 DEF ProcAddMap, blocktxVars, callVars
  \* The entry is added for a hash whose record the processor has written.
  <2>1. store[StoreOf(inst[c])][tx[c]] # NoRecord
    BY <2>0, <1>2 DEF StoreFacts, ProcessorsHaveRecord
  <2>2. ANNOUNCED_TO_NETWORK # MINED
    BY DEF ANNOUNCED_TO_NETWORK, MINED
  <2>. QED
    BY <2>0, <2>1, <2>2, <1>0, <1>2 DEF StoreFacts, MinedAhead, MinedHasBlock,
       ProcessorsHaveRecord, EntryHasRecord, EntryNotMined, EntryCallsDone,
       ProcessorAfterProcess
<1>15. ASSUME NEW i \in Insts, NEW t \in Txs, NEW s \in NetStatuses,
              SendStatusForTransaction(i, t, s)
      PROVE  StoreFacts'
  <2>0. /\ t \in inMap[i]
        /\ entry' = [entry EXCEPT ![i][t].status = s]
        /\ store' = [store EXCEPT ![StoreOf(i)][t] = s]
        /\ pc' = pc /\ ppc' = ppc /\ inMap' = inMap /\ mined' = mined
        /\ inst' = inst /\ tx' = tx
    BY <1>15 DEF SendStatusForTransaction, blocktxVars, callVars
  \* Peers report no MINED status, so neither the entry nor the record
  \* becomes MINED here.
  <2>1. s \in Status /\ s # MINED /\ StoreOf(i) \in Insts
    BY StatusSetsAssumption, StoreOfType DEF PeersNeverReportMined
  <2>2. \A k \in Insts, y \in Txs :
           /\ store[k][y] # NoRecord => store'[k][y] # NoRecord
           /\ store'[k][y] = MINED => store[k][y] = MINED
    BY <2>0, <2>1, <1>0, StoreWriteFacts
  <2>3. \A j \in Insts : \A y \in Txs : (j # i \/ y # t) => entry'[j][y] = entry[j][y]
    BY <2>0, <1>0
  <2>4. entry'[i][t] = [entry[i][t] EXCEPT !.status = s]
    BY <2>0, <1>0
  <2>5. entry'[i][t].status = s /\ entry'[i][t].call = entry[i][t].call
    BY <2>4, <1>0, SetStatusFields
  <2>. QED
    BY <2>0, <2>1, <2>2, <2>3, <2>5, <1>0, <1>2, StoreOfType DEF StoreFacts,
       MinedAhead, MinedHasBlock, ProcessorsHaveRecord, EntryHasRecord,
       EntryNotMined, EntryCallsDone, ProcessorAfterProcess
<1>16. ASSUME NEW i \in Insts, NEW t \in Txs, SendStatusMinedForTransaction(i, t)
      PROVE  StoreFacts'
  <2>0. /\ t \in inMap[i] /\ mined[t]
        /\ store' = [store EXCEPT ![StoreOf(i)][t] = MINED]
        /\ inMap' = [inMap EXCEPT ![i] = @ \ {t}]
        /\ entry' = [entry EXCEPT ![i][t] = NoEntry]
        /\ pc' = pc /\ ppc' = ppc /\ mined' = mined /\ inst' = inst /\ tx' = tx
    BY <1>16 DEF SendStatusMinedForTransaction, MapItems, MapDelete, MinedInBlockTx,
       blocktxVars, callVars
  \* The record is marked MINED for a hash in a block, and its entry goes.
  <2>1. StoreOf(i) \in Insts /\ MINED \in Status
    BY StoreOfType DEF MINED, Status
  <2>2. \A k \in Insts, y \in Txs :
           /\ store[k][y] # NoRecord => store'[k][y] # NoRecord
           /\ store'[k][y] = MINED => store[k][y] = MINED \/ y = t
    BY <2>0, <2>1, <1>0 DEF NoRecord, Status, MINED
  <2>3. \A j \in Insts : \A y \in inMap'[j] : y \in inMap[j] /\ entry'[j][y] = entry[j][y]
    BY <2>0, <1>0
  <2>. QED
    BY <2>0, <2>2, <2>3, <1>0, <1>2 DEF StoreFacts, MinedAhead, MinedHasBlock,
       ProcessorsHaveRecord, EntryHasRecord, EntryNotMined, EntryCallsDone,
       ProcessorAfterProcess
<1>17. ASSUME NEW i \in Insts, NEW t \in Txs, ProcessExpiredTransaction(i, t)
      PROVE  StoreFacts'
  <2>0. /\ t \in inMap[i]
        /\ pc' = pc /\ ppc' = ppc /\ mined' = mined /\ inst' = inst /\ tx' = tx
    BY <1>17 DEF ProcessExpiredTransaction, Expired, blocktxVars, callVars
  \* A retry changes only the counter.
  <2>1. CASE /\ entry' = [entry EXCEPT ![i][t].retries = @ + 1]
             /\ store' = store /\ inMap' = inMap
    <3>1. \A j \in Insts : \A y \in Txs : (j # i \/ y # t) => entry'[j][y] = entry[j][y]
      BY <2>1, <1>0
    <3>2. entry'[i][t] = [entry[i][t] EXCEPT !.retries = entry[i][t].retries + 1]
      BY <2>1, <1>0
    <3>3. entry'[i][t].status = entry[i][t].status /\ entry'[i][t].call = entry[i][t].call
      BY <3>2, <1>0, IncrementRetryFields
    <3>. QED
      BY <2>0, <2>1, <3>1, <3>3, <1>0, <1>2, StoreOfType DEF StoreFacts, MinedAhead, MinedHasBlock,
         ProcessorsHaveRecord, EntryHasRecord, EntryNotMined, EntryCallsDone,
         ProcessorAfterProcess
  \* Past the cap: stored REJECTED and deleted.
  <2>2. CASE /\ store' = [store EXCEPT ![StoreOf(i)][t] = REJECTED]
             /\ inMap' = [inMap EXCEPT ![i] = @ \ {t}]
             /\ entry' = [entry EXCEPT ![i][t] = NoEntry]
    <3>1. StoreOf(i) \in Insts /\ REJECTED \in Status /\ REJECTED # MINED
      BY StoreOfType DEF REJECTED, Status, MINED
    <3>2. \A k \in Insts, y \in Txs :
             /\ store[k][y] # NoRecord => store'[k][y] # NoRecord
             /\ store'[k][y] = MINED => store[k][y] = MINED
      BY <2>2, <3>1, <1>0, StoreWriteFacts
    <3>3. \A j \in Insts : \A y \in inMap'[j] : y \in inMap[j] /\ entry'[j][y] = entry[j][y]
      BY <2>2, <1>0
    <3>. QED
      BY <2>0, <3>2, <3>3, <1>0, <1>2, StoreOfType DEF StoreFacts, MinedAhead, MinedHasBlock,
         ProcessorsHaveRecord, EntryHasRecord, EntryNotMined, EntryCallsDone,
         ProcessorAfterProcess
  <2>. QED
    BY <1>17, <2>1, <2>2 DEF ProcessExpiredTransaction, MapDelete, MapIncrementRetry
<1>18. ASSUME NEW i \in Insts, Clean(i)
      PROVE  StoreFacts'
  <2>0. /\ pc' = pc /\ ppc' = ppc /\ store' = store /\ mined' = mined
        /\ inst' = inst /\ tx' = tx
    BY <1>18 DEF Clean, blocktxVars, callVars
  \* Clean deletes entries and keeps the others as they were.
  <2>1. \A j \in Insts : \A y \in inMap'[j] : y \in inMap[j] /\ entry'[j][y] = entry[j][y]
    BY <1>18, <1>0 DEF Clean
  <2>. QED
    BY <2>0, <2>1, <1>0, <1>2 DEF StoreFacts, MinedAhead, MinedHasBlock,
       ProcessorsHaveRecord, EntryHasRecord, EntryNotMined, EntryCallsDone,
       ProcessorAfterProcess
<1>19. ASSUME NEW t \in Txs, BlockMined(t)
      PROVE  StoreFacts'
  BY <1>19, <1>0, <1>2, QuietStep DEF BlockMined, mapVars, callVars
<1>20. CASE UNCHANGED vars \/ Quiescent
  BY <1>20, <1>0, <1>2, QuietStep DEF vars, Quiescent
<1>. QED
  BY <1>4, <1>5, <1>6, <1>7, <1>8, <1>9, <1>10, <1>11, <1>12, <1>13, <1>14,
     <1>15, <1>16, <1>17, <1>18, <1>19, <1>20
  DEF Next, Handler, RpcFailure, Processor


LEMMA StoreNext ==
    ASSUME PeersNeverReportMined, StoreInductive, [Next]_vars
    PROVE  StoreInductive'
BY OwnerNext, StoreFactsNext DEF StoreInductive

(***************************************************************************)
(* The strengthening holds in every reachable state, for every fleet,      *)
(* transaction set, request set, store mode and retry bound, as long as    *)
(* peers never report MINED.                                               *)
(***************************************************************************)
THEOREM StoreInductiveHolds ==
    ASSUME PeersNeverReportMined PROVE Spec => []StoreInductive
<1>1. StoreInductive /\ [Next]_vars => StoreInductive'
  BY StoreNext
<1>. QED
  BY <1>1, StoreInit, PTL DEF Spec

(***************************************************************************)
(* Spec 8.1: a record becomes MINED only for a hash BlockTx has in a       *)
(* block, through UpdateMined in putTransactionInit or the check-if-mined  *)
(* loop, and stays backed by it: BlockTx forgets no block.                 *)
(***************************************************************************)
THEOREM MinedHasBlockHolds ==
    ASSUME PeersNeverReportMined PROVE Spec => []MinedHasBlock
<1>1. StoreInductive => MinedHasBlock
  BY DEF StoreInductive, StoreFacts
<1>. QED
  BY <1>1, StoreInductiveHolds, PTL

=============================================================================
