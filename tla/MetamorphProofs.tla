--------------------------- MODULE MetamorphProofs --------------------------
(***************************************************************************)
(* Proofs about Metamorph for every value of the constants: the type       *)
(* invariant, and that with per-instance stores a transaction is stored    *)
(* only by its registered owner.                                           *)
(***************************************************************************)
EXTENDS Metamorph, TLAPS

USE InstsAssumption, ReqsAssumption, FlagsAssumption, MaxRetriesAssumption,
    StatusSetsAssumption

\* Every request has a client call and a forwarded call.
LEMMA CallsFacts ==
    /\ Calls # {}
    /\ \A c \in Calls : c[1] \in Reqs /\ <<c[1], "fwd">> \in Calls
    /\ \A r \in Reqs : <<r, "client">> \in Calls /\ <<r, "fwd">> \in Calls
<1>1. \A c \in Calls : c[1] \in Reqs /\ <<c[1], "fwd">> \in Calls
  BY Zenon DEF Calls
<1>2. \A r \in Reqs : <<r, "client">> \in Calls /\ <<r, "fwd">> \in Calls
  BY Zenon DEF Calls
<1>. QED
  BY <1>1, <1>2, ReqsAssumption

\* The value ProcessorResponseMap.Delete leaves behind is a well-formed entry.
LEMMA NoEntryType == NoEntry \in Entry
<1>1. (CHOOSE c \in Calls : TRUE) \in Calls
  BY CallsFacts, Zenon
<1>2. UNKNOWN \in Status /\ 0 \in 0..(MaxRetries + 1)
  BY MaxRetriesAssumption DEF UNKNOWN, Status
<1>. QED
  BY <1>1, <1>2 DEF NoEntry, Entry

\* Every instance reads and writes some instance's store.
LEMMA StoreOfType == \A i \in Insts : StoreOf(i) \in Insts
BY DEF StoreOf, SharedStore

-----------------------------------------------------------------------------
(***************************************************************************)
(* Type correctness.                                                       *)
(***************************************************************************)

\* The initial fleet is well typed.
LEMMA TypeInit == Init => TypeOK
BY NoEntryType DEF Init, TypeOK, Status, NoRecord, NoMsg, PCs, PPCs,
   SEEN_ON_NETWORK, UNKNOWN

(***************************************************************************)
(* Every handler, processor and loop step keeps the fleet well typed: one  *)
(* step per action, each showing the types of what the action assigns.    *)
(***************************************************************************)
LEMMA TypeNext == TypeOK /\ [Next]_vars => TypeOK'
<1> SUFFICES ASSUME TypeOK, [Next]_vars PROVE TypeOK'
  OBVIOUS
<1>0. /\ registry \in [Txs -> Insts \cup {NoOwner}]
      /\ mined \in [Txs -> BOOLEAN]
      /\ store \in [Insts -> [Txs -> Status \cup {NoRecord}]]
      /\ inMap \in [Insts -> SUBSET Txs]
      /\ entry \in [Insts -> [Txs -> Entry]]
      /\ announced \in [Txs -> Nat]
      /\ pc \in [Calls -> PCs]
      /\ inst \in [Calls -> Insts]
      /\ tx \in [Calls -> Txs]
      /\ wait \in [Calls -> Status]
      /\ last \in [Calls -> Status]
      /\ timedOut \in [Calls -> BOOLEAN]
      /\ chan \in [Calls -> Status \cup {NoMsg}]
      /\ out \in [Calls -> Status \cup {NoMsg}]
      /\ ppc \in [Calls -> PPCs]
  BY DEF TypeOK
<1>1. ASSUME NEW r \in Reqs, NEW i \in Insts, NEW t \in Txs, NEW w \in WaitTargets,
             PutTransaction(r, i, t, w)
      PROVE TypeOK'
  <2>1. <<r, "client">> \in Calls /\ (IF w = UNKNOWN THEN SEEN_ON_NETWORK ELSE w) \in Status
    <3>1. w \in Status
      BY StatusSetsAssumption
    <3>2. <<r, "client">> \in Calls
      BY CallsFacts, Zenon
    <3>3. (IF w = UNKNOWN THEN SEEN_ON_NETWORK ELSE w) \in Status
      BY <3>1 DEF Status, SEEN_ON_NETWORK
    <3>. QED
      BY <3>2, <3>3
  <2>2. /\ pc' \in [Calls -> PCs] /\ inst' \in [Calls -> Insts]
        /\ tx' \in [Calls -> Txs] /\ wait' \in [Calls -> Status]
    BY <1>1, <2>1, <1>0 DEF PutTransaction, Goto, PCs
  <2>3. /\ registry' = registry /\ mined' = mined /\ store' = store
        /\ inMap' = inMap /\ entry' = entry /\ announced' = announced
        /\ last' = last /\ timedOut' = timedOut /\ chan' = chan
        /\ out' = out /\ ppc' = ppc
    BY <1>1 DEF PutTransaction, blocktxVars, mapVars
  <2>. QED
    BY <2>2, <2>3, <1>0 DEF TypeOK
<1>2. ASSUME NEW c \in Calls, RegisterTransaction(c) PROVE TypeOK'
  <2>1. /\ inst[c] \in Insts /\ tx[c] \in Txs /\ wait[c] \in Status
        /\ RegisteredSource(tx[c], inst[c]) \in Insts
        /\ <<c[1], "fwd">> \in Calls
    BY <1>0, CallsFacts DEF RegisteredSource
  <2>2. registry' \in [Txs -> Insts \cup {NoOwner}]
    BY <1>2, <2>1, <1>0 DEF RegisterTransaction
  <2>3. /\ pc' \in [Calls -> PCs] /\ inst' \in [Calls -> Insts]
        /\ tx' \in [Calls -> Txs] /\ wait' \in [Calls -> Status]
    <3>1. CASE ~Centralised /\ RegisteredSource(tx[c], inst[c]) # inst[c] /\ IsFwd(c)
      <4>1. pc' = [pc EXCEPT ![c] = "failed"] /\ UNCHANGED <<inst, tx, wait>>
        BY <1>2, <3>1 DEF RegisterTransaction
      <4>. QED
        BY <4>1, <1>0 DEF PCs
    <3>2. CASE ~Centralised /\ RegisteredSource(tx[c], inst[c]) # inst[c] /\ ~IsFwd(c)
      <4>1. /\ pc' = [pc EXCEPT ![c] = "forwarding", ![<<c[1], "fwd">>] = "register"]
            /\ inst' = [inst EXCEPT ![<<c[1], "fwd">>] = RegisteredSource(tx[c], inst[c])]
            /\ tx' = [tx EXCEPT ![<<c[1], "fwd">>] = tx[c]]
            /\ wait' = [wait EXCEPT ![<<c[1], "fwd">>] = wait[c]]
        BY <1>2, <3>2 DEF RegisterTransaction
      <4>. QED
        BY <4>1, <2>1, <1>0 DEF PCs
    <3>3. CASE ~(~Centralised /\ RegisteredSource(tx[c], inst[c]) # inst[c])
      <4>1. /\ pc' = [pc EXCEPT ![c] = IF mined[tx[c]] THEN "setMined" ELSE "checkStore"]
            /\ UNCHANGED <<inst, tx, wait>>
        BY <1>2, <3>3 DEF RegisterTransaction
      <4>. QED
        BY <4>1, <1>0 DEF PCs
    <3>. QED
      BY <3>1, <3>2, <3>3
  <2>4. /\ mined' = mined /\ store' = store /\ inMap' = inMap /\ entry' = entry
        /\ announced' = announced /\ last' = last /\ timedOut' = timedOut
        /\ chan' = chan /\ out' = out /\ ppc' = ppc
    BY <1>2 DEF RegisterTransaction, mapVars
  <2>. QED
    BY <2>2, <2>3, <2>4, <1>0 DEF TypeOK
<1>3. ASSUME NEW c \in Calls, ForwardReturned(c) PROVE TypeOK'
  <2>1. /\ pc' \in [Calls -> PCs] /\ last' \in [Calls -> Status]
        /\ timedOut' \in [Calls -> BOOLEAN]
    BY <1>3, <1>0, CallsFacts DEF ForwardReturned, PCs
  <2>2. /\ registry' = registry /\ mined' = mined /\ store' = store
        /\ inMap' = inMap /\ entry' = entry /\ announced' = announced
        /\ inst' = inst /\ tx' = tx /\ wait' = wait /\ chan' = chan
        /\ out' = out /\ ppc' = ppc
    BY <1>3 DEF ForwardReturned, blocktxVars, mapVars
  <2>. QED
    BY <2>1, <2>2, <1>0 DEF TypeOK
<1>4. ASSUME NEW c \in Calls, StoreSetMined(c) PROVE TypeOK'
  <2>1. pc' \in [Calls -> PCs] /\ store' \in [Insts -> [Txs -> Status \cup {NoRecord}]]
    BY <1>4, <1>0, StoreOfType DEF StoreSetMined, Goto, PCs, Status, UNKNOWN
  <2>2. /\ registry' = registry /\ mined' = mined /\ inMap' = inMap
        /\ entry' = entry /\ announced' = announced /\ inst' = inst /\ tx' = tx
        /\ wait' = wait /\ last' = last /\ timedOut' = timedOut /\ chan' = chan
        /\ out' = out /\ ppc' = ppc
    BY <1>4 DEF StoreSetMined, blocktxVars, mapVars
  <2>. QED
    BY <2>1, <2>2, <1>0 DEF TypeOK
<1>5. ASSUME NEW c \in Calls, UpdateMined(c) PROVE TypeOK'
  <2>1. pc' \in [Calls -> PCs] /\ store' \in [Insts -> [Txs -> Status \cup {NoRecord}]]
    <3>1. StoreOf(inst[c]) \in Insts /\ tx[c] \in Txs
      BY <1>0, StoreOfType
    <3>2. CASE pc' = [pc EXCEPT ![c] = "checkStore"]
               /\ store' = [store EXCEPT ![StoreOf(inst[c])][tx[c]] = MINED]
      BY <3>1, <3>2, <1>0 DEF PCs, Status, MINED
    <3>3. CASE pc' = [pc EXCEPT ![c] = "failed"] /\ UNCHANGED store
      BY <3>3, <1>0 DEF PCs
    <3>. QED
      BY <1>5, <3>2, <3>3 DEF UpdateMined
  <2>2. /\ registry' = registry /\ mined' = mined /\ inMap' = inMap
        /\ entry' = entry /\ announced' = announced /\ inst' = inst /\ tx' = tx
        /\ wait' = wait /\ last' = last /\ timedOut' = timedOut /\ chan' = chan
        /\ out' = out /\ ppc' = ppc
    BY <1>5 DEF UpdateMined, blocktxVars, mapVars
  <2>. QED
    BY <2>1, <2>2, <1>0 DEF TypeOK
<1>6. ASSUME NEW c \in Calls, CheckStore(c) PROVE TypeOK'
  <2>1. pc' \in [Calls -> PCs] /\ last' \in [Calls -> Status]
    <3>1. store[StoreOf(inst[c])][tx[c]] \in Status \cup {NoRecord}
      BY <1>0, StoreOfType
    <3>2. CASE store[StoreOf(inst[c])][tx[c]] # NoRecord
      <4>1. pc' = [pc EXCEPT ![c] = "returned"]
            /\ last' = [last EXCEPT ![c] = store[StoreOf(inst[c])][tx[c]]]
        BY <1>6, <3>2 DEF CheckStore
      <4>. QED
        BY <4>1, <3>1, <3>2, <1>0 DEF PCs
    <3>3. CASE store[StoreOf(inst[c])][tx[c]] = NoRecord
      <4>1. pc' = [pc EXCEPT ![c] = IF inst[c] \in UtxoCheckInsts THEN "checkUtxos" ELSE "process"]
            /\ last' = last
        BY <1>6, <3>3 DEF CheckStore
      <4>. QED
        BY <4>1, <1>0 DEF PCs
    <3>. QED
      BY <3>2, <3>3
  <2>2. /\ registry' = registry /\ mined' = mined /\ store' = store
        /\ inMap' = inMap /\ entry' = entry /\ announced' = announced
        /\ inst' = inst /\ tx' = tx /\ wait' = wait /\ timedOut' = timedOut
        /\ chan' = chan /\ out' = out /\ ppc' = ppc
    BY <1>6 DEF CheckStore, blocktxVars, mapVars
  <2>. QED
    BY <2>1, <2>2, <1>0 DEF TypeOK
<1>7. ASSUME NEW c \in Calls, CheckUtxos(c) PROVE TypeOK'
  <2>1. pc' \in [Calls -> PCs] /\ last' \in [Calls -> Status]
    <3>1. CASE pc' = [pc EXCEPT ![c] = "returned"] /\ last' = [last EXCEPT ![c] = REJECTED]
      BY <3>1, <1>0 DEF PCs, Status, REJECTED
    <3>2. CASE pc' = [pc EXCEPT ![c] = "panicked"] /\ UNCHANGED last
      BY <3>2, <1>0 DEF PCs
    <3>. QED
      BY <1>7, <3>1, <3>2 DEF CheckUtxos
  <2>2. /\ registry' = registry /\ mined' = mined /\ store' = store
        /\ inMap' = inMap /\ entry' = entry /\ announced' = announced
        /\ inst' = inst /\ tx' = tx /\ wait' = wait /\ timedOut' = timedOut
        /\ chan' = chan /\ out' = out /\ ppc' = ppc
    BY <1>7 DEF CheckUtxos, blocktxVars, mapVars
  <2>. QED
    BY <2>1, <2>2, <1>0 DEF TypeOK
<1>8. ASSUME NEW c \in Calls, ProcessTransaction(c) PROVE TypeOK'
  <2>1. /\ pc' \in [Calls -> PCs] /\ chan' \in [Calls -> Status \cup {NoMsg}]
        /\ ppc' \in [Calls -> PPCs]
    BY <1>8, <1>0 DEF ProcessTransaction, Goto, PCs, PPCs
  <2>2. /\ registry' = registry /\ mined' = mined /\ store' = store
        /\ inMap' = inMap /\ entry' = entry /\ announced' = announced
        /\ inst' = inst /\ tx' = tx /\ wait' = wait /\ last' = last
        /\ timedOut' = timedOut /\ out' = out
    BY <1>8 DEF ProcessTransaction, blocktxVars, mapVars
  <2>. QED
    BY <2>1, <2>2, <1>0 DEF TypeOK
<1>9. ASSUME NEW c \in Calls, ReceiveStatus(c) PROVE TypeOK'
  <2>1. /\ pc' \in [Calls -> PCs] /\ last' \in [Calls -> Status]
        /\ chan' \in [Calls -> Status \cup {NoMsg}]
    BY <1>9, <1>0 DEF ReceiveStatus, PCs
  <2>2. /\ registry' = registry /\ mined' = mined /\ store' = store
        /\ inMap' = inMap /\ entry' = entry /\ announced' = announced
        /\ inst' = inst /\ tx' = tx /\ wait' = wait /\ timedOut' = timedOut
        /\ out' = out /\ ppc' = ppc
    BY <1>9 DEF ReceiveStatus, blocktxVars, mapVars
  <2>. QED
    BY <2>1, <2>2, <1>0 DEF TypeOK
<1>10. ASSUME NEW c \in Calls, Timeout(c) PROVE TypeOK'
  <2>1. pc' \in [Calls -> PCs] /\ timedOut' \in [Calls -> BOOLEAN]
    BY <1>10, <1>0 DEF Timeout, Goto, PCs
  <2>2. /\ registry' = registry /\ mined' = mined /\ store' = store
        /\ inMap' = inMap /\ entry' = entry /\ announced' = announced
        /\ inst' = inst /\ tx' = tx /\ wait' = wait /\ last' = last
        /\ chan' = chan /\ out' = out /\ ppc' = ppc
    BY <1>10 DEF Timeout, blocktxVars, mapVars
  <2>. QED
    BY <2>1, <2>2, <1>0 DEF TypeOK
<1>11. ASSUME NEW c \in Calls, Deliver(c) PROVE TypeOK'
  <2>1. chan' \in [Calls -> Status \cup {NoMsg}] /\ out' \in [Calls -> Status \cup {NoMsg}]
    BY <1>11, <1>0 DEF Deliver
  <2>2. /\ registry' = registry /\ mined' = mined /\ store' = store
        /\ inMap' = inMap /\ entry' = entry /\ announced' = announced
        /\ pc' = pc /\ inst' = inst /\ tx' = tx /\ wait' = wait
        /\ last' = last /\ timedOut' = timedOut /\ ppc' = ppc
    BY <1>11 DEF Deliver, blocktxVars, mapVars, callVars
  <2>. QED
    BY <2>1, <2>2, <1>0 DEF TypeOK
<1>12. ASSUME NEW c \in Calls, ProcGet(c) PROVE TypeOK'
  <2>1. out' \in [Calls -> Status \cup {NoMsg}] /\ ppc' \in [Calls -> PPCs]
    <3>1. CASE store[StoreOf(inst[c])][tx[c]] = REJECTED
      <4>1. out' = [out EXCEPT ![c] = REJECTED] /\ ppc' = [ppc EXCEPT ![c] = "done"]
        BY <1>12, <3>1 DEF ProcGet
      <4>. QED
        BY <4>1, <1>0 DEF PPCs, Status, REJECTED
    <3>2. CASE store[StoreOf(inst[c])][tx[c]] # REJECTED
      <4>1. out' = [out EXCEPT ![c] = RECEIVED] /\ ppc' = [ppc EXCEPT ![c] = "store"]
        BY <1>12, <3>2 DEF ProcGet
      <4>. QED
        BY <4>1, <1>0 DEF PPCs, Status, RECEIVED
    <3>. QED
      BY <3>1, <3>2
  <2>2. /\ registry' = registry /\ mined' = mined /\ store' = store
        /\ inMap' = inMap /\ entry' = entry /\ announced' = announced
        /\ pc' = pc /\ inst' = inst /\ tx' = tx /\ wait' = wait
        /\ last' = last /\ timedOut' = timedOut /\ chan' = chan
    BY <1>12 DEF ProcGet, blocktxVars, mapVars, callVars
  <2>. QED
    BY <2>1, <2>2, <1>0 DEF TypeOK
<1>13. ASSUME NEW c \in Calls, ProcStore(c) PROVE TypeOK'
  <2>1. /\ store' \in [Insts -> [Txs -> Status \cup {NoRecord}]]
        /\ out' \in [Calls -> Status \cup {NoMsg}] /\ ppc' \in [Calls -> PPCs]
    <3>1. StoreOf(inst[c]) \in Insts /\ tx[c] \in Txs
      BY <1>0, StoreOfType
    <3>2. CASE /\ store' = [store EXCEPT ![StoreOf(inst[c])][tx[c]] = STORED]
               /\ out' = [out EXCEPT ![c] = STORED]
               /\ ppc' = [ppc EXCEPT ![c] = "announce"]
      BY <3>1, <3>2, <1>0 DEF PPCs, Status, STORED
    <3>3. CASE ProcStoreFailed(c)
      BY <3>3, <1>0 DEF ProcStoreFailed, PPCs, Status, STORED
    <3>. QED
      BY <1>13, <3>2, <3>3 DEF ProcStore
  <2>2. /\ registry' = registry /\ mined' = mined /\ inMap' = inMap
        /\ entry' = entry /\ announced' = announced /\ pc' = pc /\ inst' = inst
        /\ tx' = tx /\ wait' = wait /\ last' = last /\ timedOut' = timedOut
        /\ chan' = chan
    BY <1>13 DEF ProcStore, blocktxVars, mapVars, callVars
  <2>. QED
    BY <2>1, <2>2, <1>0 DEF TypeOK
<1>14. ASSUME NEW c \in Calls, ProcAnnounce(c) PROVE TypeOK'
  <2>1. /\ announced' \in [Txs -> Nat]
        /\ out' \in [Calls -> Status \cup {NoMsg}] /\ ppc' \in [Calls -> PPCs]
    BY <1>14, <1>0 DEF ProcAnnounce, PPCs, Status, ANNOUNCED_TO_NETWORK
  <2>2. /\ registry' = registry /\ mined' = mined /\ store' = store
        /\ inMap' = inMap /\ entry' = entry /\ pc' = pc /\ inst' = inst
        /\ tx' = tx /\ wait' = wait /\ last' = last /\ timedOut' = timedOut
        /\ chan' = chan
    BY <1>14 DEF ProcAnnounce, blocktxVars, mapVars, callVars
  <2>. QED
    BY <2>1, <2>2, <1>0 DEF TypeOK
<1>15. ASSUME NEW c \in Calls, ProcAddMap(c) PROVE TypeOK'
  <2>1. inst[c] \in Insts /\ tx[c] \in Txs
    BY <1>0
  <2>2. [status |-> ANNOUNCED_TO_NETWORK, retries |-> 0, call |-> c] \in Entry
    BY MaxRetriesAssumption DEF Entry, Status, ANNOUNCED_TO_NETWORK
  <2>3. inMap' \in [Insts -> SUBSET Txs]
    BY <1>15, <2>1, <1>0 DEF ProcAddMap
  <2>4. entry' \in [Insts -> [Txs -> Entry]]
    BY <1>15, <2>1, <2>2, <1>0 DEF ProcAddMap
  <2>5. ppc' \in [Calls -> PPCs]
    BY <1>15, <1>0 DEF ProcAddMap, PPCs
  <2>6. /\ registry' = registry /\ mined' = mined /\ store' = store
        /\ announced' = announced /\ pc' = pc /\ inst' = inst /\ tx' = tx
        /\ wait' = wait /\ last' = last /\ timedOut' = timedOut
        /\ chan' = chan /\ out' = out
    BY <1>15 DEF ProcAddMap, blocktxVars, callVars
  <2>. QED
    BY <2>3, <2>4, <2>5, <2>6, <1>0 DEF TypeOK
<1>16. ASSUME NEW i \in Insts, NEW t \in Txs, NEW s \in NetStatuses,
              SendStatusForTransaction(i, t, s)
       PROVE TypeOK'
  <2>1. entry[i][t] \in Entry /\ s \in Status /\ StoreOf(i) \in Insts
    BY <1>0, StoreOfType
  <2>2. entry' \in [Insts -> [Txs -> Entry]]
    <3>1. [entry[i][t] EXCEPT !.status = s] \in Entry
      BY <2>1 DEF Entry
    <3>2. entry' = [entry EXCEPT ![i][t] = [entry[i][t] EXCEPT !.status = s]]
      BY <1>16 DEF SendStatusForTransaction
    <3>. QED
      BY <3>1, <3>2, <1>0
  <2>3. store' \in [Insts -> [Txs -> Status \cup {NoRecord}]]
    BY <1>16, <2>1, <1>0 DEF SendStatusForTransaction
  <2>4. out' \in [Calls -> Status \cup {NoMsg}]
    BY <1>16, <2>1, <1>0 DEF SendStatusForTransaction, Entry
  <2>5. /\ registry' = registry /\ mined' = mined /\ inMap' = inMap
        /\ announced' = announced /\ pc' = pc /\ inst' = inst /\ tx' = tx
        /\ wait' = wait /\ last' = last /\ timedOut' = timedOut
        /\ chan' = chan /\ ppc' = ppc
    BY <1>16 DEF SendStatusForTransaction, blocktxVars, callVars
  <2>. QED
    BY <2>2, <2>3, <2>4, <2>5, <1>0 DEF TypeOK
<1>17. ASSUME NEW i \in Insts, NEW t \in Txs,
              SendStatusMinedForTransaction(i, t)
       PROVE TypeOK'
  <2>1. /\ store' \in [Insts -> [Txs -> Status \cup {NoRecord}]]
        /\ inMap' \in [Insts -> SUBSET Txs]
        /\ entry' \in [Insts -> [Txs -> Entry]]
    BY <1>17, <1>0, StoreOfType, NoEntryType DEF SendStatusMinedForTransaction, MapItems, MapDelete, MapIncrementRetry, Status, MINED
  <2>2. /\ registry' = registry /\ mined' = mined /\ announced' = announced
        /\ pc' = pc /\ inst' = inst /\ tx' = tx /\ wait' = wait /\ last' = last
        /\ timedOut' = timedOut /\ chan' = chan /\ out' = out /\ ppc' = ppc
    BY <1>17 DEF SendStatusMinedForTransaction, MapItems, MapDelete, MapIncrementRetry, blocktxVars, callVars
  <2>. QED
    BY <2>1, <2>2, <1>0 DEF TypeOK
<1>18. ASSUME NEW i \in Insts, NEW t \in Txs,
              ProcessExpiredTransaction(i, t)
       PROVE TypeOK'
  <2>1. /\ entry[i][t] \in Entry /\ StoreOf(i) \in Insts
        /\ entry[i][t].retries + 1 \in Nat
    <3>1. entry[i][t] \in Entry /\ StoreOf(i) \in Insts
      BY <1>0, StoreOfType
    <3>2. entry[i][t].retries \in 0..(MaxRetries + 1)
      BY <3>1 DEF Entry
    <3>. QED
      BY <3>1, <3>2, MaxRetriesAssumption
  <2>2. /\ store' \in [Insts -> [Txs -> Status \cup {NoRecord}]]
        /\ inMap' \in [Insts -> SUBSET Txs]
        /\ entry' \in [Insts -> [Txs -> Entry]]
    <3>1. CASE ~RetriesExhausted(entry[i][t].retries + 1)
      <4>1. [entry[i][t] EXCEPT !.retries = entry[i][t].retries + 1] \in Entry
        BY <2>1, <3>1, MaxRetriesAssumption DEF RetriesExhausted, Entry
      <4>2. /\ entry' = [entry EXCEPT ![i][t] =
                           [entry[i][t] EXCEPT !.retries = entry[i][t].retries + 1]]
            /\ store' = store /\ inMap' = inMap
        BY <1>18, <3>1 DEF ProcessExpiredTransaction, MapItems, MapDelete, MapIncrementRetry
      <4>. QED
        BY <4>1, <4>2, <1>0
    <3>2. CASE RetriesExhausted(entry[i][t].retries + 1)
      <4>1. /\ store' = [store EXCEPT ![StoreOf(i)][t] = REJECTED]
            /\ inMap' = [inMap EXCEPT ![i] = @ \ {t}]
            /\ entry' = [entry EXCEPT ![i][t] = NoEntry]
        BY <1>18, <3>2 DEF ProcessExpiredTransaction, MapItems, MapDelete, MapIncrementRetry
      <4>. QED
        BY <4>1, <2>1, <1>0, NoEntryType DEF Status, REJECTED
    <3>. QED
      BY <3>1, <3>2
  <2>3. /\ registry' = registry /\ mined' = mined /\ announced' = announced
        /\ pc' = pc /\ inst' = inst /\ tx' = tx /\ wait' = wait /\ last' = last
        /\ timedOut' = timedOut /\ chan' = chan /\ out' = out /\ ppc' = ppc
    BY <1>18 DEF ProcessExpiredTransaction, MapItems, MapDelete, MapIncrementRetry, blocktxVars, callVars
  <2>. QED
    BY <2>2, <2>3, <1>0 DEF TypeOK
<1>19. ASSUME NEW i \in Insts, Clean(i) PROVE TypeOK'
  <2>1. inMap' \in [Insts -> SUBSET Txs] /\ entry' \in [Insts -> [Txs -> Entry]]
    BY <1>19, <1>0, NoEntryType DEF Clean
  <2>2. /\ registry' = registry /\ mined' = mined /\ store' = store
        /\ announced' = announced /\ pc' = pc /\ inst' = inst /\ tx' = tx
        /\ wait' = wait /\ last' = last /\ timedOut' = timedOut
        /\ chan' = chan /\ out' = out /\ ppc' = ppc
    BY <1>19 DEF Clean, blocktxVars, callVars
  <2>. QED
    BY <2>1, <2>2, <1>0 DEF TypeOK
<1>20. ASSUME NEW t \in Txs, BlockMined(t) PROVE TypeOK'
  <2>1. mined' \in [Txs -> BOOLEAN]
    BY <1>20, <1>0 DEF BlockMined
  <2>2. /\ registry' = registry /\ store' = store /\ inMap' = inMap
        /\ entry' = entry /\ announced' = announced /\ pc' = pc /\ inst' = inst
        /\ tx' = tx /\ wait' = wait /\ last' = last /\ timedOut' = timedOut
        /\ chan' = chan /\ out' = out /\ ppc' = ppc
    BY <1>20 DEF BlockMined, mapVars, callVars
  <2>. QED
    BY <2>1, <2>2, <1>0 DEF TypeOK
<1>21. ASSUME NEW c \in Calls, RegisterTransactionFailed(c) PROVE TypeOK'
  <2>1. pc' \in [Calls -> PCs]
    BY <1>21, <1>0 DEF RegisterTransactionFailed, PCs
  <2>2. registry' \in [Txs -> Insts \cup {NoOwner}]
    <3>1. tx[c] \in Txs /\ RegisteredSource(tx[c], inst[c]) \in Insts
      BY <1>0 DEF RegisteredSource
    <3>. QED
      BY <1>21, <3>1, <1>0 DEF RegisterTransactionFailed
  <2>3. /\ mined' = mined /\ store' = store /\ inMap' = inMap /\ entry' = entry
        /\ announced' = announced /\ inst' = inst /\ tx' = tx /\ wait' = wait
        /\ last' = last /\ timedOut' = timedOut /\ chan' = chan /\ out' = out
        /\ ppc' = ppc
    BY <1>21 DEF RegisterTransactionFailed, mapVars
  <2>. QED
    BY <2>1, <2>2, <2>3, <1>0 DEF TypeOK
<1>22. ASSUME NEW c \in Calls, ForwardFailed(c) PROVE TypeOK'
  <2>1. pc' \in [Calls -> PCs]
    BY <1>22, <1>0 DEF ForwardFailed, Goto, PCs
  <2>2. /\ registry' = registry /\ mined' = mined /\ store' = store
        /\ inMap' = inMap /\ entry' = entry /\ announced' = announced
        /\ inst' = inst /\ tx' = tx /\ wait' = wait /\ last' = last
        /\ timedOut' = timedOut /\ chan' = chan /\ out' = out /\ ppc' = ppc
    BY <1>22 DEF ForwardFailed, blocktxVars, mapVars
  <2>. QED
    BY <2>1, <2>2, <1>0 DEF TypeOK
<1>23. CASE UNCHANGED vars \/ Quiescent
  <2>1. /\ registry' = registry /\ mined' = mined /\ store' = store
        /\ inMap' = inMap /\ entry' = entry /\ announced' = announced
        /\ pc' = pc /\ inst' = inst /\ tx' = tx /\ wait' = wait
        /\ last' = last /\ timedOut' = timedOut /\ chan' = chan
        /\ out' = out /\ ppc' = ppc
    BY <1>23 DEF vars, Quiescent
  <2>. QED
    BY <2>1, <1>0 DEF TypeOK
<1>. QED
  BY <1>1, <1>2, <1>3, <1>4, <1>5, <1>6, <1>7, <1>8, <1>9, <1>10, <1>11,
     <1>12, <1>13, <1>14, <1>15, <1>16, <1>17, <1>18, <1>19, <1>20, <1>21,
     <1>22, <1>23
  DEF Next, Handler, RpcFailure, Processor

(***************************************************************************)
(* Every reachable state is well typed.                                    *)
(***************************************************************************)
THEOREM TypeCorrect == Spec => []TypeOK
BY TypeInit, TypeNext, PTL DEF Spec


-----------------------------------------------------------------------------
(***************************************************************************)
(* Single ownership of stored records.                                     *)
(***************************************************************************)

\* With per-instance stores (not IsCentralised) an instance uses its own.
LEMMA StoreOfLocal == ~Centralised => \A i \in Insts : StoreOf(i) = i
BY DEF StoreOf

(***************************************************************************)
(* A handler step that moves call c from a started state to one that is   *)
(* neither idle nor registering keeps the two bookkeeping conjuncts.       *)
(***************************************************************************)
LEMMA PcStep ==
    ASSUME NEW c \in Calls, NEW v, v \notin {"idle", "register"},
           pc \in [Calls -> PCs], pc[c] # "idle",
           IdleHasNoProcessor, ForwardAfterRegister,
           pc' = [pc EXCEPT ![c] = v], \A d \in Calls \ {c} : ppc'[d] = ppc[d]
    PROVE  IdleHasNoProcessor' /\ ForwardAfterRegister'
<1>1. IdleHasNoProcessor'
  BY DEF IdleHasNoProcessor
<1>2. ForwardAfterRegister'
  <2> SUFFICES ASSUME NEW r \in Reqs,
                      pc'[<<r, "client">>] \in {"idle", "register"}
               PROVE  pc'[<<r, "fwd">>] = "idle"
    BY DEF ForwardAfterRegister
  <2>1. <<r, "client">> \in Calls /\ <<r, "fwd">> \in Calls
    BY CallsFacts, Zenon
  <2>2. <<r, "client">> # c
    BY <2>1
  <2>3. pc[<<r, "fwd">>] = "idle"
    BY <2>1, <2>2 DEF ForwardAfterRegister
  <2>4. <<r, "fwd">> # c
    BY <2>3
  <2>. QED
    BY <2>1, <2>3, <2>4
<1>. QED
  BY <1>1, <1>2

(***************************************************************************)
(* A processor step of a started call keeps them too.                      *)
(***************************************************************************)
LEMMA PpcStep ==
    ASSUME NEW c \in Calls, NEW v, ppc \in [Calls -> PPCs], ppc[c] # "none",
           IdleHasNoProcessor, ForwardAfterRegister,
           pc' = pc, ppc' = [ppc EXCEPT ![c] = v]
    PROVE  IdleHasNoProcessor' /\ ForwardAfterRegister'
BY DEF IdleHasNoProcessor, ForwardAfterRegister

(***************************************************************************)
(* The four ownership facts, each under the steps that can disturb it.     *)
(***************************************************************************)
\* A write to the record of x in the store of x's owner.
LEMMA StoreWrite ==
    ASSUME OwnerOnlyStores, store \in [Insts -> [Txs -> Status \cup {NoRecord}]],
           NEW j \in Insts, NEW x \in Txs, NEW val, registry[x] = j,
           store' = [store EXCEPT ![j][x] = val], registry' = registry
    PROVE  OwnerOnlyStores'
BY DEF OwnerOnlyStores

\* Entries leave the maps, none is added.
LEMMA EntriesShrink ==
    ASSUME EntriesAtOwner, \A i \in Insts : inMap'[i] \subseteq inMap[i],
           registry' = registry
    PROVE  EntriesAtOwner'
BY DEF EntriesAtOwner

\* A handler step of c that starts at a registered step or leaves them.
LEMMA HandlersStep ==
    ASSUME HandlersAtOwner, pc \in [Calls -> PCs], NEW c \in Calls, NEW v,
           pc[c] \in Registered \/ v \notin Registered,
           pc' = [pc EXCEPT ![c] = v], inst' = inst, tx' = tx, registry' = registry
    PROVE  HandlersAtOwner'
BY DEF HandlersAtOwner

\* A processor step of a started processor of c.
LEMMA ProcessorsStep ==
    ASSUME ProcessorsAtOwner, ppc \in [Calls -> PPCs], NEW c \in Calls, NEW v,
           ppc[c] # "none",
           ppc' = [ppc EXCEPT ![c] = v], inst' = inst, tx' = tx, registry' = registry
    PROVE  ProcessorsAtOwner'
BY DEF ProcessorsAtOwner

(***************************************************************************)
(* The three shapes of step that keep the invariant: a handler step of     *)
(* one call, a processor step of one started call, and a step of the       *)
(* processor's loops, which touch no call.  Each is given what its store   *)
(* and map updates do to the two ownership facts about data.               *)
(***************************************************************************)
LEMMA HandlerMove ==
    ASSUME pc \in [Calls -> PCs], NEW c \in Calls, NEW v,
           v \notin {"idle", "register"}, pc[c] # "idle",
           pc[c] \in Registered \/ v \notin Registered,
           IdleHasNoProcessor, ForwardAfterRegister, ~Centralised => OwnerFacts,
           pc' = [pc EXCEPT ![c] = v], ppc' = ppc, registry' = registry,
           inst' = inst, tx' = tx, inMap' = inMap,
           ~Centralised => OwnerOnlyStores'
    PROVE  IdleHasNoProcessor' /\ ForwardAfterRegister' /\ (~Centralised => OwnerFacts')
<1>1. IdleHasNoProcessor' /\ ForwardAfterRegister'
  BY PcStep
<1>2. ASSUME ~Centralised PROVE OwnerFacts'
  <2>1. HandlersAtOwner'
    BY <1>2, HandlersStep DEF OwnerFacts
  <2>. QED
    BY <1>2, <2>1 DEF OwnerFacts, ProcessorsAtOwner, EntriesAtOwner
<1>. QED
  BY <1>1, <1>2

\* A processor step of a started call (ProcessTransaction's store calls).
LEMMA ProcessorMove ==
    ASSUME ppc \in [Calls -> PPCs], NEW c \in Calls, NEW v, ppc[c] # "none",
           IdleHasNoProcessor, ForwardAfterRegister, ~Centralised => OwnerFacts,
           pc' = pc, ppc' = [ppc EXCEPT ![c] = v], registry' = registry,
           inst' = inst, tx' = tx,
           ~Centralised => OwnerOnlyStores' /\ EntriesAtOwner'
    PROVE  IdleHasNoProcessor' /\ ForwardAfterRegister' /\ (~Centralised => OwnerFacts')
<1>1. IdleHasNoProcessor' /\ ForwardAfterRegister'
  BY PpcStep
<1>2. ASSUME ~Centralised PROVE OwnerFacts'
  <2>1. ProcessorsAtOwner'
    BY <1>2, ProcessorsStep DEF OwnerFacts
  <2>. QED
    BY <1>2, <2>1 DEF OwnerFacts, HandlersAtOwner
<1>. QED
  BY <1>1, <1>2

\* A step of the processor's loops or of a peer event, which moves no call.
LEMMA LoopStep ==
    ASSUME IdleHasNoProcessor, ForwardAfterRegister, ~Centralised => OwnerFacts,
           pc' = pc, ppc' = ppc, registry' = registry, inst' = inst, tx' = tx,
           ~Centralised => OwnerOnlyStores' /\ EntriesAtOwner'
    PROVE  IdleHasNoProcessor' /\ ForwardAfterRegister' /\ (~Centralised => OwnerFacts')
BY DEF IdleHasNoProcessor, ForwardAfterRegister, OwnerFacts, HandlersAtOwner,
       ProcessorsAtOwner

\* Before any PutTransaction nothing is stored, registered or started.
LEMMA OwnerInit == Init => OwnerInductive
<1> SUFFICES ASSUME Init PROVE OwnerInductive
  OBVIOUS
<1>1. TypeOK
  BY TypeInit
<1>2. IdleHasNoProcessor /\ ForwardAfterRegister
  BY CallsFacts DEF Init, IdleHasNoProcessor, ForwardAfterRegister
<1>3. OwnerFacts
  BY DEF Init, OwnerFacts, OwnerOnlyStores, HandlersAtOwner, ProcessorsAtOwner,
         EntriesAtOwner, Registered
<1>. QED
  BY <1>1, <1>2, <1>3 DEF OwnerInductive

(***************************************************************************)
(* Every step keeps OwnerInductive.  The one that changes BlockTx is       *)
(* RegisterTransaction, and it never changes a registration already made  *)
(* (first registrant wins), so every fact tied to an owner survives it;   *)
(* a call continues locally only when it runs at the owner; the processor *)
(* starts from a call that has checked the store at the owner; records and *)
(* entries are written by the processor or for an entry of the map.       *)
(***************************************************************************)
LEMMA OwnerNext == OwnerInductive /\ [Next]_vars => OwnerInductive'
<1> SUFFICES ASSUME OwnerInductive, [Next]_vars
             PROVE  IdleHasNoProcessor' /\ ForwardAfterRegister' /\ (~Centralised => OwnerFacts')
  BY TypeNext DEF OwnerInductive
<1>0. /\ registry \in [Txs -> Insts \cup {NoOwner}]
      /\ store \in [Insts -> [Txs -> Status \cup {NoRecord}]]
      /\ inMap \in [Insts -> SUBSET Txs]
      /\ pc \in [Calls -> PCs]
      /\ inst \in [Calls -> Insts]
      /\ tx \in [Calls -> Txs]
      /\ ppc \in [Calls -> PPCs]
  BY DEF OwnerInductive, TypeOK
<1>1. IdleHasNoProcessor /\ ForwardAfterRegister
  BY DEF OwnerInductive
<1>2. ~Centralised => OwnerFacts
  BY DEF OwnerInductive
<1>3. ASSUME NEW r \in Reqs, NEW i \in Insts, NEW t \in Txs, NEW w \in WaitTargets,
             PutTransaction(r, i, t, w)
      PROVE  /\ IdleHasNoProcessor' /\ ForwardAfterRegister'
             /\ ~Centralised => OwnerFacts'
  <2>0. <<r, "client">> \in Calls /\ <<r, "fwd">> \in Calls
    BY CallsFacts, Zenon
  <2>1. /\ pc[<<r, "client">>] = "idle"
        /\ pc' = [pc EXCEPT ![<<r, "client">>] = "register"]
        /\ inst' = [inst EXCEPT ![<<r, "client">>] = i]
        /\ tx' = [tx EXCEPT ![<<r, "client">>] = t]
        /\ registry' = registry /\ store' = store /\ inMap' = inMap /\ ppc' = ppc
    BY <1>3 DEF PutTransaction, Goto, blocktxVars, mapVars
  <2>2. IdleHasNoProcessor'
    BY <2>0, <2>1, <1>0, <1>1 DEF IdleHasNoProcessor
  <2>3. ForwardAfterRegister'
    <3> SUFFICES ASSUME NEW q \in Reqs,
                        pc'[<<q, "client">>] \in {"idle", "register"}
                 PROVE  pc'[<<q, "fwd">>] = "idle"
      BY DEF ForwardAfterRegister
    <3>1. CASE q = r
      BY <3>1, <2>0, <2>1, <1>0, <1>1 DEF ForwardAfterRegister
    <3>2. CASE q # r
      <4>1. <<q, "client">> \in Calls /\ <<q, "fwd">> \in Calls
        BY CallsFacts, Zenon
      <4>. QED
        BY <3>2, <4>1, <2>1, <1>0, <1>1 DEF ForwardAfterRegister
    <3>. QED
      BY <3>1, <3>2
  <2>4. ASSUME ~Centralised PROVE OwnerFacts'
    <3>0. OwnerFacts
      BY <2>4, <1>2
    <3>1. HandlersAtOwner'
      BY <3>0, <2>0, <2>1, <1>0 DEF OwnerFacts, HandlersAtOwner, Registered
    <3>2. ProcessorsAtOwner'
      BY <3>0, <2>0, <2>1, <1>0, <1>1 DEF OwnerFacts, ProcessorsAtOwner, IdleHasNoProcessor
    <3>. QED
      BY <3>0, <3>1, <3>2, <2>1 DEF OwnerFacts, OwnerOnlyStores, EntriesAtOwner
  <2>. QED
    BY <2>2, <2>3, <2>4
<1>4. ASSUME NEW c \in Calls, RegisterTransaction(c)
      PROVE  /\ IdleHasNoProcessor' /\ ForwardAfterRegister'
             /\ ~Centralised => OwnerFacts'
  <2>0. /\ pc[c] = "register"
        /\ registry' = [registry EXCEPT ![tx[c]] = RegisteredSource(tx[c], inst[c])]
        /\ store' = store /\ inMap' = inMap /\ ppc' = ppc
    BY <1>4 DEF RegisterTransaction, mapVars
  <2>1. /\ inst[c] \in Insts /\ tx[c] \in Txs
        /\ RegisteredSource(tx[c], inst[c]) \in Insts
    BY <1>0 DEF RegisteredSource
  \* A registration already made is never changed: first registrant wins.
  <2>2. \A x \in Txs : registry[x] \in Insts => registry'[x] = registry[x]
    BY <2>0, <2>1, <1>0 DEF RegisteredSource
  <2>3. ASSUME ~Centralised, OwnerFacts
        PROVE  OwnerOnlyStores' /\ EntriesAtOwner'
    BY <2>3, <2>0, <2>2, <1>0 DEF OwnerFacts, OwnerOnlyStores, EntriesAtOwner
  <2>4. CASE ~Centralised /\ RegisteredSource(tx[c], inst[c]) # inst[c] /\ IsFwd(c)
    <3>1. pc' = [pc EXCEPT ![c] = "failed"] /\ inst' = inst /\ tx' = tx
      BY <1>4, <2>4 DEF RegisterTransaction
    <3>2. IdleHasNoProcessor' /\ ForwardAfterRegister'
      BY <3>1, <2>0, <1>0, <1>1, PcStep
    <3>3. OwnerFacts'
      <4>0. OwnerFacts
        BY <2>4, <1>2
      <4>1. HandlersAtOwner'
        BY <4>0, <3>1, <2>2, <1>0 DEF OwnerFacts, HandlersAtOwner, Registered
      <4>2. ProcessorsAtOwner'
        BY <4>0, <3>1, <2>0, <2>2, <1>0 DEF OwnerFacts, ProcessorsAtOwner
      <4>. QED
        BY <4>0, <4>1, <4>2, <2>3, <2>4 DEF OwnerFacts
    <3>. QED
      BY <3>2, <3>3
  <2>5. CASE ~Centralised /\ RegisteredSource(tx[c], inst[c]) # inst[c] /\ ~IsFwd(c)
    <3>0. /\ <<c[1], "fwd">> \in Calls /\ <<c[1], "fwd">> # c
          /\ c = <<c[1], "client">>
      BY <2>5, CallsFacts DEF IsFwd, Calls
    <3>1. /\ pc' = [pc EXCEPT ![c] = "forwarding", ![<<c[1], "fwd">>] = "register"]
          /\ inst' = [inst EXCEPT ![<<c[1], "fwd">>] = RegisteredSource(tx[c], inst[c])]
          /\ tx' = [tx EXCEPT ![<<c[1], "fwd">>] = tx[c]]
      BY <1>4, <2>5 DEF RegisterTransaction
    \* The forwarded call was never started.
    <3>2. pc[<<c[1], "fwd">>] = "idle" /\ ppc[<<c[1], "fwd">>] = "none"
      BY <3>0, <2>0, <1>0, <1>1, CallsFacts DEF ForwardAfterRegister, IdleHasNoProcessor
    <3>3. IdleHasNoProcessor'
      BY <3>0, <3>1, <2>0, <1>0, <1>1 DEF IdleHasNoProcessor
    <3>4. ForwardAfterRegister'
      <4> SUFFICES ASSUME NEW q \in Reqs,
                          pc'[<<q, "client">>] \in {"idle", "register"}
                   PROVE  pc'[<<q, "fwd">>] = "idle"
        BY DEF ForwardAfterRegister
      <4>1. <<q, "client">> \in Calls /\ <<q, "fwd">> \in Calls
        BY CallsFacts, Zenon
      <4>2. q # c[1]
        BY <4>1, <3>0, <3>1, <1>0
      <4>3. <<q, "client">> \notin {c, <<c[1], "fwd">>}
            /\ <<q, "fwd">> \notin {c, <<c[1], "fwd">>}
        BY <4>2, <3>0
      <4>. QED
        BY <4>1, <4>3, <3>1, <1>0, <1>1 DEF ForwardAfterRegister
    <3>5. ASSUME ~Centralised PROVE OwnerFacts'
      <4>0. OwnerFacts
        BY <3>5, <1>2
      <4>1. HandlersAtOwner'
        <5> SUFFICES ASSUME NEW d \in Calls, pc'[d] \in Registered
                     PROVE  registry'[tx'[d]] = inst'[d]
          BY DEF HandlersAtOwner
        <5>1. d \notin {c, <<c[1], "fwd">>}
          BY <3>0, <3>1, <1>0 DEF Registered
        <5>. QED
          BY <5>1, <4>0, <3>1, <2>2, <1>0 DEF OwnerFacts, HandlersAtOwner
      <4>2. ProcessorsAtOwner'
        <5> SUFFICES ASSUME NEW d \in Calls, ppc'[d] # "none"
                     PROVE  registry'[tx'[d]] = inst'[d]
          BY DEF ProcessorsAtOwner
        <5>1. d # <<c[1], "fwd">>
          BY <3>2, <2>0
        <5>. QED
          BY <5>1, <4>0, <3>1, <2>0, <2>2, <1>0 DEF OwnerFacts, ProcessorsAtOwner
      <4>. QED
        BY <4>0, <4>1, <4>2, <2>3, <3>5 DEF OwnerFacts
    <3>. QED
      BY <3>3, <3>4, <3>5
  <2>6. CASE ~(~Centralised /\ RegisteredSource(tx[c], inst[c]) # inst[c])
    <3>1. /\ pc' = [pc EXCEPT ![c] = IF mined[tx[c]] THEN "setMined" ELSE "checkStore"]
          /\ inst' = inst /\ tx' = tx
      BY <1>4, <2>6 DEF RegisterTransaction
    <3>2. IdleHasNoProcessor' /\ ForwardAfterRegister'
      <4>1. (IF mined[tx[c]] THEN "setMined" ELSE "checkStore") \notin {"idle", "register"}
        OBVIOUS
      <4>. QED
        BY <4>1, <3>1, <2>0, <1>0, <1>1, PcStep
    <3>3. ASSUME ~Centralised PROVE OwnerFacts'
      <4>0. OwnerFacts
        BY <3>3, <1>2
      \* The call stays local only at the owner.
      <4>1. registry'[tx[c]] = inst[c]
        BY <3>3, <2>6, <2>0, <2>1, <1>0
      <4>2. HandlersAtOwner'
        BY <4>0, <4>1, <3>1, <2>2, <1>0 DEF OwnerFacts, HandlersAtOwner
      <4>3. ProcessorsAtOwner'
        BY <4>0, <3>1, <2>0, <2>2, <1>0 DEF OwnerFacts, ProcessorsAtOwner
      <4>. QED
        BY <4>0, <4>2, <4>3, <2>3, <3>3 DEF OwnerFacts
    <3>. QED
      BY <3>2, <3>3
  <2>. QED
    BY <2>4, <2>5, <2>6

<1>5. ASSUME NEW c \in Calls, ForwardReturned(c)
      PROVE  IdleHasNoProcessor' /\ ForwardAfterRegister' /\ (~Centralised => OwnerFacts')
  <2>0. /\ pc[c] = "forwarding"
        /\ pc' = [pc EXCEPT ![c] = IF pc[<<c[1], "fwd">>] = "returned"
                                   THEN "returned" ELSE "failed"]
        /\ registry' = registry /\ store' = store /\ inMap' = inMap
        /\ inst' = inst /\ tx' = tx /\ ppc' = ppc
    BY <1>5 DEF ForwardReturned, blocktxVars, mapVars
  <2>1. ~Centralised => OwnerOnlyStores'
    BY <2>0, <1>2 DEF OwnerFacts, OwnerOnlyStores
  <2>2. /\ (IF pc[<<c[1], "fwd">>] = "returned" THEN "returned" ELSE "failed")
             \notin {"idle", "register"} \cup Registered
    BY DEF Registered
  <2>. QED
    BY <2>0, <2>1, <2>2, <1>0, <1>1, <1>2, HandlerMove
<1>6. ASSUME NEW c \in Calls, StoreSetMined(c)
      PROVE  IdleHasNoProcessor' /\ ForwardAfterRegister' /\ (~Centralised => OwnerFacts')
  <2>0. /\ pc[c] = "setMined" /\ pc' = [pc EXCEPT ![c] = "updateMined"]
        /\ store' = [store EXCEPT ![StoreOf(inst[c])][tx[c]] = UNKNOWN]
        /\ registry' = registry /\ inMap' = inMap
        /\ inst' = inst /\ tx' = tx /\ ppc' = ppc
    BY <1>6 DEF StoreSetMined, Goto, blocktxVars, mapVars
  <2>1. ASSUME ~Centralised PROVE OwnerOnlyStores'
    <3>1. registry[tx[c]] = inst[c] /\ StoreOf(inst[c]) = inst[c]
      BY <2>1, <2>0, <1>0, <1>2, StoreOfLocal DEF OwnerFacts, HandlersAtOwner, Registered
    <3>. QED
      BY <3>1, <2>0, <2>1, <1>0, <1>2, StoreWrite DEF OwnerFacts
  <2>. QED
    BY <2>0, <2>1, <1>0, <1>1, <1>2, HandlerMove DEF Registered
<1>7. ASSUME NEW c \in Calls, UpdateMined(c)
      PROVE  IdleHasNoProcessor' /\ ForwardAfterRegister' /\ (~Centralised => OwnerFacts')
  <2>0. /\ pc[c] = "updateMined"
        /\ registry' = registry /\ inMap' = inMap
        /\ inst' = inst /\ tx' = tx /\ ppc' = ppc
    BY <1>7 DEF UpdateMined, blocktxVars, mapVars
  <2>1. ~Centralised => registry[tx[c]] = inst[c] /\ StoreOf(inst[c]) = inst[c]
    BY <2>0, <1>0, <1>2, StoreOfLocal DEF OwnerFacts, HandlersAtOwner, Registered
  <2>2. CASE /\ pc' = [pc EXCEPT ![c] = "checkStore"]
             /\ store' = [store EXCEPT ![StoreOf(inst[c])][tx[c]] = MINED]
    <3>1. ~Centralised => OwnerOnlyStores'
      BY <2>0, <2>1, <2>2, <1>0, <1>2, StoreWrite DEF OwnerFacts
    <3>. QED
      BY <3>1, <2>0, <2>2, <1>0, <1>1, <1>2, HandlerMove DEF Registered
  <2>3. CASE pc' = [pc EXCEPT ![c] = "failed"] /\ UNCHANGED store
    <3>1. ~Centralised => OwnerOnlyStores'
      BY <2>0, <2>3, <1>2 DEF OwnerFacts, OwnerOnlyStores
    <3>. QED
      BY <3>1, <2>0, <2>3, <1>0, <1>1, <1>2, HandlerMove DEF Registered
  <2>. QED
    BY <1>7, <2>2, <2>3 DEF UpdateMined
<1>8. ASSUME NEW c \in Calls, CheckStore(c)
      PROVE  IdleHasNoProcessor' /\ ForwardAfterRegister' /\ (~Centralised => OwnerFacts')
  <2>0. /\ pc[c] = "checkStore"
        /\ registry' = registry /\ store' = store /\ inMap' = inMap
        /\ inst' = inst /\ tx' = tx /\ ppc' = ppc
    BY <1>8 DEF CheckStore, blocktxVars, mapVars
  <2>1. ~Centralised => OwnerOnlyStores'
    BY <2>0, <1>2 DEF OwnerFacts, OwnerOnlyStores
  <2>2. \E v \in {"returned", "checkUtxos", "process"} : pc' = [pc EXCEPT ![c] = v]
    BY <1>8 DEF CheckStore
  <2>. QED
    BY <2>0, <2>1, <2>2, <1>0, <1>1, <1>2, HandlerMove DEF Registered
<1>9. ASSUME NEW c \in Calls, CheckUtxos(c)
      PROVE  IdleHasNoProcessor' /\ ForwardAfterRegister' /\ (~Centralised => OwnerFacts')
  <2>0. /\ pc[c] = "checkUtxos"
        /\ registry' = registry /\ store' = store /\ inMap' = inMap
        /\ inst' = inst /\ tx' = tx /\ ppc' = ppc
    BY <1>9 DEF CheckUtxos, blocktxVars, mapVars
  <2>1. ~Centralised => OwnerOnlyStores'
    BY <2>0, <1>2 DEF OwnerFacts, OwnerOnlyStores
  <2>2. \E v \in {"returned", "panicked"} : pc' = [pc EXCEPT ![c] = v]
    BY <1>9 DEF CheckUtxos
  <2>. QED
    BY <2>0, <2>1, <2>2, <1>0, <1>1, <1>2, HandlerMove DEF Registered
<1>10. ASSUME NEW c \in Calls, ProcessTransaction(c)
      PROVE  IdleHasNoProcessor' /\ ForwardAfterRegister' /\ (~Centralised => OwnerFacts')
  <2>0. /\ pc[c] = "process" /\ pc' = [pc EXCEPT ![c] = "waiting"]
        /\ ppc' = [ppc EXCEPT ![c] = "get"]
        /\ registry' = registry /\ store' = store /\ inMap' = inMap
        /\ inst' = inst /\ tx' = tx
    BY <1>10 DEF ProcessTransaction, Goto, blocktxVars, mapVars
  <2>1. IdleHasNoProcessor' /\ ForwardAfterRegister'
    BY <2>0, <1>0, <1>1, PcStep
  <2>2. ASSUME ~Centralised PROVE OwnerFacts'
    <3>0. OwnerFacts
      BY <2>2, <1>2
    \* The processor starts at the instance that checked the store.
    <3>1. registry[tx[c]] = inst[c]
      BY <3>0, <2>0 DEF OwnerFacts, HandlersAtOwner, Registered
    <3>2. HandlersAtOwner'
      BY <3>0, <2>0, <1>0, HandlersStep DEF OwnerFacts, Registered
    <3>3. ProcessorsAtOwner'
      BY <3>0, <3>1, <2>0, <1>0 DEF OwnerFacts, ProcessorsAtOwner
    <3>. QED
      BY <3>0, <3>2, <3>3, <2>0 DEF OwnerFacts, OwnerOnlyStores, EntriesAtOwner
  <2>. QED
    BY <2>1, <2>2
<1>11. ASSUME NEW c \in Calls, ReceiveStatus(c)
      PROVE  IdleHasNoProcessor' /\ ForwardAfterRegister' /\ (~Centralised => OwnerFacts')
  <2>0. /\ pc[c] = "waiting"
        /\ registry' = registry /\ store' = store /\ inMap' = inMap
        /\ inst' = inst /\ tx' = tx /\ ppc' = ppc
    BY <1>11 DEF ReceiveStatus, blocktxVars, mapVars
  <2>1. ~Centralised => OwnerOnlyStores'
    BY <2>0, <1>2 DEF OwnerFacts, OwnerOnlyStores
  <2>2. \E v \in {"returned", "waiting"} : pc' = [pc EXCEPT ![c] = v]
    BY <1>11 DEF ReceiveStatus
  <2>. QED
    BY <2>0, <2>1, <2>2, <1>0, <1>1, <1>2, HandlerMove DEF Registered
<1>12. ASSUME NEW c \in Calls, Timeout(c)
      PROVE  IdleHasNoProcessor' /\ ForwardAfterRegister' /\ (~Centralised => OwnerFacts')
  <2>0. /\ pc[c] = "waiting" /\ pc' = [pc EXCEPT ![c] = "returned"]
        /\ registry' = registry /\ store' = store /\ inMap' = inMap
        /\ inst' = inst /\ tx' = tx /\ ppc' = ppc
    BY <1>12 DEF Timeout, Goto, blocktxVars, mapVars
  <2>1. ~Centralised => OwnerOnlyStores'
    BY <2>0, <1>2 DEF OwnerFacts, OwnerOnlyStores
  <2>. QED
    BY <2>0, <2>1, <1>0, <1>1, <1>2, HandlerMove DEF Registered
<1>13. ASSUME NEW c \in Calls, Deliver(c)
      PROVE  IdleHasNoProcessor' /\ ForwardAfterRegister' /\ (~Centralised => OwnerFacts')
  <2>0. /\ pc' = pc /\ ppc' = ppc /\ registry' = registry /\ store' = store
        /\ inMap' = inMap /\ inst' = inst /\ tx' = tx
    BY <1>13 DEF Deliver, blocktxVars, mapVars, callVars
  <2>. QED
    BY <2>0, <1>1, <1>2, LoopStep DEF OwnerFacts, OwnerOnlyStores, EntriesAtOwner
<1>14. ASSUME NEW c \in Calls, ProcGet(c)
      PROVE  IdleHasNoProcessor' /\ ForwardAfterRegister' /\ (~Centralised => OwnerFacts')
  <2>0. /\ ppc[c] = "get" /\ pc' = pc
        /\ registry' = registry /\ store' = store /\ inMap' = inMap
        /\ inst' = inst /\ tx' = tx
    BY <1>14 DEF ProcGet, blocktxVars, mapVars, callVars
  <2>1. \E v \in {"done", "store"} : ppc' = [ppc EXCEPT ![c] = v]
    BY <1>14 DEF ProcGet
  <2>2. ~Centralised => OwnerOnlyStores' /\ EntriesAtOwner'
    BY <2>0, <1>2 DEF OwnerFacts, OwnerOnlyStores, EntriesAtOwner
  <2>. QED
    BY <2>0, <2>1, <2>2, <1>0, <1>1, <1>2, ProcessorMove
<1>15. ASSUME NEW c \in Calls, ProcStore(c)
      PROVE  IdleHasNoProcessor' /\ ForwardAfterRegister' /\ (~Centralised => OwnerFacts')
  <2>0. /\ ppc[c] = "store" /\ pc' = pc
        /\ registry' = registry /\ inMap' = inMap
        /\ inst' = inst /\ tx' = tx
    BY <1>15 DEF ProcStore, blocktxVars, mapVars, callVars
  <2>1. \E v \in {"announce", "done"} : ppc' = [ppc EXCEPT ![c] = v]
    BY <1>15 DEF ProcStore, ProcStoreFailed
  \* The processor writes the record at the owner only.
  <2>2. ASSUME ~Centralised PROVE OwnerOnlyStores' /\ EntriesAtOwner'
    <3>1. registry[tx[c]] = inst[c] /\ StoreOf(inst[c]) = inst[c]
      BY <2>2, <2>0, <1>0, <1>2, StoreOfLocal DEF OwnerFacts, ProcessorsAtOwner
    <3>2. ASSUME store' = [store EXCEPT ![StoreOf(inst[c])][tx[c]] = STORED]
          PROVE  OwnerOnlyStores'
      BY <3>1, <3>2, <2>0, <2>2, <1>0, <1>2, StoreWrite DEF OwnerFacts
    <3>3. ASSUME store' = store PROVE OwnerOnlyStores'
      BY <3>3, <2>0, <2>2, <1>2 DEF OwnerFacts, OwnerOnlyStores
    <3>4. OwnerOnlyStores'
      BY <1>15, <3>2, <3>3 DEF ProcStore, ProcStoreFailed
    <3>. QED
      BY <3>4, <2>0, <2>2, <1>2 DEF OwnerFacts, EntriesAtOwner
  <2>. QED
    BY <2>0, <2>1, <2>2, <1>0, <1>1, <1>2, ProcessorMove
<1>16. ASSUME NEW c \in Calls, ProcAnnounce(c)
      PROVE  IdleHasNoProcessor' /\ ForwardAfterRegister' /\ (~Centralised => OwnerFacts')
  <2>0. /\ ppc[c] = "announce" /\ pc' = pc /\ ppc' = [ppc EXCEPT ![c] = "addMap"]
        /\ registry' = registry /\ store' = store /\ inMap' = inMap
        /\ inst' = inst /\ tx' = tx
    BY <1>16 DEF ProcAnnounce, blocktxVars, mapVars, callVars
  <2>1. ~Centralised => OwnerOnlyStores' /\ EntriesAtOwner'
    BY <2>0, <1>2 DEF OwnerFacts, OwnerOnlyStores, EntriesAtOwner
  <2>. QED
    BY <2>0, <2>1, <1>0, <1>1, <1>2, ProcessorMove
<1>17. ASSUME NEW c \in Calls, ProcAddMap(c)
      PROVE  IdleHasNoProcessor' /\ ForwardAfterRegister' /\ (~Centralised => OwnerFacts')
  <2>0. /\ ppc[c] = "addMap" /\ pc' = pc /\ ppc' = [ppc EXCEPT ![c] = "done"]
        /\ inMap' = [inMap EXCEPT ![inst[c]] = @ \cup {tx[c]}]
        /\ registry' = registry /\ store' = store
        /\ inst' = inst /\ tx' = tx
    BY <1>17 DEF ProcAddMap, blocktxVars, callVars
  \* The response entry is added at the owner only.
  <2>1. ASSUME ~Centralised PROVE OwnerOnlyStores' /\ EntriesAtOwner'
    <3>1. registry[tx[c]] = inst[c]
      BY <2>1, <2>0, <1>2 DEF OwnerFacts, ProcessorsAtOwner
    <3>. QED
      BY <3>1, <2>0, <2>1, <1>0, <1>2 DEF OwnerFacts, OwnerOnlyStores, EntriesAtOwner
  <2>. QED
    BY <2>0, <2>1, <1>0, <1>1, <1>2, ProcessorMove
<1>18. ASSUME NEW i \in Insts, NEW t \in Txs, NEW s \in NetStatuses, SendStatusForTransaction(i, t, s)
      PROVE  IdleHasNoProcessor' /\ ForwardAfterRegister' /\ (~Centralised => OwnerFacts')
  <2>0. /\ t \in inMap[i]
        /\ store' = [store EXCEPT ![StoreOf(i)][t] = s]
        /\ pc' = pc /\ ppc' = ppc /\ registry' = registry /\ inMap' = inMap
        /\ inst' = inst /\ tx' = tx
    BY <1>18 DEF SendStatusForTransaction, blocktxVars, callVars
  \* A status update goes to a record at the owner.
  <2>1. ASSUME ~Centralised PROVE OwnerOnlyStores' /\ EntriesAtOwner'
    <3>1. registry[t] = i /\ StoreOf(i) = i
      BY <2>1, <2>0, <1>2, StoreOfLocal DEF OwnerFacts, EntriesAtOwner
    <3>2. OwnerOnlyStores'
      BY <3>1, <2>0, <2>1, <1>0, <1>2, StoreWrite DEF OwnerFacts
    <3>. QED
      BY <3>2, <2>0, <2>1, <1>2 DEF OwnerFacts, EntriesAtOwner
  <2>. QED
    BY <2>0, <2>1, <1>1, <1>2, LoopStep
<1>19. ASSUME NEW i \in Insts, NEW t \in Txs, SendStatusMinedForTransaction(i, t)
      PROVE  IdleHasNoProcessor' /\ ForwardAfterRegister' /\ (~Centralised => OwnerFacts')
  <2>0. /\ t \in inMap[i]
        /\ store' = [store EXCEPT ![StoreOf(i)][t] = MINED]
        /\ inMap' = [inMap EXCEPT ![i] = @ \ {t}]
        /\ pc' = pc /\ ppc' = ppc /\ registry' = registry
        /\ inst' = inst /\ tx' = tx
    BY <1>19 DEF SendStatusMinedForTransaction, MapItems, MapDelete, MapIncrementRetry, blocktxVars, callVars
  <2>1. ASSUME ~Centralised PROVE OwnerOnlyStores' /\ EntriesAtOwner'
    <3>1. registry[t] = i /\ StoreOf(i) = i
      BY <2>1, <2>0, <1>2, StoreOfLocal DEF OwnerFacts, EntriesAtOwner
    <3>2. OwnerOnlyStores'
      BY <3>1, <2>0, <2>1, <1>0, <1>2, StoreWrite DEF OwnerFacts
    <3>3. EntriesAtOwner'
      BY <2>0, <2>1, <1>0, <1>2, EntriesShrink DEF OwnerFacts
    <3>. QED
      BY <3>2, <3>3
  <2>. QED
    BY <2>0, <2>1, <1>1, <1>2, LoopStep
<1>20. ASSUME NEW i \in Insts, NEW t \in Txs, ProcessExpiredTransaction(i, t)
      PROVE  IdleHasNoProcessor' /\ ForwardAfterRegister' /\ (~Centralised => OwnerFacts')
  <2>0. /\ t \in inMap[i]
        /\ pc' = pc /\ ppc' = ppc /\ registry' = registry
        /\ inst' = inst /\ tx' = tx
    BY <1>20 DEF ProcessExpiredTransaction, MapItems, MapDelete, MapIncrementRetry, Expired, blocktxVars, callVars
  <2>1. ASSUME ~Centralised PROVE OwnerOnlyStores' /\ EntriesAtOwner'
    <3>1. registry[t] = i /\ StoreOf(i) = i
      BY <2>1, <2>0, <1>2, StoreOfLocal DEF OwnerFacts, EntriesAtOwner
    <3>2. CASE store' = store /\ inMap' = inMap
      BY <3>2, <2>0, <2>1, <1>2 DEF OwnerFacts, OwnerOnlyStores, EntriesAtOwner
    <3>3. CASE /\ store' = [store EXCEPT ![StoreOf(i)][t] = REJECTED]
               /\ inMap' = [inMap EXCEPT ![i] = @ \ {t}]
      <4>1. OwnerOnlyStores'
        BY <3>1, <3>3, <2>0, <2>1, <1>0, <1>2, StoreWrite DEF OwnerFacts
      <4>2. EntriesAtOwner'
        BY <3>3, <2>0, <2>1, <1>0, <1>2, EntriesShrink DEF OwnerFacts
      <4>. QED
        BY <4>1, <4>2
    <3>. QED
      BY <1>20, <3>2, <3>3 DEF ProcessExpiredTransaction, MapItems, MapDelete, MapIncrementRetry
  <2>. QED
    BY <2>0, <2>1, <1>1, <1>2, LoopStep
<1>21. ASSUME NEW i \in Insts, Clean(i)
      PROVE  IdleHasNoProcessor' /\ ForwardAfterRegister' /\ (~Centralised => OwnerFacts')
  <2>0. /\ \A j \in Insts : inMap'[j] \subseteq inMap[j]
        /\ pc' = pc /\ ppc' = ppc /\ registry' = registry /\ store' = store
        /\ inst' = inst /\ tx' = tx
    BY <1>21, <1>0 DEF Clean, blocktxVars, callVars
  <2>1. ~Centralised => OwnerOnlyStores' /\ EntriesAtOwner'
    BY <2>0, <1>2, EntriesShrink DEF OwnerFacts, OwnerOnlyStores
  <2>. QED
    BY <2>0, <2>1, <1>1, <1>2, LoopStep
<1>22. ASSUME NEW t \in Txs, BlockMined(t)
      PROVE  IdleHasNoProcessor' /\ ForwardAfterRegister' /\ (~Centralised => OwnerFacts')
  <2>0. /\ pc' = pc /\ ppc' = ppc /\ registry' = registry /\ store' = store
        /\ inMap' = inMap /\ inst' = inst /\ tx' = tx
    BY <1>22 DEF BlockMined, mapVars, callVars
  <2>. QED
    BY <2>0, <1>1, <1>2, LoopStep DEF OwnerFacts, OwnerOnlyStores, EntriesAtOwner
<1>23. ASSUME NEW c \in Calls, RegisterTransactionFailed(c)
      PROVE  IdleHasNoProcessor' /\ ForwardAfterRegister' /\ (~Centralised => OwnerFacts')
  <2>0. /\ pc[c] = "register" /\ pc' = [pc EXCEPT ![c] = "failed"]
        /\ store' = store /\ inMap' = inMap /\ ppc' = ppc /\ inst' = inst /\ tx' = tx
    BY <1>23 DEF RegisterTransactionFailed, mapVars
  \* As in RegisterTransaction, a registration already made is kept.
  <2>1. \A x \in Txs : registry[x] \in Insts => registry'[x] = registry[x]
    <3>1. tx[c] \in Txs /\ inst[c] \in Insts
      BY <1>0
    <3>. QED
      BY <1>23, <3>1, <1>0 DEF RegisterTransactionFailed, RegisteredSource
  <2>2. IdleHasNoProcessor' /\ ForwardAfterRegister'
    BY <2>0, <1>0, <1>1, PcStep
  <2>3. ASSUME ~Centralised PROVE OwnerFacts'
    <3>0. OwnerFacts
      BY <2>3, <1>2
    <3>1. OwnerOnlyStores' /\ EntriesAtOwner'
      BY <3>0, <2>0, <2>1, <1>0 DEF OwnerFacts, OwnerOnlyStores, EntriesAtOwner
    <3>2. HandlersAtOwner'
      BY <3>0, <2>0, <2>1, <1>0 DEF OwnerFacts, HandlersAtOwner, Registered
    <3>3. ProcessorsAtOwner'
      BY <3>0, <2>0, <2>1, <1>0 DEF OwnerFacts, ProcessorsAtOwner
    <3>. QED
      BY <3>1, <3>2, <3>3 DEF OwnerFacts
  <2>. QED
    BY <2>2, <2>3
<1>24. ASSUME NEW c \in Calls, ForwardFailed(c)
      PROVE  IdleHasNoProcessor' /\ ForwardAfterRegister' /\ (~Centralised => OwnerFacts')
  <2>0. /\ pc[c] = "forwarding" /\ pc' = [pc EXCEPT ![c] = "failed"]
        /\ registry' = registry /\ store' = store /\ inMap' = inMap
        /\ inst' = inst /\ tx' = tx /\ ppc' = ppc
    BY <1>24 DEF ForwardFailed, Goto, blocktxVars, mapVars
  <2>1. ~Centralised => OwnerOnlyStores'
    BY <2>0, <1>2 DEF OwnerFacts, OwnerOnlyStores
  <2>. QED
    BY <2>0, <2>1, <1>0, <1>1, <1>2, HandlerMove DEF Registered
<1>25. CASE UNCHANGED vars \/ Quiescent
  <2>0. /\ pc' = pc /\ ppc' = ppc /\ registry' = registry /\ store' = store
        /\ inMap' = inMap /\ inst' = inst /\ tx' = tx
    BY <1>25 DEF vars, Quiescent
  <2>. QED
    BY <2>0, <1>1, <1>2, LoopStep DEF OwnerFacts, OwnerOnlyStores, EntriesAtOwner
<1>. QED
  BY <1>3, <1>4, <1>5, <1>6, <1>7, <1>8, <1>9, <1>10, <1>11, <1>12, <1>13,
     <1>14, <1>15, <1>16, <1>17, <1>18, <1>19, <1>20, <1>21, <1>22, <1>23,
     <1>24, <1>25
  DEF Next, Handler, RpcFailure, Processor

(***************************************************************************)
(* With per-instance stores (server.go's forwarding branch), every record *)
(* of a transaction is in the store of the instance BlockTx registered as *)
(* its owner, whatever the interleaving of handlers, processors and loops. *)
(***************************************************************************)
THEOREM OwnerOnlyStoresHolds == Spec => []OwnerOnlyStores
<1>1. OwnerInductive => OwnerOnlyStores
  BY DEF OwnerInductive, OwnerFacts, OwnerOnlyStores
<1>. QED
  BY <1>1, OwnerInit, OwnerNext, PTL DEF Spec

(***************************************************************************)
(* OwnerInductive, which the fleet run checks, holds in every reachable    *)
(* state for every value of the constants: no processor without a         *)
(* handler, no forward before registration, and, with per-instance        *)
(* stores, every record, handler, processor and entry at the owner.        *)
(***************************************************************************)
THEOREM OwnerInductiveHolds == Spec => []OwnerInductive
BY OwnerInit, OwnerNext, PTL DEF Spec

=============================================================================
