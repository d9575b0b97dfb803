------------------------------ MODULE Metamorph ------------------------------
(***************************************************************************)
(* A fleet of Metamorph instances serving PutTransaction                   *)
(* (src/metamorph/server.go), the transaction processor each one drives    *)
(* (ProcessTransaction, SendStatusForTransaction, the mined and expiry     *)
(* loops), the in-memory ProcessorResponseMap of each instance             *)
(* (src/metamorph/processor_response_map.go) and the part of BlockTx the   *)
(* servers call: RegisterTransaction, first registrant wins, and whether   *)
(* a transaction has been seen in a block.                                 *)
(*                                                                         *)
(* A call is one PutTransaction handler.  A client request r gives the     *)
(* call <<r, "client">>; when the instance that received it is not the     *)
(* owner of the transaction it forwards the request and the owner runs the *)
(* call <<r, "fwd">>.  Each call has a waiter channel of capacity 1 and,   *)
(* once it hands the request to the processor, a processor activity that   *)
(* sends statuses into that channel.  A send blocks while the waiter is    *)
(* still reading and is dropped once the handler has returned and closed   *)
(* the channel.                                                            *)
(***************************************************************************)
EXTENDS Integers, FiniteSets

CONSTANTS
    Insts,            \* Metamorph instances (their source/host names)
    Txs,              \* transaction hashes
    Reqs,             \* client PutTransaction requests
    Centralised,      \* store.IsCentralised(): one store shared by the fleet
    UtxoCheckInsts,   \* instances started WithForceCheckUtxos
    MaxRetries,       \* processor: re-announcements before an entry expires
    WaitTargets,      \* WaitForStatus values clients send
    NetStatuses,      \* statuses peers report for an announced transaction
    NoOwner           \* BlockTx has no registration for the hash

(***************************************************************************)
(* metamorph_api.Status and the ordinals of hasWaitForStatusReached.       *)
(***************************************************************************)
UNKNOWN == 0
QUEUED == 1
RECEIVED == 2
STORED == 3
ANNOUNCED_TO_NETWORK == 4
REQUESTED_BY_NETWORK == 5
SENT_TO_NETWORK == 6
REJECTED == 7
SEEN_IN_ORPHAN_MEMPOOL == 8
ACCEPTED_BY_NETWORK == 9
SEEN_ON_NETWORK == 10
MINED == 11
CONFIRMED == 12
Status == 0..12

NoRecord == -1      \* store.Get returns ErrNotFound
NoMsg == -1         \* nothing in a channel or pending send

Calls == Reqs \X {"client", "fwd"}
IsFwd(c) == c[2] = "fwd"

ASSUME InstsAssumption == Insts # {} /\ NoOwner \notin Insts
ASSUME ReqsAssumption == Reqs # {} /\ Txs # {}
ASSUME FlagsAssumption == Centralised \in BOOLEAN /\ UtxoCheckInsts \subseteq Insts
ASSUME MaxRetriesAssumption == MaxRetries \in Nat
ASSUME StatusSetsAssumption == WaitTargets \subseteq Status /\ NetStatuses \subseteq Status

(***************************************************************************)
(* With a centralised store every instance reads and writes the same      *)
(* table; otherwise each instance has its own.                            *)
(***************************************************************************)
SharedStore == CHOOSE j \in Insts : TRUE
StoreOf(i) == IF Centralised THEN SharedStore ELSE i

\* Server handler steps, then the terminal ones.
PCs == {"idle", "register", "forwarding", "setMined", "updateMined",
        "checkStore", "checkUtxos", "process", "waiting",
        "returned", "failed", "panicked"}
Final == {"returned", "failed", "panicked"}
\* Processor steps of ProcessTransaction for one call.
PPCs == {"none", "get", "store", "announce", "addMap", "done"}
InFlight == {"store", "announce", "addMap"}

Entry == [status : Status, retries : 0..(MaxRetries + 1), call : Calls]
\* The value kept for a hash that is not in the map.
NoEntry == [status |-> UNKNOWN, retries |-> 0, call |-> CHOOSE c \in Calls : TRUE]

VARIABLES
    registry,   \* BlockTx: owner source registered for each hash
    mined,      \* BlockTx: the hash has been seen in a block
    store,      \* per store: status of the record of each hash, or NoRecord
    inMap,      \* per instance: hashes present in ProcessorResponseMap
    entry,      \* per instance: the ProcessorResponse of each present hash
    announced,  \* announcements made by ProcessTransaction, per hash
    pc,         \* per call: where the handler is
    inst,       \* per call: the instance running it
    tx,         \* per call: the hash of the raw transaction
    wait,       \* per call: the status it waits for
    last,       \* per call: returnedStatus.Status
    timedOut,   \* per call: returnedStatus.TimedOut
    chan,       \* per call: the response channel (capacity 1)
    out,        \* per call: a status the processor is blocked sending
    ppc         \* per call: where its processor is

blocktxVars == <<registry, mined>>
mapVars == <<inMap, entry>>
callVars == <<pc, inst, tx, wait, last, timedOut>>
vars == <<registry, mined, store, inMap, entry, announced, pc, inst, tx,
          wait, last, timedOut, chan, out, ppc>>

TypeOK ==
    /\ registry \in [Txs -> Insts \cup {NoOwner}]
    /\ mined \in [Txs -> BOOLEAN]
    /\ store \in [Insts -> [Txs -> Status \cup {NoRecord}]]
    /\ inMap \in [Insts -> SUBSET Txs]
    /\ entry \in [Insts -> [Txs -> Entry]]
    /\ announced \in [Txs -> Nat]
    /\ pc \in [Calls -> PCs]
    /\ inst \in [Calls -> Insts]
    /\ tx \in [Calls -> Txs]
    /\ wait \in [Calls -> Status]
    /\ last \in [Calls -> Status]
    /\ timedOut \in [Calls -> BOOLEAN]
    /\ chan \in [Calls -> Status \cup {NoMsg}]
    /\ out \in [Calls -> Status \cup {NoMsg}]
    /\ ppc \in [Calls -> PPCs]

Init ==
    /\ registry = [t \in Txs |-> NoOwner]
    /\ mined = [t \in Txs |-> FALSE]
    /\ store = [i \in Insts |-> [t \in Txs |-> NoRecord]]
    /\ inMap = [i \in Insts |-> {}]
    /\ entry = [i \in Insts |-> [t \in Txs |-> NoEntry]]
    /\ announced = [t \in Txs |-> 0]
    /\ pc = [c \in Calls |-> "idle"]
    /\ inst = [c \in Calls |-> CHOOSE i \in Insts : TRUE]
    /\ tx = [c \in Calls |-> CHOOSE t \in Txs : TRUE]
    /\ wait = [c \in Calls |-> SEEN_ON_NETWORK]
    /\ last = [c \in Calls |-> UNKNOWN]
    /\ timedOut = [c \in Calls |-> FALSE]
    /\ chan = [c \in Calls |-> NoMsg]
    /\ out = [c \in Calls |-> NoMsg]
    /\ ppc = [c \in Calls |-> "none"]

Goto(c, from, to) ==
    /\ pc[c] = from
    /\ pc' = [pc EXCEPT ![c] = to]

\* hasWaitForStatusReached: the ordinal comparison of the status map.
HasWaitForStatusReached(s, w) == s >= w

(***************************************************************************)
(* PutTransaction: a client sends request r with raw transaction t to      *)
(* instance i.  A WaitForStatus of 0 means SEEN_ON_NETWORK.                *)
(***************************************************************************)
PutTransaction(r, i, t, w) ==
    LET c == <<r, "client">> IN
    /\ Goto(c, "idle", "register")
    /\ inst' = [inst EXCEPT ![c] = i]
    /\ tx' = [tx EXCEPT ![c] = t]
    /\ wait' = [wait EXCEPT ![c] = IF w = UNKNOWN THEN SEEN_ON_NETWORK ELSE w]
    /\ UNCHANGED <<blocktxVars, store, mapVars, announced, last, timedOut,
                   chan, out, ppc>>

(***************************************************************************)
(* putTransactionInit up to the store check: RegisterTransaction with      *)
(* BlockTx, which keeps the first source registered for the hash and       *)
(* returns it with the block hash if the transaction is mined.  A          *)
(* non-owner with a local store forwards the request to the owner, unless  *)
(* the request was itself forwarded (endless forwarding loop error).  A    *)
(* mined transaction goes to the store-then-UpdateMined path.              *)
(***************************************************************************)
\* Mutant: BlockTx lets the last registrant win.
RegisteredSourceLastWins(t, i) == i

\* BlockTx RegisterTransaction: the source first registered for the hash.
RegisteredSource(t, i) == IF registry[t] = NoOwner THEN i ELSE registry[t]

RegisterTransaction(c) ==
    LET i == inst[c]
        t == tx[c]
        source == RegisteredSource(t, i)
        f == <<c[1], "fwd">>
    IN
    /\ pc[c] = "register"
    /\ registry' = [registry EXCEPT ![t] = source]
    /\ IF ~Centralised /\ source # i
       THEN IF IsFwd(c)
            THEN /\ pc' = [pc EXCEPT ![c] = "failed"]
                 /\ UNCHANGED <<inst, tx, wait>>
            ELSE /\ pc' = [pc EXCEPT ![c] = "forwarding", ![f] = "register"]
                 /\ inst' = [inst EXCEPT ![f] = source]
                 /\ tx' = [tx EXCEPT ![f] = t]
                 /\ wait' = [wait EXCEPT ![f] = wait[c]]
       ELSE /\ pc' = [pc EXCEPT ![c] = IF mined[t] THEN "setMined" ELSE "checkStore"]
            /\ UNCHANGED <<inst, tx, wait>>
    /\ UNCHANGED <<mined, store, mapVars, announced, last, timedOut, chan, out, ppc>>

(***************************************************************************)
(* RegisterTransaction returns an error: the handler returns it.  BlockTx  *)
(* may have made the registration before the answer was lost.              *)
(***************************************************************************)
RegisterTransactionFailed(c) ==
    /\ pc[c] = "register"
    /\ pc' = [pc EXCEPT ![c] = "failed"]
    /\ registry' \in {registry,
                      [registry EXCEPT ![tx[c]] = RegisteredSource(tx[c], inst[c])]}
    /\ UNCHANGED <<mined, store, mapVars, announced, inst, tx, wait, last,
                   timedOut, chan, out, ppc>>

(***************************************************************************)
(* The forwarded PutTransaction returns: its status is returned as is, and *)
(* its error is returned as the error of this call.                        *)
(***************************************************************************)
\* Mutant: only a forwarded call that returned a status is waited for.
ForwardDoneReturnedOnly(f) == pc[f] = "returned"

\* The forwarded PutTransaction RPC has completed.
ForwardDone(f) == pc[f] \in Final

ForwardReturned(c) ==
    LET f == <<c[1], "fwd">> IN
    /\ pc[c] = "forwarding"
    /\ ForwardDone(f)
    /\ pc' = [pc EXCEPT ![c] = IF pc[f] = "returned" THEN "returned" ELSE "failed"]
    /\ last' = [last EXCEPT ![c] = last[f]]
    /\ timedOut' = [timedOut EXCEPT ![c] = timedOut[f]]
    /\ UNCHANGED <<blocktxVars, store, mapVars, announced, inst, tx, wait,
                   chan, out, ppc>>

(***************************************************************************)
(* dialMetamorph or the forwarded PutTransaction returns an error (the     *)
(* owner is unreachable or the call's context ends): the error is returned *)
(* while the owner may still be running the forwarded request.             *)
(***************************************************************************)
ForwardFailed(c) ==
    /\ Goto(c, "forwarding", "failed")
    /\ UNCHANGED <<blocktxVars, store, mapVars, announced, inst, tx, wait, last,
                   timedOut, chan, out, ppc>>

(***************************************************************************)
(* A mined transaction unknown to this metamorph is first stored with the  *)
(* status of the handler (UNKNOWN) by store.Set, which overwrites any      *)
(* record; an error of Set is only logged.                                 *)
(***************************************************************************)
StoreSetMined(c) ==
    /\ Goto(c, "setMined", "updateMined")
    /\ store' = [store EXCEPT ![StoreOf(inst[c])][tx[c]] = UNKNOWN]
    /\ UNCHANGED <<blocktxVars, mapVars, announced, inst, tx, wait, last,
                   timedOut, chan, out, ppc>>

\* store.UpdateMined, whose error is returned to the caller.
UpdateMined(c) ==
    /\ pc[c] = "updateMined"
    /\ \/ /\ pc' = [pc EXCEPT ![c] = "checkStore"]
          /\ store' = [store EXCEPT ![StoreOf(inst[c])][tx[c]] = MINED]
       \/ /\ pc' = [pc EXCEPT ![c] = "failed"]
          /\ UNCHANGED store
    /\ UNCHANGED <<blocktxVars, mapVars, announced, inst, tx, wait, last,
                   timedOut, chan, out, ppc>>

(***************************************************************************)
(* checkStore: a record already in the store is returned as the answer;    *)
(* otherwise the UTXO check (when forced) and then processing.             *)
(***************************************************************************)
CheckStore(c) ==
    LET rec == store[StoreOf(inst[c])][tx[c]] IN
    /\ pc[c] = "checkStore"
    /\ IF rec # NoRecord
       THEN /\ pc' = [pc EXCEPT ![c] = "returned"]
            /\ last' = [last EXCEPT ![c] = rec]
       ELSE /\ pc' = [pc EXCEPT ![c] = IF inst[c] \in UtxoCheckInsts THEN "checkUtxos" ELSE "process"]
            /\ UNCHANGED last
    /\ UNCHANGED <<blocktxVars, store, mapVars, announced, inst, tx, wait,
                   timedOut, chan, out, ppc>>

(***************************************************************************)
(* CheckUtxos and the lines after it: a missing input gives a REJECTED     *)
(* status; when every input is found err is nil and err.Error() is called  *)
(* on it before the nil check, which panics in the handler.                *)
(***************************************************************************)
CheckUtxos(c) ==
    /\ pc[c] = "checkUtxos"
    /\ \/ /\ pc' = [pc EXCEPT ![c] = "returned"]
          /\ last' = [last EXCEPT ![c] = REJECTED]
       \/ /\ pc' = [pc EXCEPT ![c] = "panicked"]
          /\ UNCHANGED last
    /\ UNCHANGED <<blocktxVars, store, mapVars, announced, inst, tx, wait,
                   timedOut, chan, out, ppc>>

(***************************************************************************)
(* processTransaction: open the response channel, hand the request to the  *)
(* processor and start waiting.                                            *)
(***************************************************************************)
ProcessTransaction(c) ==
    /\ Goto(c, "process", "waiting")
    /\ chan' = [chan EXCEPT ![c] = NoMsg]
    /\ ppc' = [ppc EXCEPT ![c] = "get"]
    /\ UNCHANGED <<blocktxVars, store, mapVars, announced, inst, tx, wait,
                   last, timedOut, out>>

(***************************************************************************)
(* The wait loop: a status read from the channel becomes the returned      *)
(* status and ends the wait once it has reached the target.                *)
(***************************************************************************)
ReceiveStatus(c) ==
    /\ pc[c] = "waiting"
    /\ chan[c] # NoMsg
    /\ last' = [last EXCEPT ![c] = chan[c]]
    /\ chan' = [chan EXCEPT ![c] = NoMsg]
    /\ pc' = [pc EXCEPT ![c] = IF HasWaitForStatusReached(chan[c], wait[c])
                                THEN "returned" ELSE "waiting"]
    /\ UNCHANGED <<blocktxVars, store, mapVars, announced, inst, tx, wait,
                   timedOut, out, ppc>>

\* The response timer fires: the best-known status is returned, timed out.
Timeout(c) ==
    /\ Goto(c, "waiting", "returned")
    /\ timedOut' = [timedOut EXCEPT ![c] = TRUE]
    /\ UNCHANGED <<blocktxVars, store, mapVars, announced, inst, tx, wait,
                   last, chan, out, ppc>>

(***************************************************************************)
(* A blocked send completes: into the channel while the handler waits, or  *)
(* dropped once the handler has returned and closed the channel.           *)
(***************************************************************************)
Deliver(c) ==
    /\ out[c] # NoMsg
    /\ \/ /\ pc[c] = "waiting"
          /\ chan[c] = NoMsg
          /\ chan' = [chan EXCEPT ![c] = out[c]]
       \/ /\ pc[c] # "waiting"
          /\ UNCHANGED chan
    /\ out' = [out EXCEPT ![c] = NoMsg]
    /\ UNCHANGED <<blocktxVars, store, mapVars, announced, callVars, ppc>>

(***************************************************************************)
(* The processor's ProcessTransaction for call c, one step per store or    *)
(* peer-manager call.  Work on one hash is serialised per instance: a      *)
(* second call for the hash starts only when no other is in flight.  A     *)
(* hash whose record is REJECTED is answered REJECTED; otherwise RECEIVED, *)
(* the record is written STORED, the hash announced, and its response     *)
(* entry, holding c's channel, put into the map.  Each status is sent to   *)
(* the channel before the next step.                                       *)
(***************************************************************************)
ProcGet(c) ==
    LET rec == store[StoreOf(inst[c])][tx[c]] IN
    /\ ppc[c] = "get"
    /\ out[c] = NoMsg
    /\ ~\E d \in Calls \ {c} :
            inst[d] = inst[c] /\ tx[d] = tx[c] /\ ppc[d] \in InFlight
    /\ IF rec = REJECTED
       THEN /\ out' = [out EXCEPT ![c] = REJECTED]
            /\ ppc' = [ppc EXCEPT ![c] = "done"]
       ELSE /\ out' = [out EXCEPT ![c] = RECEIVED]
            /\ ppc' = [ppc EXCEPT ![c] = "store"]
    /\ UNCHANGED <<blocktxVars, store, mapVars, announced, callVars, chan>>

\* Mutant: the error of store.Set is only logged and processing goes on.
ProcStoreFailedIgnored(c) ==
    /\ out' = [out EXCEPT ![c] = STORED]
    /\ ppc' = [ppc EXCEPT ![c] = "announce"]
    /\ UNCHANGED store

(***************************************************************************)
(* store.Set of the STORED record.  A failed write is reported to the      *)
(* caller with the STORED status and its error, and processing stops.      *)
(***************************************************************************)
ProcStoreFailed(c) ==
    /\ out' = [out EXCEPT ![c] = STORED]
    /\ ppc' = [ppc EXCEPT ![c] = "done"]
    /\ UNCHANGED store

ProcStore(c) ==
    /\ ppc[c] = "store"
    /\ out[c] = NoMsg
    /\ \/ /\ store' = [store EXCEPT ![StoreOf(inst[c])][tx[c]] = STORED]
          /\ out' = [out EXCEPT ![c] = STORED]
          /\ ppc' = [ppc EXCEPT ![c] = "announce"]
       \/ ProcStoreFailed(c)
    /\ UNCHANGED <<blocktxVars, mapVars, announced, callVars, chan>>

ProcAnnounce(c) ==
    /\ ppc[c] = "announce"
    /\ out[c] = NoMsg
    /\ announced' = [announced EXCEPT ![tx[c]] = @ + 1]
    /\ out' = [out EXCEPT ![c] = ANNOUNCED_TO_NETWORK]
    /\ ppc' = [ppc EXCEPT ![c] = "addMap"]
    /\ UNCHANGED <<blocktxVars, store, mapVars, callVars, chan>>

\* ProcessorResponseMap.Set: the entry for the hash is (re)placed.
ProcAddMap(c) ==
    /\ ppc[c] = "addMap"
    /\ out[c] = NoMsg
    /\ inMap' = [inMap EXCEPT ![inst[c]] = @ \cup {tx[c]}]
    /\ entry' = [entry EXCEPT ![inst[c]][tx[c]] =
                    [status |-> ANNOUNCED_TO_NETWORK, retries |-> 0, call |-> c]]
    /\ ppc' = [ppc EXCEPT ![c] = "done"]
    /\ UNCHANGED <<blocktxVars, store, announced, callVars, chan, out>>

(***************************************************************************)
(* SendStatusForTransaction(hash, s) from a peer event at instance i: a    *)
(* hash absent from the map is ignored; a REJECTED entry takes no further  *)
(* status; otherwise s is taken when it is REJECTED or not behind the      *)
(* current status.  The store is updated and s sent to the entry's        *)
(* channel.                                                                *)
(***************************************************************************)
\* Mutant: a REJECTED entry is not terminal.
StatusAcceptedNotTerminal(cur, s) == s = REJECTED \/ s >= cur

StatusAccepted(cur, s) == cur # REJECTED /\ (s = REJECTED \/ s >= cur)

SendStatusForTransaction(i, t, s) ==
    LET e == entry[i][t] IN
    /\ t \in inMap[i]
    /\ announced[t] > 0
    /\ StatusAccepted(e.status, s)
    /\ out[e.call] = NoMsg
    /\ entry' = [entry EXCEPT ![i][t].status = s]
    /\ store' = [store EXCEPT ![StoreOf(i)][t] = s]
    /\ out' = [out EXCEPT ![e.call] = s]
    /\ UNCHANGED <<blocktxVars, inMap, announced, callVars, chan, ppc>>

(***************************************************************************)
(* The check-if-mined loop: an entry SEEN_ON_NETWORK or ACCEPTED_BY_NETWORK *)
(* whose hash BlockTx reports in a block is stored MINED and deleted from *)
(* the map (SendStatusMinedForTransaction).                                *)
(***************************************************************************)
\* Mutant: every hash asked about is taken as mined.
MinedInBlockTxAlways(t) == TRUE

\* GetTransactionBlocks returns a block for the hash.
MinedInBlockTx(t) == mined[t]

(***************************************************************************)
(* ProcessorResponseMap.Items with a filter on the status: the hashes of   *)
(* the entries whose status is in S.                                       *)
(***************************************************************************)
MapItems(i, S) == {t \in inMap[i] : entry[i][t].status \in S}

\* Mutant: Delete clears the entry but leaves its hash in the map.
MapDeleteKeepKey(i, t) ==
    /\ inMap' = inMap
    /\ entry' = [entry EXCEPT ![i][t] = NoEntry]

\* ProcessorResponseMap.Delete: the entry for the hash is removed.
MapDelete(i, t) ==
    /\ inMap' = [inMap EXCEPT ![i] = @ \ {t}]
    /\ entry' = [entry EXCEPT ![i][t] = NoEntry]

\* ProcessorResponseMap.IncrementRetry: the entry's retry counter goes up.
MapIncrementRetry(i, t) ==
    entry' = [entry EXCEPT ![i][t].retries = @ + 1]

SendStatusMinedForTransaction(i, t) ==
    /\ t \in MapItems(i, {SEEN_ON_NETWORK, ACCEPTED_BY_NETWORK})
    /\ MinedInBlockTx(t)
    /\ store' = [store EXCEPT ![StoreOf(i)][t] = MINED]
    /\ MapDelete(i, t)
    /\ UNCHANGED <<blocktxVars, announced, callVars, chan, out, ppc>>

(***************************************************************************)
(* An entry is expired when it is older than the expiry window, long after *)
(* the response timeout of the handler that created it.                   *)
(***************************************************************************)
Expired(i, t) == t \in inMap[i] /\ pc[entry[i][t].call] # "waiting"

(***************************************************************************)
(* The expiry loop: an expired entry short of SEEN_ON_NETWORK has its      *)
(* retry counter incremented and is announced again, or, past MaxRetries,  *)
(* is stored REJECTED and deleted.                                         *)
(***************************************************************************)
\* Mutant: the retry cap is never reached.
RetriesExhaustedNever(n) == FALSE

RetriesExhausted(n) == n > MaxRetries

ProcessExpiredTransaction(i, t) ==
    LET n == entry[i][t].retries + 1 IN
    /\ Expired(i, t)
    /\ entry[i][t].status < SEEN_ON_NETWORK
    /\ IF ~RetriesExhausted(n)
       THEN /\ MapIncrementRetry(i, t)
            /\ UNCHANGED <<store, inMap>>
       ELSE /\ store' = [store EXCEPT ![StoreOf(i)][t] = REJECTED]
            /\ MapDelete(i, t)
    /\ UNCHANGED <<blocktxVars, announced, callVars, chan, out, ppc>>

(***************************************************************************)
(* ProcessorResponseMap.Clean, every cleanUpInterval: every expired entry  *)
(* is deleted, whatever its status, and nothing is written to the store.   *)
(***************************************************************************)
Clean(i) ==
    \E old \in SUBSET {t \in Txs : Expired(i, t)} :
        /\ old # {}
        /\ inMap' = [inMap EXCEPT ![i] = @ \ old]
        /\ entry' = [entry EXCEPT ![i] = [t \in Txs |-> IF t \in old THEN NoEntry ELSE @[t]]]
        /\ UNCHANGED <<blocktxVars, store, announced, callVars, chan, out, ppc>>

\* BlockTx processes a block that holds the transaction.
BlockMined(t) ==
    /\ ~mined[t]
    /\ mined' = [mined EXCEPT ![t] = TRUE]
    /\ UNCHANGED <<registry, store, mapVars, announced, callVars, chan, out, ppc>>

\* Every client request has been answered: the fleet idles.
Quiescent ==
    /\ \A r \in Reqs : pc[<<r, "client">>] \in Final
    /\ UNCHANGED vars

Handler(c) ==
    \/ RegisterTransaction(c) \/ ForwardReturned(c) \/ StoreSetMined(c)
    \/ UpdateMined(c) \/ CheckStore(c) \/ CheckUtxos(c)
    \/ ProcessTransaction(c) \/ ReceiveStatus(c) \/ Timeout(c)

\* Errors of the RPCs a handler makes.
RpcFailure(c) == RegisterTransactionFailed(c) \/ ForwardFailed(c)

Processor(c) ==
    ProcGet(c) \/ ProcStore(c) \/ ProcAnnounce(c) \/ ProcAddMap(c) \/ Deliver(c)

Next ==
    \/ \E r \in Reqs, i \in Insts, t \in Txs, w \in WaitTargets : PutTransaction(r, i, t, w)
    \/ \E c \in Calls : Handler(c) \/ RpcFailure(c) \/ Processor(c)
    \/ \E i \in Insts, t \in Txs, s \in NetStatuses : SendStatusForTransaction(i, t, s)
    \/ \E i \in Insts, t \in Txs :
          SendStatusMinedForTransaction(i, t) \/ ProcessExpiredTransaction(i, t)
    \/ \E i \in Insts : Clean(i)
    \/ \E t \in Txs : BlockMined(t)
    \/ Quiescent

(***************************************************************************)
(* Handler goroutines, processor goroutines and the response timer run     *)
(* whenever they can, and BlockTx answers RegisterTransaction.  RPC        *)
(* errors may happen but need not: a forwarded call without a deadline    *)
(* can wait for its owner forever.  Clients, peers, blocks and the        *)
(* background tickers are not assumed to act.                             *)
(***************************************************************************)
Fairness == \A c \in Calls : WF_vars(Handler(c)) /\ WF_vars(Processor(c))

Spec == Init /\ [][Next]_vars /\ Fairness

-----------------------------------------------------------------------------
(***************************************************************************)
(* Properties.                                                             *)
(***************************************************************************)

(***************************************************************************)
(* Single owner (spec 8.4, scenario S3): with per-instance stores, a       *)
(* record of a hash exists only in the store of the instance BlockTx       *)
(* registered as its owner; every other instance forwards                  *)
(* (putTransactionInit's forwarding branch).                               *)
(***************************************************************************)
OwnerOnlyStores ==
    ~Centralised =>
        \A i \in Insts, t \in Txs : store[i][t] # NoRecord => registry[t] = i

(***************************************************************************)
(* Spec 8.1: a record is MINED only for a hash BlockTx has seen in a       *)
(* block, whether it got there through the check-if-mined loop or through  *)
(* the resubmission of a mined transaction in putTransactionInit.          *)
(***************************************************************************)
MinedHasBlock ==
    \A i \in Insts, t \in Txs : store[i][t] = MINED => mined[t]

(***************************************************************************)
(* The status order of spec 4.3: forward only, REJECTED from any status    *)
(* that is not terminal, and MINED over REJECTED.                          *)
(***************************************************************************)
Advances(a, b) ==
    \/ b = a
    \/ a \notin {REJECTED, MINED} /\ (b > a \/ b = REJECTED)
    \/ a = REJECTED /\ b = MINED

(***************************************************************************)
(* Spec 8.5: the stored status of a transaction never moves backwards,     *)
(* whatever the server, the processor and the loops do to the record.      *)
(***************************************************************************)
StoreStatusMonotonic ==
    [][\A j \in Insts, t \in Txs :
          store[j][t] # NoRecord => Advances(store[j][t], store'[j][t])]_vars

(***************************************************************************)
(* Scenario S3: a transaction is announced to the network by exactly one   *)
(* ProcessTransaction across the fleet, however many times and to however  *)
(* many instances it is submitted.                                         *)
(***************************************************************************)
AnnouncedOnce == \A t \in Txs : announced[t] <= 1

(***************************************************************************)
(* Every client PutTransaction is answered (a status, timed out or not, or *)
(* an error), including one forwarded to the owner.                        *)
(***************************************************************************)
RequestsAnswered ==
    \A r \in Reqs : pc[<<r, "client">>] = "register" ~> pc[<<r, "client">>] \in Final

(***************************************************************************)
(* OwnerOnlyStores made inductive.  A call that was never submitted has no *)
(* processor, and a client call that has not registered yet has not       *)
(* forwarded its request.  With per-instance stores, a handler past       *)
(* registration and short of the processor, a processor that has started, *)
(* and a response entry, all run at the registered owner of their hash.   *)
(***************************************************************************)
Registered == {"setMined", "updateMined", "checkStore", "checkUtxos", "process"}

IdleHasNoProcessor == \A c \in Calls : pc[c] = "idle" => ppc[c] = "none"

ForwardAfterRegister ==
    \A r \in Reqs : pc[<<r, "client">>] \in {"idle", "register"} => pc[<<r, "fwd">>] = "idle"

HandlersAtOwner == \A c \in Calls : pc[c] \in Registered => registry[tx[c]] = inst[c]

ProcessorsAtOwner == \A c \in Calls : ppc[c] # "none" => registry[tx[c]] = inst[c]

EntriesAtOwner == \A i \in Insts : \A t \in inMap[i] : registry[t] = i

OwnerFacts == OwnerOnlyStores /\ HandlersAtOwner /\ ProcessorsAtOwner /\ EntriesAtOwner

OwnerInductive ==
    /\ TypeOK
    /\ IdleHasNoProcessor
    /\ ForwardAfterRegister
    /\ ~Centralised => OwnerFacts


-----------------------------------------------------------------------------
(***************************************************************************)
(* The store and the response map in step with BlockTx and the processor. *)
(* Peers report inv, getdata and reject observations; MINED comes only    *)
(* from BlockTx, through the check-if-mined loop and putTransactionInit.  *)
(***************************************************************************)
PeersNeverReportMined == MINED \notin NetStatuses

\* A handler on the mined path was sent there by BlockTx's block hash.
MinedAhead == \A c \in Calls : pc[c] \in {"setMined", "updateMined"} => mined[tx[c]]

\* A processor past its store.Set has written the record it works on.
ProcessorsHaveRecord ==
    \A c \in Calls : ppc[c] \in {"announce", "addMap"} => store[StoreOf(inst[c])][tx[c]] # NoRecord

\* No response entry is MINED: that status deletes the entry.
EntryNotMined == \A i \in Insts : \A t \in inMap[i] : entry[i][t].status # MINED

\* The call of a response entry has finished ProcessTransaction.
EntryCallsDone == \A i \in Insts : \A t \in inMap[i] : ppc[entry[i][t].call] = "done"

\* A processor runs only for a handler that has called processTransaction.
ProcessorAfterProcess == \A c \in Calls : ppc[c] # "none" => pc[c] \in {"waiting", "returned"}

\* Every response entry has a record behind it in its instance's store.
EntryHasRecord ==
    \A i \in Insts : \A t \in inMap[i] : store[StoreOf(i)][t] # NoRecord

StoreFacts ==
    /\ MinedAhead /\ MinedHasBlock /\ ProcessorsHaveRecord /\ EntryHasRecord
    /\ EntryNotMined /\ EntryCallsDone /\ ProcessorAfterProcess

(***************************************************************************)
(* MinedHasBlock made inductive, on top of OwnerInductive: what each       *)
(* handler, processor and loop step needs to know of the others to keep    *)
(* the store, the response maps and BlockTx consistent.                    *)
(***************************************************************************)
StoreInductive == OwnerInductive /\ StoreFacts

=============================================================================
