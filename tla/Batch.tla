------------------------------- MODULE Batch -------------------------------
(***************************************************************************)
(* Metamorph's PutTransactions (src/metamorph/server.go): a batch of       *)
(* submissions answered with one status per element, in input order.       *)
(* The handler runs putTransactionInit for each element in turn, hands the *)
(* ones with no answer yet to processor.Set and records them in            *)
(* processTxsInputMap, keyed by hash; then it starts one goroutine per map  *)
(* entry, which runs processTransaction and writes the status into the     *)
(* element's slot, and waits for them all.  A status is the hash it is     *)
(* about (its Txid); how it was reached is modelled in Metamorph.tla.      *)
(***************************************************************************)
EXTENDS Naturals, Sequences

CONSTANTS
    Hashes,     \* transaction hashes
    Batch,      \* req.Transactions, as the hash of each element
    BadUrls,    \* the indices whose callback URL does not parse
    NoStatus    \* a nil *TransactionStatus

ASSUME BatchAssumption ==
    /\ Batch \in Seq(Hashes)
    /\ BadUrls \subseteq 1..Len(Batch)
    /\ NoStatus \notin Hashes

N == Len(Batch)
Idx == 1..N

VARIABLES
    bpc,        \* the handler: "loop", "wait", "returned" or "failed"
    idx,        \* ind, the element the loop is at
    stored,     \* hashes with a record in the store
    queued,     \* hashes handed to processor.Set and not yet stored
    inputs,     \* processTxsInputMap: hash -> responseIndex (0: absent)
    resp,       \* resp.Statuses
    gpc         \* per hash: its goroutine is "idle", "running" or "done"

vars == <<bpc, idx, stored, queued, inputs, resp, gpc>>

BatchTypeOK ==
    /\ bpc \in {"loop", "wait", "returned", "failed"}
    /\ idx \in 1..N + 1
    /\ stored \subseteq Hashes /\ queued \subseteq Hashes
    /\ inputs \in [Hashes -> 0..N]
    /\ resp \in [Idx -> Hashes \cup {NoStatus}]
    /\ gpc \in [Hashes -> {"idle", "running", "done"}]

\* A record may already be stored for any hash: the batch may resubmit.
Init ==
    /\ bpc = "loop"
    /\ idx = 1
    /\ stored \in SUBSET Hashes
    /\ queued = {}
    /\ inputs = [h \in Hashes |-> 0]
    /\ resp = [i \in Idx |-> NoStatus]
    /\ gpc = [h \in Hashes |-> "idle"]

(***************************************************************************)
(* The outcomes of putTransactionInit for a hash, other than an error:     *)
(* "forwarded" (the owner's answer), "mined" (BlockTx knows a block: the   *)
(* record is stored, marked MINED and then found by checkStore) and        *)
(* "local" (checkStore answers iff a record is stored, else the element is *)
(* to be processed).                                                       *)
(***************************************************************************)
InitOutcomes == {"forwarded", "mined", "local"}

\* putTransactionInit returns a transactionStatus for the element.
HasStatus(h, outcome) == outcome # "local" \/ h \in stored

(***************************************************************************)
(* One iteration of the loop for element idx: an invalid callback URL, an  *)
(* error of putTransactionInit or of processor.Set returns at once;        *)
(* otherwise the element gets its status now, or is queued to the          *)
(* processor and recorded in processTxsInputMap under its hash.           *)
(***************************************************************************)
LoopFail ==
    /\ bpc = "loop" /\ idx <= N
    /\ bpc' = "failed"
    /\ UNCHANGED <<idx, stored, queued, inputs, resp, gpc>>

LoopStep(outcome) ==
    LET h == Batch[idx] IN
    /\ bpc = "loop" /\ idx <= N
    /\ idx \notin BadUrls
    /\ idx' = idx + 1
    /\ stored' = IF outcome = "mined" THEN stored \cup {h} ELSE stored
    /\ IF HasStatus(h, outcome)
       THEN /\ resp' = [resp EXCEPT ![idx] = h]
            /\ UNCHANGED <<queued, inputs>>
       ELSE /\ queued' = queued \cup {h}
            /\ inputs' = [inputs EXCEPT ![h] = idx]
            /\ UNCHANGED resp
    /\ UNCHANGED <<bpc, gpc>>

\* After the loop: one goroutine per entry of processTxsInputMap.
Spawn ==
    /\ bpc = "loop" /\ idx = N + 1
    /\ bpc' = "wait"
    /\ gpc' = [h \in Hashes |-> IF inputs[h] # 0 THEN "running" ELSE "idle"]
    /\ UNCHANGED <<idx, stored, queued, inputs, resp>>

\* processTransaction returns (a status, or TimedOut) and the goroutine
\* writes it into the slot of its responseIndex.
Process(h) ==
    /\ gpc[h] = "running"
    /\ gpc' = [gpc EXCEPT ![h] = "done"]
    /\ resp' = [resp EXCEPT ![inputs[h]] = h]
    /\ UNCHANGED <<bpc, idx, stored, queued, inputs>>

ReturnNoWait ==
    /\ bpc = "wait"
    /\ bpc' = "returned"
    /\ UNCHANGED <<idx, stored, queued, inputs, resp, gpc>>

\* wg.Wait(), then return resp.
Return ==
    /\ bpc = "wait"
    /\ \A h \in Hashes : gpc[h] # "running"
    /\ bpc' = "returned"
    /\ UNCHANGED <<idx, stored, queued, inputs, resp, gpc>>

\* The processor stores a queued record (processor.Set is asynchronous).
ProcStore(h) ==
    /\ h \in queued
    /\ stored' = stored \cup {h}
    /\ queued' = queued \ {h}
    /\ UNCHANGED <<bpc, idx, inputs, resp, gpc>>

Next ==
    \/ LoopFail
    \/ \E o \in InitOutcomes : LoopStep(o)
    \/ Spawn
    \/ Return
    \/ \E h \in Hashes : Process(h) \/ ProcStore(h)

(***************************************************************************)
(* The handler goroutine and the goroutines it starts run whenever they     *)
(* can; processTransaction always returns, at the latest on its timer.     *)
(***************************************************************************)
Fairness ==
    /\ WF_vars(\E o \in InitOutcomes : LoopStep(o))
    /\ WF_vars(Spawn)
    /\ WF_vars(Return)
    /\ \A h \in Hashes : WF_vars(Process(h))

Spec == Init /\ [][Next]_vars /\ Fairness

-----------------------------------------------------------------------------
(***************************************************************************)
(* The refinement mapping: while the handler runs, the abstract call is    *)
(* running with no answer; once it returns, the answer is resp.            *)
(***************************************************************************)
absState == IF bpc \in {"loop", "wait"} THEN "running" ELSE bpc
absOut == IF bpc = "returned" THEN resp ELSE [i \in Idx |-> NoStatus]

Abs == INSTANCE BatchAbs WITH state <- absState, out <- absOut

(***************************************************************************)
(* Spec 4.2: put_transactions answers with the status record of every     *)
(* element, in input order, or fails as a whole; and it answers.  The      *)
(* handler, its per-element goroutines and the asynchronous processor      *)
(* implement that promise.                                                 *)
(***************************************************************************)
ImplementsBatchAbs == Abs!Spec

=============================================================================
