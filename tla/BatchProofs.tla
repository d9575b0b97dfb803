------------------------------ MODULE BatchProofs ------------------------------
(***************************************************************************)
(* TLAPS proof that PutTransactions implements its abstract specification  *)
(* (the safety part) for every batch whose hashes are distinct.            *)
(***************************************************************************)
EXTENDS Batch, TLAPS

USE BatchAssumption

\* No transaction occurs twice in the batch.
Distinct == \A i, j \in Idx : Batch[i] = Batch[j] => i = j

(***************************************************************************)
(* The strengthening: every element before the loop index is answered, or *)
(* is the one processTxsInputMap records for its hash; a goroutine runs    *)
(* exactly for the recorded hashes once the loop is over, and a finished   *)
(* one has written its slot.                                              *)
(***************************************************************************)
BatchInductive ==
    /\ BatchTypeOK
    /\ \A i \in Idx : resp[i] \in {NoStatus, Batch[i]}
    /\ \A h \in Hashes : inputs[h] # 0 => inputs[h] < idx /\ Batch[inputs[h]] = h
    /\ \A i \in Idx : i < idx => resp[i] = Batch[i] \/ inputs[Batch[i]] = i
    /\ \A h \in Hashes : gpc[h] = "running" => bpc = "wait"
    /\ \A h \in Hashes : gpc[h] = "done" => inputs[h] # 0 /\ resp[inputs[h]] = h
    /\ bpc \in {"loop", "failed"} => \A h \in Hashes : gpc[h] = "idle"
    /\ bpc \in {"wait", "returned"} =>
          /\ idx = N + 1
          /\ \A h \in Hashes : gpc[h] = "idle" <=> inputs[h] = 0
    /\ bpc = "returned" => \A i \in Idx : resp[i] = Batch[i]

LEMMA BatchInductiveInit == Init => BatchInductive
BY DEF Init, BatchInductive, BatchTypeOK, Idx, N

LEMMA LoopFailInductive ==
    ASSUME BatchInductive, LoopFail PROVE BatchInductive'
BY DEF BatchInductive, BatchTypeOK, LoopFail

\* Distinct hashes: recording element idx under its hash displaces no other.
LEMMA LoopStepInductive ==
    ASSUME Distinct, BatchInductive, NEW o \in InitOutcomes, LoopStep(o)
    PROVE  BatchInductive'
<1> DEFINE h == Batch[idx]
<1>1. idx \in Idx /\ h \in Hashes /\ idx' = idx + 1 /\ UNCHANGED <<bpc, gpc>>
  BY DEF BatchInductive, BatchTypeOK, LoopStep, Idx, N
<1>2. CASE HasStatus(h, o)
  <2>1. resp' = [resp EXCEPT ![idx] = h] /\ UNCHANGED <<queued, inputs>>
    BY <1>2 DEF LoopStep
  <2>2. stored' \subseteq Hashes
    BY <1>1 DEF LoopStep, BatchInductive, BatchTypeOK
  <2>. QED
    BY <1>1, <2>1, <2>2 DEF BatchInductive, BatchTypeOK, Idx, N
<1>3. CASE ~HasStatus(h, o)
  <2>1. queued' = queued \cup {h} /\ inputs' = [inputs EXCEPT ![h] = idx]
        /\ UNCHANGED resp
    BY <1>3 DEF LoopStep
  <2>2. stored' \subseteq Hashes
    BY <1>1 DEF LoopStep, BatchInductive, BatchTypeOK
  <2>3. \A i \in Idx : i < idx' => resp'[i] = Batch[i] \/ inputs'[Batch[i]] = i
    <3> SUFFICES ASSUME NEW i \in Idx, i < idx' PROVE resp'[i] = Batch[i] \/ inputs'[Batch[i]] = i
      OBVIOUS
    <3>1. CASE i = idx
      BY <1>1, <2>1, <3>1 DEF BatchInductive, BatchTypeOK
    <3>2. CASE i # idx
      <4>1. Batch[i] # h
        BY <1>1, <3>2 DEF Distinct
      <4>. QED
        BY <1>1, <2>1, <3>2, <4>1 DEF BatchInductive, BatchTypeOK, Idx, N
    <3>. QED
      BY <3>1, <3>2
  <2>. QED
    BY <1>1, <2>1, <2>2, <2>3 DEF BatchInductive, BatchTypeOK, Idx, N
<1>. QED
  BY <1>2, <1>3

LEMMA SpawnInductive ==
    ASSUME BatchInductive, Spawn PROVE BatchInductive'
BY DEF BatchInductive, BatchTypeOK, Spawn

LEMMA ProcessInductive ==
    ASSUME BatchInductive, NEW h \in Hashes, Process(h) PROVE BatchInductive'
<1>1. bpc = "wait" /\ inputs[h] \in Idx /\ Batch[inputs[h]] = h
  BY DEF BatchInductive, BatchTypeOK, Process, Idx, N
<1>. QED
  BY <1>1 DEF BatchInductive, BatchTypeOK, Process

\* wg.Wait: every recorded element's goroutine is done, so every slot is set.
LEMMA ReturnAnswersAll ==
    ASSUME BatchInductive, Return PROVE \A i \in Idx : resp[i] = Batch[i]
<1> SUFFICES ASSUME NEW i \in Idx PROVE resp[i] = Batch[i]
  OBVIOUS
<1>1. i < idx /\ Batch[i] \in Hashes
  BY DEF Return, BatchInductive, BatchTypeOK, Idx, N
<1>2. CASE inputs[Batch[i]] = i
  <2>1. gpc[Batch[i]] = "done"
    BY <1>1, <1>2 DEF Return, BatchInductive, BatchTypeOK, Idx
  <2>. QED
    BY <1>1, <1>2, <2>1 DEF BatchInductive
<1>. QED
  BY <1>1, <1>2 DEF BatchInductive

LEMMA ReturnInductive ==
    ASSUME BatchInductive, Return PROVE BatchInductive'
BY ReturnAnswersAll DEF BatchInductive, BatchTypeOK, Return

LEMMA ProcStoreInductive ==
    ASSUME BatchInductive, NEW h \in Hashes, ProcStore(h) PROVE BatchInductive'
BY DEF BatchInductive, BatchTypeOK, ProcStore

LEMMA BatchInductiveNext ==
    Distinct /\ BatchInductive /\ [Next]_vars => BatchInductive'
<1> SUFFICES ASSUME Distinct, BatchInductive, [Next]_vars PROVE BatchInductive'
  OBVIOUS
<1>1. CASE LoopFail
  BY <1>1, LoopFailInductive
<1>2. ASSUME NEW o \in InitOutcomes, LoopStep(o) PROVE BatchInductive'
  BY <1>2, LoopStepInductive
<1>3. CASE Spawn
  BY <1>3, SpawnInductive
<1>4. CASE Return
  BY <1>4, ReturnInductive
<1>5. ASSUME NEW h \in Hashes, Process(h) \/ ProcStore(h) PROVE BatchInductive'
  BY <1>5, ProcessInductive, ProcStoreInductive
<1>6. CASE UNCHANGED vars
  BY <1>6 DEF vars, BatchInductive, BatchTypeOK
<1>. QED
  BY <1>1, <1>2, <1>3, <1>4, <1>5, <1>6 DEF Next

\* The safety part of the abstract specification, under the mapping.
AbsSafety == Abs!AbsInit /\ [][Abs!AbsNext]_Abs!avars

\* Every step of the handler is an abstract step or leaves the abstract
\* state alone.
LEMMA StepRefines ==
    ASSUME BatchInductive, [Next]_vars PROVE [Abs!AbsNext]_Abs!avars
<1>1. CASE LoopFail
  BY <1>1 DEF LoopFail, Abs!AbsNext, Abs!Fail, absState, absOut
<1>2. ASSUME NEW o \in InitOutcomes, LoopStep(o) PROVE [Abs!AbsNext]_Abs!avars
  BY <1>2 DEF LoopStep, Abs!avars, absState, absOut
<1>3. CASE Spawn
  BY <1>3 DEF Spawn, Abs!avars, absState, absOut
<1>4. CASE Return
  <2>1. \A i \in Idx : resp[i] = Batch[i]
    BY <1>4, ReturnAnswersAll
  <2>2. resp = [i \in Idx |-> Batch[i]]
    BY <2>1 DEF BatchInductive, BatchTypeOK
  <2>. QED
    BY <1>4, <2>2 DEF Return, Abs!AbsNext, Abs!Respond, absState, absOut, Idx, N
<1>5. ASSUME NEW h \in Hashes, Process(h) PROVE [Abs!AbsNext]_Abs!avars
  <2>1. bpc = "wait"
    BY <1>5 DEF Process, BatchInductive
  <2>. QED
    BY <1>5, <2>1 DEF Process, Abs!avars, absState, absOut
<1>6. ASSUME NEW h \in Hashes, ProcStore(h) PROVE [Abs!AbsNext]_Abs!avars
  BY <1>6 DEF ProcStore, Abs!avars, absState, absOut
<1>7. CASE UNCHANGED vars
  BY <1>7 DEF vars, Abs!avars, absState, absOut
<1>. QED
  BY <1>1, <1>2, <1>3, <1>4, <1>5, <1>6, <1>7 DEF Next

(***************************************************************************)
(* Theorem: for every batch without a repeated hash, whatever the stored   *)
(* records, the outcomes of putTransactionInit and the interleaving of the *)
(* goroutines and the processor, PutTransactions implements the safety of  *)
(* its abstract specification: it fails as a whole or answers every       *)
(* element, in input order, with that element's status.                  *)
(***************************************************************************)
THEOREM BatchRefinesAbs == ASSUME Distinct PROVE Spec => AbsSafety
<1>1. Init => Abs!AbsInit
  BY DEF Init, Abs!AbsInit, absState, absOut, Idx, N
<1>2. BatchInductive /\ [Next]_vars => BatchInductive'
  BY BatchInductiveNext
<1>3. BatchInductive /\ [Next]_vars => [Abs!AbsNext]_Abs!avars
  BY StepRefines
<1>. QED
  BY <1>1, <1>2, <1>3, BatchInductiveInit, PTL DEF Spec, AbsSafety

=============================================================================
