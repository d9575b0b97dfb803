-------------------------- MODULE CallbackerProofs --------------------------
(***************************************************************************)
(* TLAPS proofs about SendCallback's retry loop, for every number of       *)
(* notifications, tries and interval.                                      *)
(***************************************************************************)
EXTENDS Callbacker, TLAPS

USE CallbackConstAssumption

\* Start(c) begins a callback from the idle state with all counters at zero.
LEMMA StartInductive ==
    ASSUME CallbackInductive, NEW c \in Callbacks, Start(c)
    PROVE  CallbackInductive'
<1>1. CallbackTypeOK'
  BY DEF CallbackInductive, CallbackTypeOK, Start, PCs
<1>2. ASSUME NEW d \in Callbacks
      PROVE  /\ pc'[d] = "idle" => try'[d] = 0 /\ posts'[d] = 0
             /\ posts'[d] = try'[d] + (IF pc'[d] \in {"sleep", "done"} THEN 1 ELSE 0)
             /\ oks'[d] = (IF pc'[d] = "done" THEN 1 ELSE 0)
             /\ pc'[d] \in {"post", "sleep", "done"} => try'[d] < CallbackTries
             /\ pc'[d] = "abandoned" => try'[d] = CallbackTries
  <2>1. CASE d = c
    BY <2>1 DEF CallbackInductive, CallbackTypeOK, Start
  <2>2. CASE d # c
    BY <2>2 DEF CallbackInductive, CallbackTypeOK, Start
  <2>. QED
    BY <2>1, <2>2
<1>. QED
  BY <1>1, <1>2 DEF CallbackInductive

\* LoopTest(c) moves to the POST only below the bound, and gives up at it.
LEMMA LoopTestInductive ==
    ASSUME CallbackInductive, NEW c \in Callbacks, LoopTest(c)
    PROVE  CallbackInductive'
<1>1. CallbackTypeOK'
  BY DEF CallbackInductive, CallbackTypeOK, LoopTest, PCs
<1>2. ASSUME NEW d \in Callbacks
      PROVE  /\ pc'[d] = "idle" => try'[d] = 0 /\ posts'[d] = 0
             /\ posts'[d] = try'[d] + (IF pc'[d] \in {"sleep", "done"} THEN 1 ELSE 0)
             /\ oks'[d] = (IF pc'[d] = "done" THEN 1 ELSE 0)
             /\ pc'[d] \in {"post", "sleep", "done"} => try'[d] < CallbackTries
             /\ pc'[d] = "abandoned" => try'[d] = CallbackTries
  <2>1. CASE d = c
    BY <2>1 DEF CallbackInductive, CallbackTypeOK, LoopTest
  <2>2. CASE d # c
    BY <2>2 DEF CallbackInductive, CallbackTypeOK, LoopTest
  <2>. QED
    BY <2>1, <2>2
<1>. QED
  BY <1>1, <1>2 DEF CallbackInductive

\* A POST counts one more request; each outcome settles the iteration.
LEMMA PostInductive ==
    ASSUME CallbackInductive, NEW c \in Callbacks, NEW o \in Outcomes,
           NEW a \in BOOLEAN, Post(c, o, a)
    PROVE  CallbackInductive'
<1>0. /\ received' \in Seq(Callbacks)
      /\ posts' = [posts EXCEPT ![c] = @ + 1]
      /\ UNCHANGED sleepDuration
      /\ pc[c] = "post" /\ try[c] < CallbackTries
  BY DEF CallbackInductive, CallbackTypeOK, Post, Accept
<1>1. CASE o = "error"
  <2>1. /\ pc' = [pc EXCEPT ![c] = "loop"]
        /\ try' = [try EXCEPT ![c] = @ + 1]
        /\ UNCHANGED oks
    BY <1>1 DEF Post
  <2>2. CallbackTypeOK'
    BY <1>0, <2>1 DEF CallbackInductive, CallbackTypeOK, PCs
  <2>3. ASSUME NEW d \in Callbacks
        PROVE  /\ pc'[d] = "idle" => try'[d] = 0 /\ posts'[d] = 0
               /\ posts'[d] = try'[d] + (IF pc'[d] \in {"sleep", "done"} THEN 1 ELSE 0)
               /\ oks'[d] = (IF pc'[d] = "done" THEN 1 ELSE 0)
               /\ pc'[d] \in {"post", "sleep", "done"} => try'[d] < CallbackTries
               /\ pc'[d] = "abandoned" => try'[d] = CallbackTries
    <3>1. CASE d = c
      BY <1>0, <2>1, <3>1 DEF CallbackInductive, CallbackTypeOK
    <3>2. CASE d # c
      BY <1>0, <2>1, <3>2 DEF CallbackInductive, CallbackTypeOK
    <3>. QED
      BY <3>1, <3>2
  <2>. QED
    BY <2>2, <2>3 DEF CallbackInductive
<1>2. CASE o = "ok"
  <2>1. /\ pc' = [pc EXCEPT ![c] = "done"]
        /\ oks' = [oks EXCEPT ![c] = @ + 1]
        /\ UNCHANGED try
    BY <1>2 DEF Post
  <2>2. CallbackTypeOK'
    BY <1>0, <2>1 DEF CallbackInductive, CallbackTypeOK, PCs
  <2>3. ASSUME NEW d \in Callbacks
        PROVE  /\ pc'[d] = "idle" => try'[d] = 0 /\ posts'[d] = 0
               /\ posts'[d] = try'[d] + (IF pc'[d] \in {"sleep", "done"} THEN 1 ELSE 0)
               /\ oks'[d] = (IF pc'[d] = "done" THEN 1 ELSE 0)
               /\ pc'[d] \in {"post", "sleep", "done"} => try'[d] < CallbackTries
               /\ pc'[d] = "abandoned" => try'[d] = CallbackTries
    <3>1. CASE d = c
      <4>1. oks[c] = 0 /\ posts[c] = try[c] /\ oks[c] \in Nat /\ try[c] \in Nat
        BY <1>0 DEF CallbackInductive, CallbackTypeOK
      <4>2. pc'[c] = "done" /\ oks'[c] = 1 /\ posts'[c] = try[c] + 1 /\ try'[c] = try[c]
        BY <1>0, <2>1, <4>1 DEF CallbackInductive, CallbackTypeOK
      <4>. QED
        BY <1>0, <3>1, <4>2
    <3>2. CASE d # c
      BY <1>0, <2>1, <3>2 DEF CallbackInductive, CallbackTypeOK
    <3>. QED
      BY <3>1, <3>2
  <2>. QED
    BY <2>2, <2>3 DEF CallbackInductive
<1>3. CASE o = "notOk"
  <2>1. /\ pc' = [pc EXCEPT ![c] = "sleep"]
        /\ UNCHANGED <<try, oks>>
    BY <1>3 DEF Post
  <2>2. CallbackTypeOK'
    BY <1>0, <2>1 DEF CallbackInductive, CallbackTypeOK, PCs
  <2>3. ASSUME NEW d \in Callbacks
        PROVE  /\ pc'[d] = "idle" => try'[d] = 0 /\ posts'[d] = 0
               /\ posts'[d] = try'[d] + (IF pc'[d] \in {"sleep", "done"} THEN 1 ELSE 0)
               /\ oks'[d] = (IF pc'[d] = "done" THEN 1 ELSE 0)
               /\ pc'[d] \in {"post", "sleep", "done"} => try'[d] < CallbackTries
               /\ pc'[d] = "abandoned" => try'[d] = CallbackTries
    <3>1. CASE d = c
      BY <1>0, <2>1, <3>1 DEF CallbackInductive, CallbackTypeOK
    <3>2. CASE d # c
      BY <1>0, <2>1, <3>2 DEF CallbackInductive, CallbackTypeOK
    <3>. QED
      BY <3>1, <3>2
  <2>. QED
    BY <2>2, <2>3 DEF CallbackInductive
<1>. QED
  BY <1>1, <1>2, <1>3 DEF Outcomes

\* The sleep ends the iteration: the index takes over the answered POST.
LEMMA SleepInductive ==
    ASSUME CallbackInductive, NEW c \in Callbacks, Sleep(c)
    PROVE  CallbackInductive'
BY DEF CallbackInductive, CallbackTypeOK, Sleep, PCs

LEMMA CallbackInductiveInit == Init => CallbackInductive
BY DEF Init, CallbackInductive, CallbackTypeOK, PCs

LEMMA CallbackInductiveNext ==
    CallbackInductive /\ [Next]_vars => CallbackInductive'
<1> SUFFICES ASSUME CallbackInductive, [Next]_vars PROVE CallbackInductive'
  OBVIOUS
<1>1. ASSUME NEW c \in Callbacks, Start(c) PROVE CallbackInductive'
  BY <1>1, StartInductive
<1>2. ASSUME NEW c \in Callbacks, SendCallback(c) PROVE CallbackInductive'
  BY <1>2, LoopTestInductive, SleepInductive, PostInductive DEF SendCallback
<1>3. CASE Terminated \/ UNCHANGED vars
  BY <1>3 DEF Terminated, vars, CallbackInductive, CallbackTypeOK
<1>. QED
  BY <1>1, <1>2, <1>3 DEF Next

(***************************************************************************)
(* Theorem: for every number of notifications, tries and interval,         *)
(* SendCallback POSTs a notification at most CallbackTries times, stops at *)
(* the first 200, and abandons it only after CallbackTries unanswered or   *)
(* failed POSTs.                                                           *)
(***************************************************************************)
THEOREM AttemptsBoundedHolds == Spec => []AttemptsBounded
<1>1. CallbackInductive => AttemptsBounded
  <2> SUFFICES ASSUME CallbackInductive, NEW c \in Callbacks
               PROVE  /\ posts[c] <= CallbackTries
                      /\ oks[c] <= 1
                      /\ pc[c] = "abandoned" => posts[c] = CallbackTries /\ oks[c] = 0
                      /\ oks[c] = 1 => pc[c] = "done"
    BY DEF AttemptsBounded
  <2>1. /\ pc[c] \in PCs /\ try[c] \in 0..CallbackTries
        /\ posts[c] = try[c] + (IF pc[c] \in {"sleep", "done"} THEN 1 ELSE 0)
        /\ oks[c] = (IF pc[c] = "done" THEN 1 ELSE 0)
        /\ pc[c] \in {"post", "sleep", "done"} => try[c] < CallbackTries
        /\ pc[c] = "abandoned" => try[c] = CallbackTries
    BY DEF CallbackInductive, CallbackTypeOK
  <2>. QED
    BY <2>1 DEF PCs
<1>. QED
  BY <1>1, CallbackInductiveInit, CallbackInductiveNext, PTL DEF Spec

(***************************************************************************)
(* Theorem: every reachable state of the callback model is well typed.     *)
(***************************************************************************)
THEOREM CallbackTypeCorrect == Spec => []CallbackTypeOK
<1>1. CallbackInductive => CallbackTypeOK
  BY DEF CallbackInductive
<1>. QED
  BY <1>1, CallbackInductiveInit, CallbackInductiveNext, PTL DEF Spec

(***************************************************************************)
(* CallbackInductive, which the cb_safety run checks, holds in every       *)
(* reachable state: SendCallback's try counter, POSTs and 200s stay in     *)
(* step with where its loop is.                                            *)
(***************************************************************************)
THEOREM CallbackInductiveHolds == Spec => []CallbackInductive
BY CallbackInductiveInit, CallbackInductiveNext, PTL DEF Spec


-----------------------------------------------------------------------------
\* The safety part of the dispatcher's promise, under the mapping.
CallbackAbsSafety == Abs!AbsInit /\ [][Abs!AbsNext]_Abs!avars

\* A step that moves no callback between abstract states and makes no POST
\* is an abstract stutter.
LEMMA InternalStep ==
    ASSUME CallbackTypeOK, NEW c \in Callbacks, NEW q \in PCs,
           pc' = [pc EXCEPT ![c] = q],
           StatusOf(q) = StatusOf(pc[c]),
           UNCHANGED <<posts, received>>
    PROVE  UNCHANGED Abs!avars
<1>1. absStatus' = absStatus
  BY DEF CallbackTypeOK, absStatus
<1>. QED
  BY <1>1 DEF Abs!avars

\* The abstract specification counts the same notifications.
LEMMA SameCallbacks == Abs!Callbacks = Callbacks
BY DEF Abs!Callbacks, Callbacks

\* A step that moves callback c alone to new program counter q changes
\* only c's abstract state.
LEMMA MovedStatus ==
    ASSUME CallbackTypeOK, NEW c \in Callbacks, NEW q \in PCs,
           pc' = [pc EXCEPT ![c] = q]
    PROVE  absStatus' = [absStatus EXCEPT ![c] = StatusOf(q)]
BY DEF CallbackTypeOK, absStatus

\* Every step of SendCallback is an abstract step or leaves the abstract
\* state alone.
LEMMA CallbackStepRefines ==
    ASSUME CallbackInductive, [Next]_vars PROVE [Abs!AbsNext]_Abs!avars
<1> USE DEF CallbackInductive
<1>1. ASSUME NEW c \in Callbacks, Start(c) PROVE [Abs!AbsNext]_Abs!avars
  <2>1. absStatus' = [absStatus EXCEPT ![c] = "sending"]
    BY <1>1, MovedStatus DEF Start, StatusOf, PCs
  <2>2. /\ absStatus[c] = "idle"
        /\ \A d \in Callbacks : d < c => absStatus[d] # "idle"
    BY <1>1 DEF Start, absStatus, StatusOf, CallbackTypeOK, PCs
  <2>. QED
    BY <1>1, <2>1, <2>2, SameCallbacks DEF Start, Abs!AbsNext, Abs!Begin
<1>2. ASSUME NEW c \in Callbacks, LoopTest(c) PROVE [Abs!AbsNext]_Abs!avars
  <2>1. CASE try[c] < CallbackTries
    <3>1. pc' = [pc EXCEPT ![c] = "post"] /\ pc[c] = "loop"
      BY <1>2, <2>1 DEF LoopTest
    <3>. QED
      BY <1>2, <3>1, InternalStep DEF LoopTest, StatusOf, PCs
  <2>2. CASE ~(try[c] < CallbackTries)
    <3>1. posts[c] = CallbackTries
      BY <1>2, <2>2 DEF LoopTest, CallbackTypeOK
    <3>2. absStatus[c] = "sending"
      BY <1>2 DEF LoopTest, absStatus, StatusOf
    <3>3. absStatus' = [absStatus EXCEPT ![c] = "abandoned"]
      BY <1>2, <2>2, MovedStatus DEF LoopTest, StatusOf, PCs
    <3>. QED
      BY <1>2, <3>1, <3>2, <3>3, SameCallbacks DEF LoopTest, Abs!AbsNext, Abs!GiveUp
  <2>. QED
    BY <2>1, <2>2
<1>3. ASSUME NEW c \in Callbacks, NEW o \in Outcomes, NEW a \in BOOLEAN,
             Post(c, o, a)
      PROVE  [Abs!AbsNext]_Abs!avars
  <2>1. /\ absStatus[c] = "sending"
        /\ posts[c] < CallbackTries
    <3>1. pc[c] = "post"
      BY <1>3 DEF Post
    <3>2. posts[c] = try[c] /\ try[c] < CallbackTries
      <4>1. /\ posts[c] = try[c] + (IF pc[c] \in {"sleep", "done"} THEN 1 ELSE 0)
            /\ pc[c] \in {"post", "sleep", "done"} => try[c] < CallbackTries
        OBVIOUS
      <4>2. try[c] \in Nat
        BY DEF CallbackTypeOK
      <4>. QED
        BY <3>1, <4>1, <4>2
    <3>3. absStatus[c] = "sending"
      BY <3>1 DEF absStatus, StatusOf
    <3>. QED
      BY <3>2, <3>3
  <2>2. PICK q \in PCs : /\ pc' = [pc EXCEPT ![c] = q]
                        /\ StatusOf(q) = IF o = "ok" THEN "delivered" ELSE "sending"
    BY <1>3 DEF Post, Outcomes, StatusOf, PCs
  <2>3. absStatus' = [absStatus EXCEPT ![c] = IF o = "ok" THEN "delivered" ELSE "sending"]
    BY <2>2, MovedStatus
  <2>4. Abs!Attempt(c, a, o = "ok")
    BY <1>3, <2>1, <2>3 DEF Post, Accept, Abs!Attempt
  <2>. QED
    BY <2>4, SameCallbacks DEF Abs!AbsNext
<1>4. ASSUME NEW c \in Callbacks, Sleep(c) PROVE [Abs!AbsNext]_Abs!avars
  BY <1>4, InternalStep DEF Sleep, StatusOf, PCs, CallbackTypeOK
<1>5. CASE Terminated \/ UNCHANGED vars
  BY <1>5 DEF Terminated, vars, Abs!avars, absStatus
<1>. QED
  BY <1>1, <1>2, <1>3, <1>4, <1>5 DEF Next, SendCallback

(***************************************************************************)
(* Theorem: for every number of notifications, tries and interval,         *)
(* SendCallback implements the safety of the dispatcher's promise: the     *)
(* notifications start in order, each is POSTed at most CallbackTries      *)
(* times, a 200 ends it as delivered, and it is abandoned only when its    *)
(* CallbackTries POSTs are spent.  The loop test and the sleep are         *)
(* stutters; every POST is one abstract attempt.                           *)
(***************************************************************************)
THEOREM CallbackRefinesAbs == Spec => CallbackAbsSafety
<1>1. Init => Abs!AbsInit
  BY SameCallbacks DEF Init, Abs!AbsInit, absStatus, StatusOf
<1>2. CallbackInductive /\ [Next]_vars => [Abs!AbsNext]_Abs!avars
  BY CallbackStepRefines
<1>. QED
  BY <1>1, <1>2, CallbackInductiveInit, CallbackInductiveNext, PTL
  DEF Spec, CallbackAbsSafety

=============================================================================
