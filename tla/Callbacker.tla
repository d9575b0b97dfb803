----------------------------- MODULE Callbacker -----------------------------
(***************************************************************************)
(* The callback dispatcher of Metamorph: SendCallback in                   *)
(* src/metamorph/callbacker.go, one goroutine per status notification,     *)
(* POSTing the status of a transaction to the client's URL.  The           *)
(* processor (not in this repository) starts one for SEEN_ON_NETWORK and   *)
(* one for MINED (spec 4.3); callback c carries the c-th status reached,    *)
(* so a higher c is a later status.  The client's endpoint is the          *)
(* sequence of notifications it has accepted.                              *)
(***************************************************************************)
EXTENDS Naturals, Sequences

CONSTANTS
    NCallbacks,               \* status notifications for one transaction
    CallbackTries,            \* CallbackTries = 5
    CallbackIntervalSeconds   \* CallbackIntervalSeconds = 5

ASSUME CallbackConstAssumption ==
    /\ NCallbacks \in Nat \ {0}
    /\ CallbackTries \in Nat \ {0}
    /\ CallbackIntervalSeconds \in Nat \ {0}

Callbacks == 1..NCallbacks

\* The outcomes of httpClient.Do: a transport error (err # nil, including
\* the 5 s client timeout), a 200, or another status code.
Outcomes == {"error", "ok", "notOk"}

VARIABLES
    pc,             \* where SendCallback of c is
    try,            \* the loop index i
    sleepDuration,  \* sleepDuration
    posts,          \* the POSTs c has made
    oks,            \* the 200 responses c has got
    received        \* the notifications the endpoint accepted, in order

vars == <<pc, try, sleepDuration, posts, oks, received>>

PCs == {"idle", "loop", "post", "sleep", "done", "abandoned"}

CallbackTypeOK ==
    /\ pc \in [Callbacks -> PCs]
    /\ try \in [Callbacks -> 0..CallbackTries]
    /\ sleepDuration \in [Callbacks -> Nat]
    /\ posts \in [Callbacks -> Nat]
    /\ oks \in [Callbacks -> Nat]
    /\ received \in Seq(Callbacks)

Init ==
    /\ pc = [c \in Callbacks |-> "idle"]
    /\ try = [c \in Callbacks |-> 0]
    /\ sleepDuration = [c \in Callbacks |-> 0]
    /\ posts = [c \in Callbacks |-> 0]
    /\ oks = [c \in Callbacks |-> 0]
    /\ received = <<>>

(***************************************************************************)
(* The processor starts callback c on the c-th status transition, after    *)
(* the earlier ones were started (spec 4.3: a callback on SEEN_ON_NETWORK, *)
(* a final one on MINED).  SendCallback sets sleepDuration.                *)
(***************************************************************************)
Start(c) ==
    /\ pc[c] = "idle"
    /\ \A d \in Callbacks : d < c => pc[d] # "idle"
    /\ pc' = [pc EXCEPT ![c] = "loop"]
    /\ sleepDuration' = [sleepDuration EXCEPT ![c] = CallbackIntervalSeconds]
    /\ UNCHANGED <<try, posts, oks, received>>

LoopTestInclusive(c) ==
    /\ pc[c] = "loop"
    /\ pc' = [pc EXCEPT ![c] = IF try[c] <= CallbackTries THEN "post" ELSE "abandoned"]
    /\ UNCHANGED <<try, sleepDuration, posts, oks, received>>

LoopTestNoExit(c) ==
    /\ pc[c] = "loop"
    /\ pc' = [pc EXCEPT ![c] = IF try[c] < CallbackTries THEN "post" ELSE "loop"]
    /\ UNCHANGED <<try, sleepDuration, posts, oks, received>>

\* The loop condition i < CallbackTries; after the last try, log and return.
LoopTest(c) ==
    /\ pc[c] = "loop"
    /\ pc' = [pc EXCEPT ![c] = IF try[c] < CallbackTries THEN "post" ELSE "abandoned"]
    /\ UNCHANGED <<try, sleepDuration, posts, oks, received>>

\* Whether the endpoint accepted a POST whose answer was an error: a timeout
\* may fire after the endpoint processed it, and a non-200 answer may come
\* after the endpoint stored it.  A 200 is always accepted.
Accept(c, accepted) ==
    received' = IF accepted THEN Append(received, c) ELSE received

PostOkNoReturn(c, outcome, accepted) ==
    /\ pc[c] = "post"
    /\ posts' = [posts EXCEPT ![c] = @ + 1]
    /\ Accept(c, accepted \/ outcome = "ok")
    /\ pc' = [pc EXCEPT ![c] = IF outcome = "error" THEN "loop" ELSE "sleep"]
    /\ try' = [try EXCEPT ![c] = IF outcome = "error" THEN @ + 1 ELSE @]
    /\ oks' = [oks EXCEPT ![c] = IF outcome = "ok" THEN @ + 1 ELSE @]
    /\ UNCHANGED sleepDuration

(***************************************************************************)
(* One POST.  A transport error continues the loop at once (i++); a 200     *)
(* returns; any other status code goes on to the sleep.  The marshal and   *)
(* NewRequest errors (lines 41-51) return at the first try for a payload   *)
(* and URL that never change, so they are a callback that does nothing and *)
(* are left out.                                                           *)
(***************************************************************************)
Post(c, outcome, accepted) ==
    /\ pc[c] = "post"
    /\ posts' = [posts EXCEPT ![c] = @ + 1]
    /\ Accept(c, accepted \/ outcome = "ok")
    /\ CASE outcome = "error" ->
              /\ pc' = [pc EXCEPT ![c] = "loop"]
              /\ try' = [try EXCEPT ![c] = @ + 1]
              /\ UNCHANGED oks
         [] outcome = "ok" ->
              /\ pc' = [pc EXCEPT ![c] = "done"]
              /\ oks' = [oks EXCEPT ![c] = @ + 1]
              /\ UNCHANGED try
         [] outcome = "notOk" ->
              /\ pc' = [pc EXCEPT ![c] = "sleep"]
              /\ UNCHANGED <<try, oks>>
    /\ UNCHANGED sleepDuration

\* time.Sleep(sleepDuration), sleepDuration *= 2, and the loop's i++.
Sleep(c) ==
    /\ pc[c] = "sleep"
    /\ sleepDuration' = [sleepDuration EXCEPT ![c] = 2 * @]
    /\ try' = [try EXCEPT ![c] = @ + 1]
    /\ pc' = [pc EXCEPT ![c] = "loop"]
    /\ UNCHANGED <<posts, oks, received>>

Finished(c) == pc[c] \in {"done", "abandoned"}

\* Every callback has returned: nothing is left to do.
Terminated ==
    /\ \A c \in Callbacks : Finished(c)
    /\ UNCHANGED vars

SendCallback(c) == LoopTest(c) \/ Sleep(c)
                   \/ \E o \in Outcomes, a \in BOOLEAN : Post(c, o, a)

Next ==
    \/ \E c \in Callbacks : Start(c) \/ SendCallback(c)
    \/ Terminated

\* The processor reaches the statuses and the goroutine runs to its end.
Fairness == \A c \in Callbacks : WF_vars(Start(c)) /\ WF_vars(SendCallback(c))

Spec == Init /\ [][Next]_vars /\ Fairness

-----------------------------------------------------------------------------
(***************************************************************************)
(* A callback is given up only after exactly CallbackTries POSTs, none of   *)
(* them answered 200, and a 200 ends it at once: no notification is POSTed  *)
(* more than CallbackTries times, none is retried after the client          *)
(* acknowledged it, and none is dropped before its tries are used up,       *)
(* whichever mix of transport errors and error codes SendCallback meets.    *)
(***************************************************************************)
AttemptsBounded ==
    \A c \in Callbacks :
        /\ posts[c] <= CallbackTries
        /\ oks[c] <= 1
        /\ pc[c] = "abandoned" => posts[c] = CallbackTries /\ oks[c] = 0
        /\ oks[c] = 1 => pc[c] = "done"

(***************************************************************************)
(* Every callback that the processor started eventually returns, delivered  *)
(* or abandoned: the retry loop of SendCallback terminates.                *)
(***************************************************************************)
CallbacksEnd == \A c \in Callbacks : pc[c] # "idle" ~> Finished(c)

-----------------------------------------------------------------------------
(***************************************************************************)
(* The inductive strengthening of AttemptsBounded: the POSTs of a callback *)
(* are its loop index plus the one of the current iteration once it has     *)
(* been answered, and the index stays below CallbackTries while a POST or   *)
(* its answer is being handled.                                            *)
(***************************************************************************)
CallbackInductive ==
    /\ CallbackTypeOK
    /\ \A c \in Callbacks :
        /\ pc[c] = "idle" => try[c] = 0 /\ posts[c] = 0
        /\ posts[c] = try[c] + (IF pc[c] \in {"sleep", "done"} THEN 1 ELSE 0)
        /\ oks[c] = (IF pc[c] = "done" THEN 1 ELSE 0)
        /\ pc[c] \in {"post", "sleep", "done"} => try[c] < CallbackTries
        /\ pc[c] = "abandoned" => try[c] = CallbackTries


-----------------------------------------------------------------------------
(***************************************************************************)
(* The refinement mapping: a started SendCallback is sending until it      *)
(* returns on a 200 (delivered) or after its last try (abandoned); its     *)
(* attempts are its POSTs.  The loop test and the sleep between tries are  *)
(* internal steps.                                                         *)
(***************************************************************************)
StatusOf(p) ==
    CASE p = "idle" -> "idle"
      [] p \in {"loop", "post", "sleep"} -> "sending"
      [] p = "done" -> "delivered"
      [] p = "abandoned" -> "abandoned"

absStatus == [c \in Callbacks |-> StatusOf(pc[c])]

Abs == INSTANCE CallbackAbs WITH status <- absStatus, attempts <- posts

(***************************************************************************)
(* Spec 4.3: SendCallback's retry loop, with its transport errors, error   *)
(* codes, doubling sleeps and loop index, implements the dispatcher's      *)
(* promise: in order, at most CallbackTries POSTs, none after a 200, and   *)
(* given up only after the last one, and every notification ends.          *)
(***************************************************************************)
ImplementsCallbackAbs == Abs!Spec

=============================================================================
