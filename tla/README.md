# Formal models of ARC's Metamorph submission path

This directory holds TLA+ models of five parts of ARC:
* the transaction-submission path (`src/metamorph/server.go`,
  `src/metamorph/processor_response_map.go`);
* the batch call `PutTransactions` (`src/metamorph/server.go`), with an
  abstract specification it is shown to implement;
* the connection to one Bitcoin node (`src/p2p/Peer.go`, with the INV send of
  `PeerManager.sendInvBatch`);
* the HTTP callback dispatcher (`src/metamorph/callbacker.go`), with an
  abstract specification it is shown to implement;
* BlockTx's gap query (`src/blocktx/store/sql/get_block_gaps.go`) and the gap
  filler that drives it.

It also holds the TLC configurations that check the models on small instances,
and TLAPS proofs of fifteen theorems that hold for every instance size.

## The system

ARC accepts transactions from clients and broadcasts them to a Bitcoin-family
network. The parts that take part in a submission:

* **Metamorph server** (`server.go`). `PutTransaction` runs
  `putTransactionInit`:
  1. It registers the hash with **BlockTx** (`RegisterTransaction`). BlockTx
     answers with the first instance that registered the hash (the *owner*),
     and with the block hash if the transaction is already mined.
  2. A non-owner whose store is not centralised forwards the request over gRPC
     to the owner. The forwarded copy is tagged in its metadata; a tagged
     request that would be forwarded again fails ("endless forwarding loop").
  3. A mined transaction is stored (`store.Set`) and then marked MINED
     (`store.UpdateMined`).
  4. `checkStore` returns an existing record as the answer.
  5. With `forceCheckUtxos`, the inputs are checked against a node.
  6. `processTransaction` hands the request, with a one-slot response
     channel, to the processor. It then waits on that channel until the
     client's `WaitForStatus` is reached (SEEN_ON_NETWORK by default) or the
     timer fires.
* **Metamorph processor** (not in this repository; modelled from spec §4.3).
  It emits RECEIVED, stores the record as STORED, announces it to the peers
  and puts a response entry into the **ProcessorResponseMap**. Peer events
  then move the entry's status forward (`SendStatusForTransaction`). A
  check-if-mined loop stores MINED and deletes the entry. An expiry loop
  re-announces stale entries, or rejects them after `MaxRetries`.
* **ProcessorResponseMap** (`processor_response_map.go`). It maps a hash to
  its entry. `Set` replaces the entry. A ticker calls `Clean`, which deletes
  every expired entry whatever its status and writes nothing to the store.
* **BlockTx** (server code not in this repository). It keeps the
  first-registrant owner of each hash and the hashes seen in blocks.

* **Peer** (`p2p/Peer.go`). One connection to one node. It runs four
  goroutines that share `readConn`, `writeConn` and the two handshake flags
  under a mutex:
  * the reconnect loop, which calls `connect` every 10 s unless `Connected`;
  * one read handler per dialled connection;
  * the write handler, which drains the 100-slot `writeChan`;
  * the ping ticker.

  The Metamorph model abstracts the peers to the statuses they report.

* **Callback dispatcher** (`metamorph/callbacker.go`). `SendCallback` POSTs a
  transaction's status to the client's URL. It makes up to 5 tries; a
  non-200 answer is followed by a sleep that starts at 5 s and doubles. The
  processor (not in this repository) starts one per notification: SEEN and
  MINED (spec 4.3).

* **Gap filler** (BlockTx; the filler is not in this repository, spec 4.5).
  On every tick the primary calls `GetBlockGaps(range)` and requests each
  reported block from a peer. The query scans the heights
  `max(height) - range .. max(height)`, keeps those with no block, and joins
  each to the block one above it, whose `prevhash` is the missing block's
  hash. Each row's height is scanned into a `uint64`.

BlockTx's primary election and startup are not modelled (see the last
section).

## Modules

| Module | Contents |
|---|---|
| `Metamorph.tla` | The fleet: constants, state, every handler step, the processor, the map loops, BlockTx, the properties and the inductive invariant. |
| `MCMetamorph.tla` | Model values for TLC: wait targets, peer statuses, symmetry. |
| `MetamorphProofs.tla` | TLAPS proofs of `TypeOK`, `OwnerOnlyStores` and `OwnerInductive`. |
| `MetamorphStoreProofs.tla` | TLAPS proofs of `StoreInductive` and `MinedHasBlock`. |
| `Peer.tla` | One peer: connections, the reconnect loop, read and write handlers, the senders, the properties and the inductive invariant. |
| `MCPeer.tla` | Fault-kind sets for TLC. |
| `CallbackAbs.tla` | What the dispatcher promises: notifications started in order, at most `CallbackTries` attempts each, ended by an acknowledgement or given up after the last attempt. |
| `Callbacker.tla` | `SendCallback` goroutines and the client endpoint, the properties, the inductive invariant, and the refinement mapping to `CallbackAbs`. |
| `MCCallbacker.tla` | The TLC instance (constants in the cfgs). |
| `CallbackerProofs.tla` | TLAPS proofs of `CallbackTypeOK`, `AttemptsBounded`, `CallbackInductive`, and that `Callbacker` implements the safety part of `CallbackAbs`. |
| `PeerProofs.tla` | TLAPS proofs of `PeerTypeOK`, `WriteAfterHandshake` and `PeerInductive`. |
| `BlockGaps.tla` | `GetBlockGaps` as an operator, the filler's tick, peers answering or losing requests, new blocks, and the properties. |
| `MCBlockGaps.tla` | The TLC instance (constants in the cfgs). |
| `BlockGapsProofs.tla` | TLAPS proofs of `RequestsAreRealHeights` and `GapQuerySound`. |
| `BatchAbs.tla` | What `PutTransactions` promises: fail as a whole, or answer each element in input order. |
| `Batch.tla` | `PutTransactions`: the loop, `processTxsInputMap`, the per-element goroutines, `wg.Wait`, the asynchronous processor, and the refinement mapping to `BatchAbs`. |
| `MCBatch.tla` | A batch of distinct transactions and one with a repeat. |
| `BatchProofs.tla` | TLAPS proof that `Batch` implements the safety part of `BatchAbs` for every batch without a repeated hash. |

### State (`Metamorph.tla`)

| Variable | Code |
|---|---|
| `registry`, `mined` | BlockTx's owner of each hash and whether it saw the hash in a block |
| `store[i][t]` | the status of the record of `t` in the store instance `i` uses (`StoreOf(i)`: one shared store when `Centralised`), or `NoRecord` |
| `inMap[i]`, `entry[i][t]` | the keys and the entries (status, retries, owning call) of instance `i`'s ProcessorResponseMap |
| `announced[t]` | how many times the peer manager was asked to announce `t` |
| `pc`, `inst`, `tx`, `wait`, `last`, `timedOut` | one handler per call. A call is a client request `<<r,"client">>` or its forwarded copy `<<r,"fwd">>` (`createForwardedContext` / `isForwarded`). `last` is the status the handler would return. |
| `chan[c]`, `out[c]` | the one-slot response channel, and a status the processor is blocked sending into it |
| `ppc[c]` | where the processor's `ProcessTransaction` for call `c` is |

### Actions

Each handler action is one step of `putTransactionInit` or
`processTransaction`, in the order the code runs them:
`PutTransaction`, `RegisterTransaction`, `ForwardReturned`, `StoreSetMined`,
`UpdateMined`, `CheckStore`, `CheckUtxos`, `ProcessTransaction`,
`ReceiveStatus` and `Timeout`.

The RPC errors are actions of their own (`RpcFailure`):
`RegisterTransactionFailed` (line 389) and `ForwardFailed` (the dial error at
line 404 and the forwarded call's error at line 413). A failed
`RegisterTransaction` may or may not have reached BlockTx.

The processor's steps are `ProcGet`, `ProcStore` (which may fail),
`ProcAnnounce`, `ProcAddMap` and `Deliver`. `Deliver` completes a blocked send
on the response channel, or drops it after the handler has returned.

The other actions are `SendStatusForTransaction`,
`SendStatusMinedForTransaction`, `ProcessExpiredTransaction`, `Clean` and
`BlockMined`. The processor's loops reach the map only through its operations,
and those are helpers of their own:
* `MapItems` is `Items` with a status filter;
* `MapDelete` is `Delete`;
* `MapIncrementRetry` is `IncrementRetry`.

Abstractions:

* **Data.** A transaction is a model value, and a status is its ordinal in
  `metamorph_api.Status`.
* **Timing.** "Expired" means the entry's handler has stopped waiting. The
  expiry window (15 min) is far longer than the response timeout.
* **Validation.** `ValidateCallbackURL`'s early error is left out. It returns
  before any state is touched, so it is the same as a request never sent.
* **Panics.** A panic (`CheckUtxos`) ends only the handler that raised it. The
  real process would die.

## Runs

All runs use `MCMetamorph`: two instances with per-instance stores, one
transaction and two requests, symmetric in instances and requests. That is the
smallest instance in which the same transaction reaches two instances
concurrently, is forwarded, and is resubmitted to its owner.

| Run | Expect | Checks |
|---|---|---|
| `fleet` | pass | `OwnerInductive` and `StoreInductive` (the strengthenings the proofs use), `TypeOK`, `OwnerOnlyStores` (only the registered owner ever holds a record), `MinedHasBlock`. `MaxRetries = 1`, so a retry and an exhaustion both happen. |
| `live` | pass | `RequestsAnswered`: every client request, forwarded or not, is answered. One instance forces the UTXO check. |
| `announce` | violation | `AnnouncedOnce` (spec S3: one announcement across the fleet). Two submissions to the owner both pass `checkStore` (line 451) before either stores the record, and both are announced. |
| `monotonic` | violation | `StoreStatusMonotonic` (spec 4.3/8.5). Resubmitting a transaction BlockTx reports mined makes `store.Set` at line 428 overwrite the record with UNKNOWN. It stays UNKNOWN if `UpdateMined` then fails. |

One more bug is kept in the model without a run. Line 460 calls
`err.Error()` before checking `err` for nil, so a successful UTXO check
panics the handler (`pc = "panicked"`). A unit test with `forceCheckUtxos`
reaches it at once, so the run budget goes to interleavings instead. In
the model a panicked handler is one of the `Final` states, so
`RequestsAnswered` counts it as an answer; in the program the panic ends the
whole process, and every other request on that instance with it.

Two properties were dropped because the model's shape makes them hold,
whatever `server.go` and `processor_response_map.go` do:
* "every response entry has a record" holds because the processor maps a
  hash only after its store write, and no step removes a record. It stays
  as the conjunct `EntryHasRecord` of `StoreInductive`, which needs it.
* "an entry's status only advances while the entry of the same call stays"
  restates `StatusAccepted`. The case that matters is `Set` replacing the
  entry (`processor_response_map.go:56`). In the race of the `announce`
  run, a second submission's processor writes STORED over the record and
  replaces a SEEN_ON_NETWORK entry with an ANNOUNCED_TO_NETWORK one of its
  own call. The first handler then receives no further status. The hazards
  list records this; it would be a violation run on the `announce` trace.

Each property of a passing run is killed by a mutant of the code it depends
on (see `PROJECT.json`). Examples:
* `OwnerOnlyStores` is killed when BlockTx lets the last registrant win.
* `RequestsAnswered` is killed when a forwarding caller waits only for a
  successful return from the owner.

### Fairness

`Spec` assumes weak fairness of every handler step and every processor step.
The justification:
* the processor and the Go scheduler keep running a goroutine that is able to
  proceed;
* the response timer always fires;
* BlockTx answers `RegisterTransaction`.

The RPC failures (`RpcFailure`) carry no fairness: an error may happen but
need not. The peer events, the map loops and `BlockMined` carry none either.
`RequestsAnswered` therefore holds because every waiting handler's timer
fires, not because the network answers.

## Proofs (`MetamorphProofs.tla`, TLAPS)

The proofs assume the constants' named assumptions (`ASSUME`s in
`Metamorph.tla`): finite non-empty sets of instances, transactions and
requests, `MaxRetries \in Nat`, and the status sets within `Status`.

* `TypeCorrect`: `Spec => []TypeOK`. It is proved with one step per action,
  each split into the conjuncts the action changes. It rests on lemmas about
  `Calls` and the shape of `store`.
* `OwnerOnlyStoresHolds`: `Spec => []OwnerOnlyStores`. `OwnerOnlyStores` is
  not inductive. A handler about to run `ProcessTransaction` at a non-owner
  would break it in one step, and so would a response entry at a non-owner.
  The proof uses `OwnerInductive`, which adds:
  1. an idle call has no processor;
  2. a client that has not registered has no forwarded copy running;
  3. with per-instance stores, every handler past registration, every
     started processor and every response entry runs at the registered owner
     of its hash.

  Registration is first-wins, so the registry of a hash never changes once
  set. That is why the facts survive every step. `OwnerInductive` is checked
  by the `fleet` run, and the proof shows Init ⇒ OwnerInductive and that
  OwnerInductive is preserved by every action.
* `OwnerInductiveHolds`: `Spec => []OwnerInductive`, from the same two
  lemmas.

## Proofs (`MetamorphStoreProofs.tla`, TLAPS)

These theorems have one hypothesis, `PeersNeverReportMined`
(`MINED \notin NetStatuses`). Peers report inv, getdata and reject
observations. MINED comes only from BlockTx, through `UpdateMined` in
`putTransactionInit` and through the check-if-mined loop (spec 4.3, "MINED
... from the authoritative block-observation path"). The processor that
dispatches peer events is not in `src/`, so this is a fact of the spec. The
runs' `MCNetStatuses` satisfies it. Without it, a peer's MINED would break
`MinedHasBlock` directly.

* `StoreInductiveHolds`: `Spec => []StoreInductive`. `StoreInductive` is
  `OwnerInductive` plus these facts:
  1. `MinedAhead`: a handler on the mined path has a block for its hash;
  2. `MinedHasBlock`;
  3. `ProcessorsHaveRecord`: a processor past `store.Set` has its record;
  4. `EntryHasRecord`: every response entry has a record in its store;
  5. `EntryNotMined`: no entry is MINED, since MINED deletes the entry;
  6. `EntryCallsDone`: an entry's call has finished `ProcessTransaction`;
  7. `ProcessorAfterProcess`: a processor runs only for a waiting or
     returned handler.

  `MinedHasBlock` and `EntryHasRecord` alone are not inductive. The step
  that writes MINED in `UpdateMined` needs (1). The step that adds an entry
  in `ProcAddMap` needs (3). The proof has one step per action. Frame lemmas
  cover the steps that move only a handler (`PcOnlyStep`) or touch no data
  (`QuietStep`). `StoreWriteFacts` covers a single store write, and two
  lemmas cover the record `EXCEPT` of `SendStatusForTransaction` and of
  `IncrementRetry`. TLC checks `StoreInductive` in the `fleet` run. It was
  also checked once with a centralised store, which holds as well.
* `MinedHasBlockHolds` follows from it.

Only TLC checks the liveness property `RequestsAnswered`. It needs fairness
and ENABLED, which are beyond TLAPS's non-temporal backends.

## The Peer model (`Peer.tla`)

### State

| Variable | Code |
|---|---|
| `readConn`, `writeConn` | `p.readConn`, `p.writeConn`: a connection number `1..MaxDials` (the order it was dialled) or `NoConn` (nil) |
| `sentVerAck`, `receivedVerAck` | the two atomic handshake flags |
| `conn[k]` | the socket of dial `k`: unused, open, eof (the remote closed it), reset (another read error), closed (by `disconnect`) |
| `remote[k]` | how far the remote's side of the handshake on `k` has gone. A compliant remote answers VERSION with VERSION and VERACK (`gotVersion`, `gotVerack`, set when we write). Our reader consumes them (`versionRead`, `verackRead`). |
| `rd[k]`, `rmsg[k]` | where the read handler of `k` is (read, send a reply, done after EOF, spinning on errors) and the reply it is sending |
| `cpc`, `cconn`, `dials`, `breaks` | the reconnect goroutine's place in its loop or in `connect`, the connection it dialled, and counters bounding dials and faults |
| `wchan`, `wpc`, `wmsg` | `writeChan` as a sequence, and the write handler's place and message |
| `writtenOn`, `delivered`, `reported` | the connections written to, the TXs written on an open socket, and the TXs passed to `HandleTransactionSent` |

### Actions

Each action is one step of the code between two points where another
goroutine can interleave:
* **connect** (lines 92-134): `ConnectReset`, `ConnectDial` (or
  `ConnectDialFailed`), `ConnectWriteVersion`, the poll `ConnectHandshake`,
  and `ConnectSetWrite`;
* **reconnect loop** (lines 63-73): `ReconnectCheck` and `ReconnectSleep`;
* **read handler** (lines 160-254 and `handleGetDataMsg`): `ReadVersion`,
  `ReadVerAck`, `ReadRequest` (a PING or GETDATA), `ReaderSend` (the reply
  into `writeChan`), `ReadEOF` (disconnect and stop), `ReadFailing` (any other
  error: retry forever);
* **write handler** (lines 290-330): `WriterTake`, the nil poll
  `WriterReady`, and `WriterWrite`. `WriterWrite` writes to `p.writeConn`,
  which it reads again without the lock: nil panics, and a TX is reported as
  sent whatever the write returned;
* **senders**: `PingHandler`, `SendInvBatch` and `WriteMsg`, which refuses
  when `writeConn` is nil.

Other actions:
* `Break(k)` is the network: an open socket gets an EOF or a reset.
* `Polling` is a loop sleeping without a state change. Because `Polling`
  and `Crashed` leave every variable unchanged, TLC's deadlock check never
  fires on the peer runs. A circular wait is reachable in the model, as a
  scratch invariant on the `peer_safety` instance showed: the reader blocks
  on a full write channel, the writer waits for `writeConn`, and connect
  polls for handshake flags that only the blocked reader would set. No run
  states it (see the hazards).
* `Crashed` is the stopped process after the panic.

Abstractions:
* Messages are their kinds, plus a TX id.
* INV, BLOCK and REJECT dispatch only call the peer handler and are left out.
* A write of VERACK or VERSION to a broken socket is as good as lost.
* A write never returns `io.EOF` on a TCP socket (it returns an `OpError`), so
  the `WRITE EOF` panic at line 306 is not a branch of the model.
* `utils.SafeSend` (not in this repository) is taken to be a blocking send.

### Runs

All Peer runs use `MCPeer`.

| Run | Expect | Checks |
|---|---|---|
| `peer_safety` | pass | `PeerTypeOK`, `PeerInductive` (the strengthening the proof uses), and `WriteAfterHandshake`: no message is written on a connection before both VERACKs of its handshake. |
| `peer_panic` | violation | `NoWritePanic`. A read EOF disconnects between the write handler's nil check (line 298) and its write to `p.writeConn` (line 304). |
| `peer_reconnect` | violation | `Reconnects` (spec 4.1). A fault during the handshake leaves `connect` polling the flags forever (line 121). In the trace, a stale reader's EOF `disconnect` closes the new connection (line 82). |

Two more disagreements with the spec are listed as hazards, with no run of
their own:
* A read error other than `io.EOF` (a reset) is retried forever (line 175)
  without disconnecting, so `Connected` stays true and the peer never
  redials. `Reconnects` catches it when the cfg's `BreakKinds` holds only
  `"reset"`.
* A TX whose write failed is still passed to `HandleTransactionSent`
  (line 313). The spec does not say whether that counts as sent; the model
  keeps both histories (`delivered`, `reported`).

Bounds of the passing run:
* `MaxDials = 3`, so a stale reader of an old connection can act during a
  later handshake.
* `MaxBreaks = 2`, with faults of both kinds.
* A 2-slot channel and 2 sends, so the channel fills and the reader blocks.
* 2 remote requests and one TX.

The passing run reaches 3.6 million distinct states.

`Reconnects` assumes weak fairness:
* of the reconnect goroutine, which runs on a 10 s timer;
* of each read handler;
* of the write handler.

The Go scheduler runs every goroutine that can proceed. The network's faults
and the remote's requests carry no fairness. `Reconnects` is conditioned on
the dial budget not being exhausted.

### Proofs (`PeerProofs.tla`)

The proofs assume `PeerConstAssumption`:
* naturals for the bounds;
* a non-zero channel capacity;
* fault kinds within {eof, reset}.

They prove two theorems:
* `PeerTypeCorrect` proves `Spec => []PeerTypeOK`, with one step per action.
* `WriteAfterHandshakeHolds` proves `Spec => []WriteAfterHandshake`.
* `PeerInductiveHolds` proves `Spec => []PeerInductive`, the strengthening
  the `peer_safety` run checks.

`WriteAfterHandshake` is not inductive, so the proof uses `PeerInductive`. It
adds these facts:
1. connections are dialled in order, and an unused one has no handshake;
2. `readConn`, `writeConn` and `cconn` were dialled;
3. the remote's VERACK follows its VERSION;
4. an open connection whose handshake is half read is the one `connect` is
   polling;
5. the flags are false while dialling. In the poll, `sentVerAck` implies our
   reader read VERSION on `cconn`, and `receivedVerAck` implies it read
   VERACK. When `writeConn` is about to be set, `cconn` is handshaken;
6. a non-nil `writeConn` is handshaken.

Fact 4 is what rules out a stale reader setting a flag for the new
connection. It holds because a connection whose handshake is half read is
always the last one dialled, and `connect` resets the flags before dialling.

## The callback model (`Callbacker.tla`)

Callback `c` carries the `c`-th status reached, so a higher `c` is a later
status.

### State

| Variable | Meaning |
|---|---|
| `pc[c]` | where `SendCallback` of `c` is |
| `try[c]` | the loop index `i` |
| `sleepDuration[c]` | the current sleep duration |
| `posts[c]`, `oks[c]` | POSTs made and 200s received |
| `received` | the notifications the client's endpoint accepted, in order |

### Actions

* `Start(c)`: the processor's `go SendCallback`, after the earlier statuses.
* `LoopTest(c)`: `i < CallbackTries`, or log and give up.
* `Post(c, outcome, accepted)`: `httpClient.Do` with one of three outcomes:
  * a transport error, which continues at once (line 66);
  * a 200, which returns;
  * another status code.

  A failed POST may still have been accepted by the endpoint.
* `Sleep(c)`: `time.Sleep`, then `sleepDuration *= 2`, then `i++`.

### Runs

All runs use the real constants: 5 tries, a 5 s interval, and two
notifications.

| Run | Expect | Checks |
|---|---|---|
| `cb_safety` | pass | `CallbackTypeOK`, `CallbackInductive`, and `AttemptsBounded`: at most 5 POSTs, none after a 200, abandoned only after 5 failed POSTs. Also `CallbacksEnd`: every started callback returns, under weak fairness of each goroutine and of the processor starting it. And `ImplementsCallbackAbs`, the refinement of `CallbackAbs` with its fairness. |

Spec 4.4 says the delay is "doubled on each failure". A transport error
(line 66) neither sleeps nor doubles the delay. `Post`'s error branch models
this as the code has it, and the hazards list it. No run states the spec's
schedule, because the run budget goes to properties the code is meant to
satisfy.

### Proofs (`CallbackerProofs.tla`)

The proofs assume `CallbackConstAssumption` (positive naturals).
* `AttemptsBoundedHolds` proves `Spec => []AttemptsBounded`.
* `CallbackTypeCorrect` proves `Spec => []CallbackTypeOK`.
* `CallbackInductiveHolds` proves `Spec => []CallbackInductive`, the
  strengthening the `cb_safety` run checks.

Both rest on `CallbackInductive`:
* POSTs equal the loop index, plus one while the answer of the current POST
  is being handled or after a 200;
* `oks` is 1 exactly when the callback is done;
* the index is below `CallbackTries` while a POST is in flight, and equal to
  it once the callback is abandoned.

There is one lemma per action.

### Abstract specification and refinement

`CallbackAbs` is spec 4.3's promise for the notifications of one
transaction. Its state is, per notification, a status (idle, sending,
delivered, abandoned) and a count of attempts, and the sequence the
endpoint accepted. Its steps:
* `Begin(c)`: once every earlier notification has begun;
* `Attempt(c, reached, acked)`: only while attempts remain; an acknowledged
  attempt ends `c` as delivered, and an attempt may reach the endpoint
  without being acknowledged;
* `GiveUp(c)`: only once every attempt is spent.

The mapping (`absStatus`, `StatusOf` in `Callbacker.tla`) sends `pc` to the
status: the loop test, the POST and the sleep are all "sending". The
attempts are `posts`, and `received` is itself.

`CallbackRefinesAbs` proves `Spec => CallbackAbsSafety`, the abstract
`AbsInit /\ [][AbsNext]_avars`, from `CallbackInductive`.
`CallbackStepRefines` maps the steps:
* `Start` is `Begin`;
* a `Post` is one `Attempt`. Its guard `attempts < CallbackTries` holds
  because the inductive invariant gives `posts = try < CallbackTries` while a
  POST is in flight;
* a `LoopTest` at the bound is `GiveUp`, with `posts = try = CallbackTries`;
* the other loop tests, the sleep and `Terminated` are stutters.

The abstract fairness, that every notification ends, is checked by TLC
only, in `cb_safety`.

## The gap filler (`BlockGaps.tla`)

### State and actions

* `blocks`: the heights of the rows of the `blocks` table.
* `requested`: the heights of the block requests in flight to peers.

Actions:
* `FillGaps`: one tick of the filler. `GetBlockGaps(B)` is the query as a
  set, built from three operators:
  * `Series`: the `generate_series` of the query;
  * the `IS NULL` test, giving the missing heights;
  * the join on `h + 1`.

  `ScanOK` is the `uint64` scan. If any row is negative, the query returns
  only its error, nothing is requested, and the tick changes no state.
* `Answer(h)`: a peer delivers a requested block. A block that is already
  stored is stored once.
* `LoseRequest(h)`: a peer never answers.
* `NewBlock(h)`: any block arrives unrequested. This is a new tip or an
  orphan.

`Init` starts from any stored chain whose tip is at least the constant
`MinTip`.

Fairness:
* The ticker is weakly fair.
* `Answer(h)` is strongly fair. A request may be lost, but the gap is
  reported, and so requested again, on every tick until the block comes.
* `NewBlock` is not fair: it is the network's.

### Runs

| Run | Expect | Checks |
|---|---|---|
| `gaps` | pass | `GapQuerySound`: the query, checked against the set of missing heights, reports only missing heights and always the highest one. `GapsEventuallyFilled` (spec 4.5, S6): the gaps among the last `GapRange` heights are eventually all filled. The filler needs one tick per missing height of a run of gaps. `MaxHeight = 5`, `GapRange = 2`, `MinTip = 2`: heights 0..5, tips from 2, so a run of two missing heights is walked down. |
| `gaps_regtest` | violation | `GapsEventuallyFilled` with `MinTip = 0`, `GapRange = 3`. With blocks {0, 2}, the series is -1..2. Height -1 is a row (block 0 is its successor), and scanning it into a `uint64` fails (line 40). `GetBlockGaps` returns only the error on every tick, so gap 1 is never requested. |

### Proofs (`BlockGapsProofs.tla`)

`RequestsAreRealHeightsHolds` proves `Spec => []RequestsAreRealHeights`:
every requested height is at least 0 and below a stored block. It holds for
every `MaxHeight`, `GapRange` and `MinTip`.

The inductive invariant `GapInductive` adds two conjuncts:
* the type;
* `blocks # {}`.

The argument:
* `GapRowsReal` shows that every row is an integer whose successor is stored.
* `ScanOK` shows that a requested row is not negative.
* Answers, losses and new blocks only remove requests or add blocks.

`GapQuerySoundHolds` proves `Spec => []GapQuerySound` from the same
`GapInductive`, for every `MaxHeight`, `GapRange` and `MinTip`. The query's
`max(height)` (`TipOf`) is a `CHOOSE`, so the proof first needs a greatest
stored height:
* `MaxHeightExists` turns each stored height `b` into the natural
  `MaxHeight - b`. It takes the least of these from the library's
  `WFMin` and `NatLessThanWellFounded`: `<` is well founded on `Nat`.
  Neither theorem has an operator parameter, so the provers can use them.
* `TipIsMax` then gives that the tip is stored and that no stored height
  is above it. This needs `blocks # {}`, from `GapInductive`.
* `QuerySoundInStore`: a reported row is a missing height, and the scan
  makes it non-negative. Take the highest missing height `h`. It is below
  the stored tip, so `h + 1` is in the series. If `h + 1` were not stored,
  it would be a higher missing height. So `h + 1` is stored, and `h` is a
  row.

## The batch call (`Batch.tla`, `BatchAbs.tla`)

`PutTransactions` (server.go 234-310) works in three phases:
1. It loops over the elements. For each one it runs `ValidateCallbackURL`
   and `putTransactionInit`. An element with no answer yet is handed to
   `processor.Set` and recorded in `processTxsInputMap`, under its hash,
   with its index.
2. It starts one goroutine per map entry. Each runs `processTransaction`
   and writes the result into the element's slot.
3. It waits for them all (`wg.Wait`).

### Abstract specification

`BatchAbs` is spec 4.2's `put_transactions`: "status records in input order".
It has two variables:
* `state`: running, returned or failed;
* `out`: the answer.

A call either fails, leaving `out` empty, or returns with slot `i` holding
the status of element `i`. Under `WF` it does one or the other.

### Detailed specification

State:
* `bpc`, `idx`: the handler and its loop index;
* `inputs`: the map, from hash to index, where 0 means absent;
* `resp`: the slots;
* `gpc`: one goroutine per hash;
* `stored`: hashes with a record;
* `queued`: hashes handed to `processor.Set`.

A status is represented by the hash it is about (its `Txid`). How it is
reached is `Metamorph.tla`'s business.

Actions:
* `LoopFail`: any early return. This covers an invalid URL, an error of
  `putTransactionInit` and an error of `processor.Set`.
* `LoopStep(outcome)`: `putTransactionInit`'s outcome is one of three:
  * `forwarded`: the owner's answer;
  * `mined`: the record is stored and then found by `checkStore`;
  * `local`: `checkStore` answers if and only if a record is stored (`HasStatus`).
* `Spawn`: the goroutines are started.
* `Process(h)`: one goroutine returns and writes its slot.
* `Return`: after `wg.Wait`.
* `ProcStore(h)`: the processor, which is not in this repository, stores a
  queued record whenever it likes. `Set` is asynchronous.

The refinement mapping:
* `absState` is running while the handler is in its loop or waiting;
* `absOut` is `resp` once the handler has returned, and empty before.

`ImplementsBatchAbs == Abs!Spec` is checked as a temporal property.

### Runs

| Run | Expect | Checks |
|---|---|---|
| `batch` | pass | `ImplementsBatchAbs` for the batch `<<t1, t2, t3>>`, with any set of records already stored, every outcome and every interleaving of the goroutines and the processor. This includes liveness: the handler and its goroutines are weakly fair, and `processTransaction` always returns, at the latest on its timer. The run has `CHECK_DEADLOCK FALSE` because a returned or failed call is a final state. |
| `batch_duplicate` | violation | `ImplementsBatchAbs` for `<<t1, t2, t1>>`. The processor has not yet stored t1 when the third element reaches `checkStore`. Its entry replaces the first one in `processTxsInputMap` (line 285), so only one goroutine runs for t1. The call returns success with slot 1 nil. |

### Proofs (`BatchProofs.tla`)

`BatchRefinesAbs` proves `Spec => AbsSafety`:
* `AbsSafety` is `Abs!AbsInit /\ [][Abs!AbsNext]_Abs!avars`;
* the hypothesis `Distinct` says no hash occurs twice in the batch;
* it holds for every batch and every `Hashes`.

The inductive invariant `BatchInductive` states:
* every element before the loop index either has its status, or is the
  index `processTxsInputMap` records for its hash;
* a goroutine runs exactly for the recorded hashes after the loop;
* a finished goroutine has written its slot;
* a returned call has every slot set.

`Distinct` is used in one place. It ensures that recording an element
displaces no earlier one (`LoopStepInductive`). Without it, that step is
exactly the `batch_duplicate` counterexample.

`StepRefines` maps the steps:
* `LoopFail` is the abstract `Fail`;
* `Return` is `Respond`, by `ReturnAnswersAll`;
* every other step is a stutter.

The liveness half of `Abs!Spec` is checked by TLC only.

## Not modelled yet, and the plan

* **Callback client** (`callbacker/client.go`). A stateless gRPC client.
* **Order of notifications.** Spec 4.3 calls MINED's the "final callback",
  but the SEEN and MINED POSTs run in separate goroutines and race, even
  without a retry. The order depends on the processor, which is not in this
  repository, so no property states it.
* **Response bodies** in `SendCallback`. They are closed only when the
  function returns (line 68), and are not in the model.
* **PeerManager** (`p2p/PeerManager.go`). The peer set, the choice of one
  peer for requests, and several peers sharing one batch.
* **Peer liveness proofs.** `Reconnects` fails in the code, and fairness is
  beyond TLAPS.
* **Gap query truncation.** `GetBlockGaps` never checks `rows.Err()`, so a
  result cut off mid-stream reads as success. The next tick queries again,
  and the model never truncates a result.
* **`GetPrimary`** (`get_primary.go`). The filler is taken to run on the
  primary. `TryToBecomePrimary`, which writes the row, is not in the
  repository.
* **BlockTx primary ticker** (`cmd/blocktx.go`). Its query is not in the
  repository.
* **Proofs of liveness.** Every safety invariant the runs check has a TLAPS
  proof. The liveness properties (`RequestsAnswered`, `CallbacksEnd`,
  `GapsEventuallyFilled`, and the fairness halves of `ImplementsBatchAbs`
  and `ImplementsCallbackAbs`) need fairness and ENABLED, which TLAPS's
  backends do not handle. They stay with TLC.
