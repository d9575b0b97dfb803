-------------------------------- MODULE Peer --------------------------------
(***************************************************************************)
(* One bitcoin peer connection of ARC's p2p layer (src/p2p/Peer.go) and   *)
(* the INV batches the PeerManager puts on its write channel.  The         *)
(* goroutines are the reconnect loop (which runs connect), one read        *)
(* handler per connection, the write-channel handler, the ping handler and *)
(* the callers of WriteMsg and sendInvBatch.  The remote node is the       *)
(* handshake it answers and the PING and GETDATA messages it may send.     *)
(* A connection can break, with a read error that is io.EOF or another     *)
(* error, a bounded number of times.                                       *)
(***************************************************************************)
EXTENDS Naturals, Sequences, FiniteSets

CONSTANTS
    Txs,            \* transactions a GETDATA may ask for
    NoTx,           \* the tx field of a message that is not a TX
    MaxDials,       \* bound on net.Dial calls (connection ids 1..MaxDials)
    MaxBreaks,      \* bound on network failures (breaks and failed dials)
    BreakKinds,     \* the read errors a broken connection gives
    WriteChanCap,   \* capacity of writeChan (100 in NewPeer)
    MaxSends,       \* bound on PING, INV and WriteMsg messages queued
    MaxRemoteMsgs   \* bound on PING and GETDATA messages the remote sends

ASSUME PeerConstAssumption ==
    /\ NoTx \notin Txs
    /\ MaxBreaks \in Nat /\ MaxDials \in Nat /\ MaxDials > MaxBreaks
    /\ BreakKinds \subseteq {"eof", "reset"} /\ BreakKinds # {}
    /\ WriteChanCap \in Nat \ {0}
    /\ MaxSends \in Nat /\ MaxRemoteMsgs \in Nat

NoConn == 0
Conns == 1..MaxDials
ConnStates == {"unused", "open", "eof", "reset", "closed"}
\* What the remote side of a connection has done: got our VERSION, had its
\* VERSION and its VERACK read by us, got our VERACK.
HsSteps == {"gotVersion", "versionRead", "verackRead", "gotVerack"}
Mk(kind) == [kind |-> kind, tx |-> NoTx]
\* A message on writeChan: a TX carries its transaction, the others none.
Msg == {Mk(kind) : kind \in {"ping", "pong", "inv", "msg"}} \cup [kind : {"tx"}, tx : Txs]

VARIABLES
    readConn, writeConn,          \* p.readConn, p.writeConn (NoConn = nil)
    sentVerAck, receivedVerAck,   \* the atomic handshake flags
    conn,                         \* state of each connection
    remote,                       \* handshake steps done on each connection
    rd, rmsg,                     \* each connection's read handler, its pending send
    cpc, cconn,                   \* the reconnect goroutine and connect's conn
    dials, breaks, sends, remoteMsgs,   \* bounded counters
    wchan,                        \* p.writeChan
    wpc, wmsg,                    \* the write-channel handler and its message
    writtenOn, delivered, reported    \* history: connections written on, TXs
                                      \* the remote got, TXs reported sent

peerVars == <<readConn, writeConn, sentVerAck, receivedVerAck>>
netVars == <<conn, remote, dials, breaks, remoteMsgs>>
vars == <<readConn, writeConn, sentVerAck, receivedVerAck, conn, remote, rd,
          rmsg, cpc, cconn, dials, breaks, sends, remoteMsgs, wchan, wpc,
          wmsg, writtenOn, delivered, reported>>

PeerTypeOK ==
    /\ readConn \in Conns \cup {NoConn} /\ writeConn \in Conns \cup {NoConn}
    /\ sentVerAck \in BOOLEAN /\ receivedVerAck \in BOOLEAN
    /\ conn \in [Conns -> ConnStates]
    /\ remote \in [Conns -> SUBSET HsSteps]
    /\ rd \in [Conns -> {"none", "read", "send", "spin", "done"}]
    /\ rmsg \in [Conns -> Msg]
    /\ cpc \in {"check", "reset", "dial", "version", "handshake", "setWrite", "sleep"}
    /\ cconn \in Conns \cup {NoConn}
    /\ dials \in 0..MaxDials /\ breaks \in 0..MaxBreaks
    /\ sends \in 0..MaxSends /\ remoteMsgs \in 0..MaxRemoteMsgs
    /\ wchan \in Seq(Msg) /\ Len(wchan) <= WriteChanCap
    /\ wpc \in {"take", "wait", "write", "panicked"}
    /\ wmsg \in Msg
    /\ writtenOn \subseteq Conns
    /\ delivered \subseteq Txs /\ reported \subseteq Txs

Init ==
    /\ readConn = NoConn /\ writeConn = NoConn
    /\ sentVerAck = FALSE /\ receivedVerAck = FALSE
    /\ conn = [k \in Conns |-> "unused"]
    /\ remote = [k \in Conns |-> {}]
    /\ rd = [k \in Conns |-> "none"]
    /\ rmsg = [k \in Conns |-> Mk("msg")]
    /\ cpc = "check" /\ cconn = NoConn
    /\ dials = 0 /\ breaks = 0 /\ sends = 0 /\ remoteMsgs = 0
    /\ wchan = <<>>
    /\ wpc = "take" /\ wmsg = Mk("msg")
    /\ writtenOn = {} /\ delivered = {} /\ reported = {}

\* Peer.Connected: both connections are set.
Connected == readConn # NoConn /\ writeConn # NoConn

\* Mutant: the channel never fills.
ChanHasRoomUnbounded == TRUE

\* A send on writeChan does not block.
ChanHasRoom == Len(wchan) < WriteChanCap

(***************************************************************************)
(* Peer.disconnect: close the read connection and clear both connections  *)
(* and both handshake flags, under the mutex.                              *)
(***************************************************************************)
Disconnect ==
    /\ conn' = IF readConn # NoConn THEN [conn EXCEPT ![readConn] = "closed"] ELSE conn
    /\ readConn' = NoConn /\ writeConn' = NoConn
    /\ sentVerAck' = FALSE /\ receivedVerAck' = FALSE

(***************************************************************************)
(* The reconnect goroutine of NewPeer: every 10 s, connect unless          *)
(* Connected.  connect clears readConn and the flags, dials, sets          *)
(* readConn and starts its read handler, writes VERSION directly on the    *)
(* connection, polls until both VERACKs are done, and only then sets       *)
(* writeConn.  A dial or VERSION write error returns from connect.        *)
(***************************************************************************)
ReconnectCheck ==
    /\ cpc = "check"
    /\ cpc' = IF Connected THEN "sleep" ELSE "reset"
    /\ UNCHANGED <<peerVars, netVars, rd, rmsg, cconn, sends, wchan, wpc, wmsg,
                   writtenOn, delivered, reported>>

ConnectReset ==
    /\ cpc = "reset"
    /\ cpc' = "dial"
    /\ readConn' = NoConn
    /\ sentVerAck' = FALSE /\ receivedVerAck' = FALSE
    /\ UNCHANGED <<writeConn, netVars, rd, rmsg, cconn, sends, wchan, wpc, wmsg,
                   writtenOn, delivered, reported>>

ConnectDial ==
    LET k == dials + 1 IN
    /\ cpc = "dial"
    /\ dials < MaxDials
    /\ dials' = k
    /\ conn' = [conn EXCEPT ![k] = "open"]
    /\ readConn' = k
    /\ rd' = [rd EXCEPT ![k] = "read"]
    /\ cconn' = k
    /\ cpc' = "version"
    /\ UNCHANGED <<writeConn, sentVerAck, receivedVerAck, remote, breaks,
                   remoteMsgs, rmsg, sends, wchan, wpc, wmsg, writtenOn,
                   delivered, reported>>

ConnectDialFailed ==
    /\ cpc = "dial"
    /\ breaks < MaxBreaks
    /\ breaks' = breaks + 1
    /\ cpc' = "sleep"
    /\ UNCHANGED <<peerVars, conn, remote, dials, remoteMsgs, rd, rmsg, cconn,
                   sends, wchan, wpc, wmsg, writtenOn, delivered, reported>>

ConnectWriteVersion ==
    /\ cpc = "version"
    /\ IF conn[cconn] = "open"
       THEN /\ remote' = [remote EXCEPT ![cconn] = @ \cup {"gotVersion"}]
            /\ cpc' = "handshake"
       ELSE /\ cpc' = "sleep"
            /\ UNCHANGED remote
    /\ UNCHANGED <<peerVars, conn, dials, breaks, remoteMsgs, rd, rmsg, cconn,
                   sends, wchan, wpc, wmsg, writtenOn, delivered, reported>>

\* Mutant: connect does not wait for the handshake.
HandshakeDoneNoWait == TRUE

\* The polling loop of connect ends once both VERACK flags are set.
HandshakeDone == receivedVerAck /\ sentVerAck

ConnectHandshake ==
    /\ cpc = "handshake"
    /\ HandshakeDone
    /\ cpc' = "setWrite"
    /\ UNCHANGED <<peerVars, netVars, rd, rmsg, cconn, sends, wchan, wpc, wmsg,
                   writtenOn, delivered, reported>>

ConnectSetWrite ==
    /\ cpc = "setWrite"
    /\ writeConn' = cconn
    /\ cpc' = "sleep"
    /\ UNCHANGED <<readConn, sentVerAck, receivedVerAck, netVars, rd, rmsg,
                   cconn, sends, wchan, wpc, wmsg, writtenOn, delivered, reported>>

ReconnectSleep ==
    /\ cpc = "sleep"
    /\ cpc' = "check"
    /\ UNCHANGED <<peerVars, netVars, rd, rmsg, cconn, sends, wchan, wpc, wmsg,
                   writtenOn, delivered, reported>>

(***************************************************************************)
(* readHandler of connection k.  A compliant remote answers our VERSION    *)
(* with its VERSION and VERACK, and sends PING or GETDATA only after it    *)
(* has our VERACK.  On VERSION the handler writes VERACK straight on the   *)
(* connection and sets sentVerAck; on VERACK it sets receivedVerAck; a     *)
(* PING is answered with a PONG and a GETDATA for a stored TX with the TX, *)
(* both through writeChan.  INV, BLOCK and REJECT only call the peer       *)
(* handler and are left out.                                               *)
(***************************************************************************)
ReadVersion(k) ==
    /\ rd[k] = "read" /\ conn[k] = "open"
    /\ "gotVersion" \in remote[k] /\ "versionRead" \notin remote[k]
    /\ remote' = [remote EXCEPT ![k] = @ \cup {"versionRead", "gotVerack"}]
    /\ sentVerAck' = TRUE
    /\ UNCHANGED <<readConn, writeConn, receivedVerAck, conn, dials, breaks,
                   remoteMsgs, rd, rmsg, cpc, cconn, sends, wchan, wpc, wmsg,
                   writtenOn, delivered, reported>>

ReadVerAck(k) ==
    /\ rd[k] = "read" /\ conn[k] = "open"
    /\ "gotVersion" \in remote[k] /\ "verackRead" \notin remote[k]
    /\ remote' = [remote EXCEPT ![k] = @ \cup {"verackRead"}]
    /\ receivedVerAck' = TRUE
    /\ UNCHANGED <<readConn, writeConn, sentVerAck, conn, dials, breaks,
                   remoteMsgs, rd, rmsg, cpc, cconn, sends, wchan, wpc, wmsg,
                   writtenOn, delivered, reported>>

\* A PING (answered by a PONG) or a GETDATA for t (answered by the TX).
ReadRequest(k, m) ==
    /\ rd[k] = "read" /\ conn[k] = "open"
    /\ "gotVerack" \in remote[k]
    /\ remoteMsgs < MaxRemoteMsgs
    /\ remoteMsgs' = remoteMsgs + 1
    /\ rd' = [rd EXCEPT ![k] = "send"]
    /\ rmsg' = [rmsg EXCEPT ![k] = m]
    /\ UNCHANGED <<peerVars, conn, remote, dials, breaks, cpc, cconn, sends,
                   wchan, wpc, wmsg, writtenOn, delivered, reported>>

\* The send on writeChan blocks while the channel is full.
ReaderSend(k) ==
    /\ rd[k] = "send"
    /\ ChanHasRoom
    /\ wchan' = Append(wchan, rmsg[k])
    /\ rd' = [rd EXCEPT ![k] = "read"]
    /\ UNCHANGED <<peerVars, netVars, rmsg, cpc, cconn, sends, wpc, wmsg,
                   writtenOn, delivered, reported>>

(***************************************************************************)
(* A read error: io.EOF disconnects and ends the handler; any other error  *)
(* (a reset connection, or one closed under the reader) is logged and the  *)
(* handler reads again, forever.                                           *)
(***************************************************************************)
ReadEOF(k) ==
    /\ rd[k] = "read" /\ conn[k] = "eof"
    /\ Disconnect
    /\ rd' = [rd EXCEPT ![k] = "done"]
    /\ UNCHANGED <<remote, dials, breaks, remoteMsgs, rmsg, cpc, cconn, sends,
                   wchan, wpc, wmsg, writtenOn, delivered, reported>>

ReadFailing(k) ==
    /\ rd[k] = "read" /\ conn[k] \in {"reset", "closed"}
    /\ rd' = [rd EXCEPT ![k] = "spin"]
    /\ UNCHANGED <<peerVars, netVars, rmsg, cpc, cconn, sends, wchan, wpc, wmsg,
                   writtenOn, delivered, reported>>

(***************************************************************************)
(* writeChannelHandler: take a message, poll until writeConn is set, then  *)
(* write it to p.writeConn read again without the mutex.  A nil            *)
(* connection panics in WriteMessage; a write error is logged.  For a TX,  *)
(* HandleTransactionSent is called whatever the write returned.            *)
(***************************************************************************)
WriterTake ==
    /\ wpc = "take" /\ wchan # <<>>
    /\ wmsg' = Head(wchan) /\ wchan' = Tail(wchan)
    /\ wpc' = "wait"
    /\ UNCHANGED <<peerVars, netVars, rd, rmsg, cpc, cconn, sends, writtenOn,
                   delivered, reported>>

WriterReady ==
    /\ wpc = "wait" /\ writeConn # NoConn
    /\ wpc' = "write"
    /\ UNCHANGED <<peerVars, netVars, rd, rmsg, cpc, cconn, sends, wchan, wmsg,
                   writtenOn, delivered, reported>>

WriterWrite ==
    /\ wpc = "write"
    /\ IF writeConn = NoConn
       THEN /\ wpc' = "panicked"
            /\ UNCHANGED <<writtenOn, delivered, reported>>
       ELSE /\ wpc' = "take"
            /\ writtenOn' = writtenOn \cup {writeConn}
            /\ delivered' = IF wmsg.kind = "tx" /\ conn[writeConn] = "open"
                            THEN delivered \cup {wmsg.tx} ELSE delivered
            /\ reported' = IF wmsg.kind = "tx" THEN reported \cup {wmsg.tx} ELSE reported
    /\ UNCHANGED <<peerVars, netVars, rd, rmsg, cpc, cconn, sends, wchan, wmsg>>

(***************************************************************************)
(* Messages queued by other goroutines: the ping ticker's PING, the        *)
(* PeerManager's INV batch (SafeSend, whether connected or not) and        *)
(* WriteMsg, which refuses when writeConn is nil.                          *)
(***************************************************************************)
Enqueue(m) ==
    /\ sends < MaxSends /\ ChanHasRoom
    /\ sends' = sends + 1
    /\ wchan' = Append(wchan, m)
    /\ UNCHANGED <<peerVars, netVars, rd, rmsg, cpc, cconn, wpc, wmsg,
                   writtenOn, delivered, reported>>

PingHandler == Enqueue(Mk("ping"))

SendInvBatch == Enqueue(Mk("inv"))

WriteMsg == writeConn # NoConn /\ Enqueue(Mk("msg"))

\* The network breaks an open connection.
Break(k) ==
    /\ conn[k] = "open" /\ breaks < MaxBreaks
    /\ breaks' = breaks + 1
    /\ conn' \in {[conn EXCEPT ![k] = e] : e \in BreakKinds}
    /\ UNCHANGED <<peerVars, remote, dials, remoteMsgs, rd, rmsg, cpc, cconn,
                   sends, wchan, wpc, wmsg, writtenOn, delivered, reported>>

(***************************************************************************)
(* The polling loops that never block: connect waiting for the handshake   *)
(* flags, the write handler waiting for writeConn (100 ms sleeps), and a   *)
(* read handler retrying a failing read.                                   *)
(***************************************************************************)
Polling ==
    /\ \/ cpc = "handshake" /\ ~HandshakeDone
       \/ wpc = "wait" /\ writeConn = NoConn
       \/ \E k \in Conns : rd[k] = "spin"
    /\ UNCHANGED vars

\* A panic in the write handler ends the process.
Crashed == wpc = "panicked" /\ UNCHANGED vars

Reconnect ==
    \/ ReconnectCheck \/ ConnectReset \/ ConnectDial \/ ConnectWriteVersion
    \/ ConnectHandshake \/ ConnectSetWrite \/ ReconnectSleep

Reader(k) ==
    \/ ReadVersion(k) \/ ReadVerAck(k) \/ ReaderSend(k) \/ ReadEOF(k)
    \/ ReadFailing(k)

Writer == WriterTake \/ WriterReady \/ WriterWrite

Next ==
    \/ /\ wpc # "panicked"
       /\ \/ Reconnect \/ ConnectDialFailed \/ Writer
          \/ PingHandler \/ SendInvBatch \/ WriteMsg \/ Polling
          \/ \E k \in Conns : \/ Reader(k) \/ Break(k)
                              \/ ReadRequest(k, Mk("pong"))
                              \/ \E t \in Txs : ReadRequest(k, [kind |-> "tx", tx |-> t])
    \/ Crashed

(***************************************************************************)
(* The goroutines run when they can (weak fairness); so does the remote's  *)
(* handshake, which a compliant node answers.  Breaks, failed dials and    *)
(* the messages the remote or the other goroutines choose to send are not  *)
(* fair.                                                                   *)
(***************************************************************************)
Fairness ==
    /\ WF_vars(wpc # "panicked" /\ Reconnect)
    /\ WF_vars(wpc # "panicked" /\ Writer)
    /\ \A k \in Conns : WF_vars(wpc # "panicked" /\ Reader(k))

Spec == Init /\ [][Next]_vars /\ Fairness

-----------------------------------------------------------------------------
(***************************************************************************)
(* The comment in connect (write channel not ready until the VERACK        *)
(* handshake is done): nothing from writeChan is written on a connection   *)
(* before we read the remote's VERACK and it got ours.                     *)
(***************************************************************************)
WriteAfterHandshake ==
    \A k \in writtenOn : {"verackRead", "gotVerack"} \subseteq remote[k]

(***************************************************************************)
(* The write handler never panics: writeConn is not cleared between its    *)
(* nil check and the write (Peer.go writeChannelHandler).                  *)
(***************************************************************************)
NoWritePanic == wpc # "panicked"

\* A handshaken, open connection is the read and the write connection.
Live == readConn # NoConn /\ writeConn = readConn /\ conn[readConn] = "open"

(***************************************************************************)
(* Spec 4.1 (an I/O fault disconnects, the supervisory loop redials):    *)
(* once the network stops failing, the peer ends up connected over a live *)
(* connection for good, in every run that never needs more than MaxDials  *)
(* dials.                                                                  *)
(***************************************************************************)
Reconnects == [](cpc = "dial" => dials < MaxDials) => <>[]Live

-----------------------------------------------------------------------------
(***************************************************************************)
(* WriteAfterHandshake made inductive.  Connections are dialled in order   *)
(* and an undialled one has no history.  While the remote's VERSION or     *)
(* VERACK is still to be read on an open connection, that connection is    *)
(* the one connect is waiting on; so a handshake flag can only be set by   *)
(* the reader of connect's own connection, the flags are clear while it   *)
(* dials, and writeConn, and the connection about to become it, have       *)
(* finished the handshake.                                                 *)
(***************************************************************************)
Handshaken(k) == {"verackRead", "gotVerack"} \subseteq remote[k]

DialledInOrder ==
    \A k \in Conns : (k > dials) = (conn[k] = "unused") /\ (conn[k] = "unused" => remote[k] = {})

ConnsDialled == readConn <= dials /\ writeConn <= dials /\ cconn <= dials

VersionBeforeVerack ==
    \A k \in Conns : "versionRead" \in remote[k] => "gotVerack" \in remote[k]

PendingIsConnecting ==
    \A k \in Conns :
        conn[k] = "open" /\ "gotVersion" \in remote[k]
        /\ ~({"versionRead", "verackRead"} \subseteq remote[k])
        => k = cconn /\ cpc = "handshake"

FlagsOfConnecting ==
    /\ cpc \in {"version", "handshake", "setWrite"} => cconn \in Conns
    /\ cpc \in {"dial", "version"} => ~sentVerAck /\ ~receivedVerAck
    /\ cpc = "handshake" => /\ sentVerAck => "versionRead" \in remote[cconn]
                            /\ receivedVerAck => "verackRead" \in remote[cconn]
    /\ cpc = "setWrite" => Handshaken(cconn)

WriteConnHandshaken == writeConn # NoConn => Handshaken(writeConn)

PeerInductive ==
    /\ PeerTypeOK /\ DialledInOrder /\ ConnsDialled /\ VersionBeforeVerack
    /\ PendingIsConnecting /\ FlagsOfConnecting /\ WriteConnHandshaken
    /\ WriteAfterHandshake

=============================================================================
