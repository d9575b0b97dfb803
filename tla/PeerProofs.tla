----------------------------- MODULE PeerProofs -----------------------------
(***************************************************************************)
(* Proofs about Peer for every value of the constants: the type invariant, *)
(* and that nothing from the write channel is written on a connection      *)
(* before its VERACK handshake is done.                                    *)
(***************************************************************************)
EXTENDS Peer, TLAPS

USE PeerConstAssumption

\* The messages the goroutines queue are well formed.
LEMMA MsgFacts ==
    /\ \A kind \in {"ping", "pong", "inv", "msg"} : Mk(kind) \in Msg
    /\ \A t \in Txs : [kind |-> "tx", tx |-> t] \in Msg
BY DEF Mk, Msg

\* Queueing a message on a channel with room keeps it a bounded sequence.
LEMMA AppendType ==
    ASSUME PeerTypeOK, ChanHasRoom, NEW m \in Msg
    PROVE  Append(wchan, m) \in Seq(Msg) /\ Len(Append(wchan, m)) <= WriteChanCap
BY DEF PeerTypeOK, ChanHasRoom

-----------------------------------------------------------------------------
(***************************************************************************)
(* Type correctness.                                                       *)
(***************************************************************************)

\* The initial peer is well typed.
LEMMA PeerTypeInit == Init => PeerTypeOK
<1> SUFFICES ASSUME Init PROVE PeerTypeOK
  OBVIOUS
<1>1. rmsg \in [Conns -> Msg] /\ wmsg \in Msg
  BY MsgFacts DEF Init
<1>2. /\ conn \in [Conns -> ConnStates] /\ remote \in [Conns -> SUBSET HsSteps]
      /\ rd \in [Conns -> {"none", "read", "send", "spin", "done"}]
  BY DEF Init, ConnStates
<1>3. wchan \in Seq(Msg) /\ Len(wchan) <= WriteChanCap
  BY DEF Init
<1>4. /\ dials \in 0..MaxDials /\ breaks \in 0..MaxBreaks
      /\ sends \in 0..MaxSends /\ remoteMsgs \in 0..MaxRemoteMsgs
  BY DEF Init
<1>5. /\ readConn \in Conns \cup {NoConn} /\ writeConn \in Conns \cup {NoConn}
      /\ cconn \in Conns \cup {NoConn}
  BY DEF Init
<1>. QED
  BY <1>1, <1>2, <1>3, <1>4, <1>5 DEF Init, PeerTypeOK

(***************************************************************************)
(* Every goroutine's step keeps the peer well typed: one step per action.  *)
(***************************************************************************)
LEMMA PeerTypeNext == PeerTypeOK /\ [Next]_vars => PeerTypeOK'
<1> SUFFICES ASSUME PeerTypeOK, [Next]_vars PROVE PeerTypeOK'
  OBVIOUS
<1>1. CASE ReconnectCheck
  BY <1>1 DEF ReconnectCheck, PeerTypeOK, peerVars, netVars
<1>2. CASE ConnectReset
  BY <1>2 DEF ConnectReset, PeerTypeOK, peerVars, netVars, NoConn
<1>3. CASE ConnectDial
  BY <1>3 DEF ConnectDial, PeerTypeOK, Conns, ConnStates
<1>4. CASE ConnectDialFailed
  BY <1>4 DEF ConnectDialFailed, PeerTypeOK, peerVars
<1>5. CASE ConnectWriteVersion
  BY <1>5 DEF ConnectWriteVersion, PeerTypeOK, peerVars, HsSteps, NoConn
<1>6. CASE ConnectHandshake
  BY <1>6 DEF ConnectHandshake, PeerTypeOK, peerVars, netVars
<1>7. CASE ConnectSetWrite
  BY <1>7 DEF ConnectSetWrite, PeerTypeOK, netVars
<1>8. CASE ReconnectSleep
  BY <1>8 DEF ReconnectSleep, PeerTypeOK, peerVars, netVars
<1>9. CASE WriterTake
  BY <1>9 DEF WriterTake, PeerTypeOK, peerVars, netVars
<1>10. CASE WriterReady
  BY <1>10 DEF WriterReady, PeerTypeOK, peerVars, netVars
<1>11. CASE WriterWrite
  <2>1. CASE writeConn = NoConn
    BY <1>11, <2>1 DEF WriterWrite, PeerTypeOK, peerVars, netVars
  <2>2. CASE writeConn # NoConn
    <3>1. writeConn \in Conns /\ (wmsg.kind = "tx" => wmsg.tx \in Txs)
      BY <2>2 DEF PeerTypeOK, Msg, Mk
    <3>2. /\ wpc' = "take"
          /\ writtenOn' = writtenOn \cup {writeConn}
          /\ delivered' \in {delivered, delivered \cup {wmsg.tx}}
          /\ reported' \in {reported, reported \cup {wmsg.tx}}
      BY <1>11, <2>2 DEF WriterWrite
    <3>3. /\ delivered' \subseteq Txs /\ reported' \subseteq Txs
      BY <3>1, <1>11, <2>2 DEF WriterWrite, PeerTypeOK
    <3>. QED
      BY <3>1, <3>2, <3>3, <1>11 DEF WriterWrite, PeerTypeOK, peerVars, netVars
  <2>. QED
    BY <2>1, <2>2
<1>12. ASSUME NEW m \in Msg, Enqueue(m) PROVE PeerTypeOK'
  BY <1>12, AppendType DEF Enqueue, PeerTypeOK, peerVars, netVars
<1>13. CASE PingHandler \/ SendInvBatch \/ WriteMsg
  BY <1>12, <1>13, MsgFacts DEF PingHandler, SendInvBatch, WriteMsg
<1>14. CASE Polling \/ Crashed \/ UNCHANGED vars
  BY <1>14 DEF Polling, Crashed, vars, PeerTypeOK
<1>15. ASSUME NEW k \in Conns, ReadVersion(k) PROVE PeerTypeOK'
  BY <1>15 DEF ReadVersion, PeerTypeOK, HsSteps
<1>16. ASSUME NEW k \in Conns, ReadVerAck(k) PROVE PeerTypeOK'
  BY <1>16 DEF ReadVerAck, PeerTypeOK, HsSteps
<1>17. ASSUME NEW k \in Conns, NEW m \in Msg, ReadRequest(k, m) PROVE PeerTypeOK'
  BY <1>17 DEF ReadRequest, PeerTypeOK, peerVars
<1>18. ASSUME NEW k \in Conns, ReaderSend(k) PROVE PeerTypeOK'
  BY <1>18, AppendType DEF ReaderSend, PeerTypeOK, peerVars, netVars
<1>19. ASSUME NEW k \in Conns, ReadEOF(k) PROVE PeerTypeOK'
  BY <1>19 DEF ReadEOF, Disconnect, PeerTypeOK, ConnStates, NoConn
<1>20. ASSUME NEW k \in Conns, ReadFailing(k) PROVE PeerTypeOK'
  BY <1>20 DEF ReadFailing, PeerTypeOK, peerVars, netVars
<1>21. ASSUME NEW k \in Conns, Break(k) PROVE PeerTypeOK'
  BY <1>21 DEF Break, PeerTypeOK, peerVars, ConnStates
<1>. QED
  BY <1>1, <1>2, <1>3, <1>4, <1>5, <1>6, <1>7, <1>8, <1>9, <1>10, <1>11,
     <1>13, <1>14, <1>15, <1>16, <1>17, <1>18, <1>19, <1>20, <1>21, MsgFacts
  DEF Next, Reconnect, Writer, Reader

(***************************************************************************)
(* The type invariant PeerTypeOK holds in every state of every behaviour.  *)
(***************************************************************************)
THEOREM PeerTypeCorrect == Spec => []PeerTypeOK
BY PeerTypeInit, PeerTypeNext, PTL DEF Spec

-----------------------------------------------------------------------------
(***************************************************************************)
(* Writes happen only after the handshake.                                 *)
(***************************************************************************)

\* The part of PeerInductive beyond the types.
HsCore ==
    /\ DialledInOrder /\ ConnsDialled /\ VersionBeforeVerack
    /\ PendingIsConnecting /\ FlagsOfConnecting /\ WriteConnHandshaken
    /\ WriteAfterHandshake

\* A step that leaves the connections, the handshake and connect alone
\* keeps every handshake fact.
LEMMA HsFrame ==
    ASSUME HsCore,
           UNCHANGED <<readConn, writeConn, sentVerAck, receivedVerAck, conn,
                       remote, cpc, cconn, dials, writtenOn>>
    PROVE  HsCore'
BY DEF HsCore, DialledInOrder, ConnsDialled, VersionBeforeVerack,
       PendingIsConnecting, FlagsOfConnecting, WriteConnHandshaken,
       WriteAfterHandshake, Handshaken

\* A step of the reconnect loop outside connect's handshake, which moves
\* only its program counter between states that hold no connection.
LEMMA HsLoop ==
    ASSUME HsCore, PeerTypeOK,
           cpc \in {"check", "sleep", "dial"}, cpc' \in {"check", "sleep", "reset"},
           UNCHANGED <<readConn, writeConn, sentVerAck, receivedVerAck, conn,
                       remote, cconn, dials, writtenOn>>
    PROVE  HsCore'
BY DEF HsCore, DialledInOrder, ConnsDialled, VersionBeforeVerack,
       PendingIsConnecting, FlagsOfConnecting, WriteConnHandshaken,
       WriteAfterHandshake, Handshaken

\* The initial peer satisfies the inductive invariant.
LEMMA PeerInductiveInit == Init => PeerInductive
<1> SUFFICES ASSUME Init PROVE PeerInductive
  OBVIOUS
<1>1. PeerTypeOK
  BY PeerTypeInit
<1>2. HsCore
  BY DEF Init, HsCore, DialledInOrder, ConnsDialled, VersionBeforeVerack,
         PendingIsConnecting, FlagsOfConnecting, WriteConnHandshaken,
         WriteAfterHandshake, Conns, NoConn
<1>. QED
  BY <1>1, <1>2 DEF PeerInductive, HsCore

(***************************************************************************)
(* Every step keeps the inductive invariant.  Only connect's steps, the    *)
(* handshake reads, a read EOF, a break and a write touch the handshake    *)
(* facts; every other step is a frame step.                                *)
(***************************************************************************)
LEMMA PeerInductiveNext == PeerInductive /\ [Next]_vars => PeerInductive'
<1> SUFFICES ASSUME PeerInductive, [Next]_vars PROVE PeerInductive'
  OBVIOUS
<1>0. /\ PeerTypeOK /\ HsCore /\ PeerTypeOK'
  BY PeerTypeNext DEF PeerInductive, HsCore
<1>a. SUFFICES HsCore'
  BY <1>0 DEF PeerInductive, HsCore
<1>b. /\ dials \in 0..MaxDials /\ cconn \in Conns \cup {NoConn}
      /\ readConn \in Conns \cup {NoConn} /\ writeConn \in Conns \cup {NoConn}
      /\ conn \in [Conns -> ConnStates] /\ remote \in [Conns -> SUBSET HsSteps]
      /\ writtenOn \subseteq Conns
  BY <1>0 DEF PeerTypeOK
<1>1. CASE ReconnectCheck
  BY <1>0, <1>1, HsLoop DEF ReconnectCheck, peerVars, netVars
<1>2. CASE ConnectDialFailed
  BY <1>0, <1>2, HsLoop DEF ConnectDialFailed, peerVars
<1>3. CASE ReconnectSleep
  BY <1>0, <1>3, HsLoop DEF ReconnectSleep, peerVars, netVars
<1>4. CASE ConnectReset
  BY <1>0, <1>b, <1>4 DEF ConnectReset, netVars, HsCore, DialledInOrder, ConnsDialled,
     VersionBeforeVerack, PendingIsConnecting, FlagsOfConnecting,
     WriteConnHandshaken, WriteAfterHandshake, Handshaken, NoConn
<1>5. CASE ConnectDial
  <2>1. /\ dials + 1 \in Conns /\ conn[dials + 1] = "unused" /\ remote[dials + 1] = {}
    BY <1>0, <1>5 DEF ConnectDial, PeerTypeOK, HsCore, DialledInOrder, Conns
  <2>. QED
    BY <1>0, <1>5, <2>1 DEF ConnectDial, HsCore, DialledInOrder, ConnsDialled,
       VersionBeforeVerack, PendingIsConnecting, FlagsOfConnecting,
       WriteConnHandshaken, WriteAfterHandshake, Handshaken, PeerTypeOK, Conns
<1>6. CASE ConnectWriteVersion
  <2>1. cconn \in Conns
    BY <1>0, <1>6 DEF ConnectWriteVersion, HsCore, FlagsOfConnecting
  <2>2. CASE conn[cconn] = "open"
    BY <1>0, <1>6, <2>1, <2>2 DEF ConnectWriteVersion, peerVars, HsCore,
       DialledInOrder, ConnsDialled, VersionBeforeVerack, PendingIsConnecting,
       FlagsOfConnecting, WriteConnHandshaken, WriteAfterHandshake, Handshaken,
       PeerTypeOK
  <2>3. CASE conn[cconn] # "open"
    BY <1>0, <1>6, <2>1, <2>3 DEF ConnectWriteVersion, peerVars, HsCore,
       DialledInOrder, ConnsDialled, VersionBeforeVerack, PendingIsConnecting,
       FlagsOfConnecting, WriteConnHandshaken, WriteAfterHandshake, Handshaken
  <2>. QED
    BY <2>2, <2>3
<1>7. CASE ConnectHandshake
  <2>1. cconn \in Conns /\ Handshaken(cconn)
        /\ {"versionRead", "verackRead"} \subseteq remote[cconn]
    BY <1>0, <1>7 DEF ConnectHandshake, HandshakeDone, HsCore, FlagsOfConnecting,
       VersionBeforeVerack, Handshaken
  <2>2. /\ UNCHANGED <<readConn, writeConn, sentVerAck, receivedVerAck, conn,
                      remote, cconn, dials, writtenOn>>
        /\ cpc' = "setWrite"
    BY <1>7 DEF ConnectHandshake, peerVars, netVars
  <2>3. /\ DialledInOrder' /\ ConnsDialled' /\ VersionBeforeVerack'
        /\ WriteConnHandshaken' /\ WriteAfterHandshake'
    BY <1>0, <2>2 DEF HsCore, DialledInOrder, ConnsDialled, VersionBeforeVerack,
       WriteConnHandshaken, WriteAfterHandshake, Handshaken
  <2>4. PendingIsConnecting'
    BY <1>0, <2>1, <2>2 DEF HsCore, PendingIsConnecting
  <2>5. FlagsOfConnecting'
    BY <2>1, <2>2 DEF FlagsOfConnecting, Handshaken
  <2>. QED
    BY <2>3, <2>4, <2>5 DEF HsCore
<1>8. CASE ConnectSetWrite
  <2>1. /\ UNCHANGED <<readConn, sentVerAck, receivedVerAck, conn, remote, cconn,
                      dials, writtenOn>>
        /\ writeConn' = cconn /\ cpc' = "sleep" /\ cpc = "setWrite"
    BY <1>8 DEF ConnectSetWrite, netVars
  <2>2. cconn \in Conns /\ Handshaken(cconn) /\ cconn <= dials
    BY <1>0, <2>1 DEF HsCore, FlagsOfConnecting, ConnsDialled
  <2>3. /\ DialledInOrder' /\ VersionBeforeVerack' /\ WriteAfterHandshake'
    BY <1>0, <2>1 DEF HsCore, DialledInOrder, VersionBeforeVerack,
       WriteAfterHandshake, Handshaken
  <2>4. ConnsDialled' /\ WriteConnHandshaken'
    BY <1>0, <2>1, <2>2 DEF HsCore, ConnsDialled, WriteConnHandshaken, Handshaken
  <2>5. PendingIsConnecting' /\ FlagsOfConnecting'
    BY <1>0, <2>1 DEF HsCore, PendingIsConnecting, FlagsOfConnecting
  <2>. QED
    BY <2>3, <2>4, <2>5 DEF HsCore
<1>9. CASE WriterWrite
  <2>1. /\ UNCHANGED <<readConn, writeConn, sentVerAck, receivedVerAck, conn,
                      remote, cpc, cconn, dials>>
        /\ writtenOn' \subseteq writtenOn \cup {writeConn}
        /\ writeConn \notin writtenOn' \ writtenOn \/ writeConn # NoConn
    BY <1>9 DEF WriterWrite, peerVars, netVars
  <2>2. /\ DialledInOrder' /\ ConnsDialled' /\ VersionBeforeVerack'
        /\ PendingIsConnecting' /\ FlagsOfConnecting' /\ WriteConnHandshaken'
    BY <1>0, <2>1 DEF HsCore, DialledInOrder, ConnsDialled, VersionBeforeVerack,
       PendingIsConnecting, FlagsOfConnecting, WriteConnHandshaken, Handshaken
  <2>3. WriteAfterHandshake'
    BY <1>0, <2>1 DEF HsCore, WriteAfterHandshake, WriteConnHandshaken, Handshaken
  <2>. QED
    BY <2>2, <2>3 DEF HsCore
<1>10. ASSUME NEW k \in Conns, ReadVersion(k) PROVE HsCore'
  <2>1. k = cconn /\ cpc = "handshake"
    BY <1>0, <1>10 DEF ReadVersion, HsCore, PendingIsConnecting
  <2>. QED
    BY <1>0, <1>10, <2>1 DEF ReadVersion, HsCore, DialledInOrder, ConnsDialled,
       VersionBeforeVerack, PendingIsConnecting, FlagsOfConnecting,
       WriteConnHandshaken, WriteAfterHandshake, Handshaken, PeerTypeOK
<1>11. ASSUME NEW k \in Conns, ReadVerAck(k) PROVE HsCore'
  <2>1. k = cconn /\ cpc = "handshake"
    BY <1>0, <1>11 DEF ReadVerAck, HsCore, PendingIsConnecting
  <2>. QED
    BY <1>0, <1>11, <2>1 DEF ReadVerAck, HsCore, DialledInOrder, ConnsDialled,
       VersionBeforeVerack, PendingIsConnecting, FlagsOfConnecting,
       WriteConnHandshaken, WriteAfterHandshake, Handshaken, PeerTypeOK
<1>12. ASSUME NEW k \in Conns, ReadEOF(k) PROVE HsCore'
  <2>1. readConn # NoConn => readConn \in Conns /\ conn[readConn] # "unused"
    BY <1>0, <1>b DEF HsCore, ConnsDialled, DialledInOrder, Conns, NoConn
  <2>2. /\ UNCHANGED <<remote, cpc, cconn, dials, writtenOn>>
        /\ readConn' = NoConn /\ writeConn' = NoConn
        /\ sentVerAck' = FALSE /\ receivedVerAck' = FALSE
        /\ \A j \in Conns : conn'[j] = conn[j] \/ (conn'[j] = "closed" /\ conn[j] # "unused")
    <3>1. /\ UNCHANGED <<remote, cpc, cconn, dials, writtenOn>>
          /\ readConn' = NoConn /\ writeConn' = NoConn
          /\ sentVerAck' = FALSE /\ receivedVerAck' = FALSE
      BY <1>12 DEF ReadEOF, Disconnect
    <3>2. CASE readConn = NoConn
      BY <1>12, <3>2 DEF ReadEOF, Disconnect
    <3>3. CASE readConn # NoConn
      <4>1. conn' = [conn EXCEPT ![readConn] = "closed"]
        BY <1>12, <3>3 DEF ReadEOF, Disconnect
      <4>2. readConn \in Conns /\ conn[readConn] # "unused"
        BY <2>1, <3>3
      <4>3. ASSUME NEW j \in Conns
            PROVE  conn'[j] = conn[j] \/ (conn'[j] = "closed" /\ conn[j] # "unused")
        <5>1. CASE j = readConn
          BY <1>b, <4>1, <4>2, <5>1
        <5>2. CASE j # readConn
          BY <1>b, <4>1, <5>2
        <5>. QED
          BY <5>1, <5>2
      <4>. QED
        BY <3>1, <4>3
    <3>. QED
      BY <3>2, <3>3
  <2>3. DialledInOrder' /\ ConnsDialled' /\ VersionBeforeVerack'
    BY <1>0, <1>b, <2>2 DEF HsCore, DialledInOrder, ConnsDialled, VersionBeforeVerack, NoConn
  <2>4. PendingIsConnecting'
    BY <1>0, <2>2 DEF HsCore, PendingIsConnecting
  <2>5. FlagsOfConnecting' /\ WriteConnHandshaken' /\ WriteAfterHandshake'
    BY <1>0, <2>2 DEF HsCore, FlagsOfConnecting, WriteConnHandshaken,
       WriteAfterHandshake, Handshaken
  <2>. QED
    BY <2>3, <2>4, <2>5 DEF HsCore
<1>13. ASSUME NEW k \in Conns, Break(k) PROVE HsCore'
  <2>1. /\ UNCHANGED <<readConn, writeConn, sentVerAck, receivedVerAck, remote,
                      cpc, cconn, dials, writtenOn>>
        /\ \A j \in Conns : conn'[j] = conn[j] \/ (conn'[j] \in {"eof", "reset"} /\ conn[j] = "open")
    <3>1. UNCHANGED <<readConn, writeConn, sentVerAck, receivedVerAck, remote,
                      cpc, cconn, dials, writtenOn>>
      BY <1>13 DEF Break, peerVars
    <3>2. PICK e \in BreakKinds : conn' = [conn EXCEPT ![k] = e]
      BY <1>13 DEF Break
    <3>3. conn[k] = "open"
      BY <1>13 DEF Break
    <3>. QED
      BY <1>b, <3>1, <3>2, <3>3, PeerConstAssumption
  <2>2. DialledInOrder'
    BY <1>0, <1>b, <2>1 DEF HsCore, DialledInOrder
  <2>3. /\ ConnsDialled' /\ VersionBeforeVerack' /\ PendingIsConnecting'
        /\ FlagsOfConnecting' /\ WriteConnHandshaken' /\ WriteAfterHandshake'
    BY <1>0, <2>1 DEF HsCore, ConnsDialled, VersionBeforeVerack, PendingIsConnecting,
       FlagsOfConnecting, WriteConnHandshaken, WriteAfterHandshake, Handshaken
  <2>. QED
    BY <2>2, <2>3 DEF HsCore
<1>14. CASE WriterTake \/ WriterReady
  BY <1>0, <1>14, HsFrame DEF WriterTake, WriterReady, peerVars, netVars
<1>15. ASSUME NEW m \in Msg, Enqueue(m) PROVE HsCore'
  BY <1>0, <1>15, HsFrame DEF Enqueue, peerVars, netVars
<1>16. CASE PingHandler \/ SendInvBatch \/ WriteMsg
  BY <1>15, <1>16, MsgFacts DEF PingHandler, SendInvBatch, WriteMsg
<1>17. ASSUME NEW k \in Conns, NEW m \in Msg, ReadRequest(k, m) PROVE HsCore'
  BY <1>0, <1>17, HsFrame DEF ReadRequest, peerVars
<1>18. ASSUME NEW k \in Conns, ReaderSend(k) \/ ReadFailing(k) PROVE HsCore'
  BY <1>0, <1>18, HsFrame DEF ReaderSend, ReadFailing, peerVars, netVars
<1>19. CASE Polling \/ Crashed \/ UNCHANGED vars
  BY <1>0, <1>19, HsFrame DEF Polling, Crashed, vars
<1>. QED
  BY <1>1, <1>2, <1>3, <1>4, <1>5, <1>6, <1>7, <1>8, <1>9, <1>10, <1>11,
     <1>12, <1>13, <1>14, <1>16, <1>17, <1>18, <1>19, MsgFacts
  DEF Next, Reconnect, Writer, Reader

(***************************************************************************)
(* The comment in connect holds in every behaviour: nothing from the write *)
(* channel is written on a connection before its VERACK handshake is done, *)
(* for any number of dials, breaks and queued messages.                    *)
(***************************************************************************)
THEOREM WriteAfterHandshakeHolds == Spec => []WriteAfterHandshake
<1>1. PeerInductive => WriteAfterHandshake
  BY DEF PeerInductive
<1>. QED
  BY <1>1, PeerInductiveInit, PeerInductiveNext, PTL DEF Spec

(***************************************************************************)
(* PeerInductive, which the peer_safety run checks, holds in every         *)
(* reachable state for every bound: connections are dialled in order, the *)
(* VERSION/VERACK flags of connect match what the remote has read, and the *)
(* write connection is always a handshaken one.                           *)
(***************************************************************************)
THEOREM PeerInductiveHolds == Spec => []PeerInductive
BY PeerInductiveInit, PeerInductiveNext, PTL DEF Spec

=============================================================================
