------------------------------- MODULE MCPeer -------------------------------
(***************************************************************************)
(* Small instances of Peer for TLC.                                        *)
(***************************************************************************)
EXTENDS Peer, TLC

\* A broken connection reads io.EOF or another error.
MCBreakKinds == {"eof", "reset"}

\* Only io.EOF: the failure the code handles.
MCEofOnly == {"eof"}

=============================================================================
