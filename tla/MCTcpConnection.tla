---------------------------- MODULE MCTcpConnection ----------------------------
(* Instances of TcpConnection for TLC.                                     *)
EXTENDS TcpConnection
=============================================================================
