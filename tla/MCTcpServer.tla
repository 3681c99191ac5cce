---------------------------- MODULE MCTcpServer ----------------------------
(***************************************************************************)
(* Small instances of TcpServer, with interchangeable buffers.             *)
(***************************************************************************)
EXTENDS TcpServer, TLC

BufferSymmetry == Permutations(Buffers)
=============================================================================
