---------------------------- MODULE MCTcpServer ----------------------------
(* TLC instance of TcpServer: connections are interchangeable. *)
EXTENDS TcpServer, TLC

Symmetry == Permutations(Conns)
=============================================================================
