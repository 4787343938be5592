------------------------ MODULE MCTcpThreadingServer ------------------------
(* TLC instance of TcpThreadingServer: connections are interchangeable,    *)
(* and so are workers.                                                     *)
EXTENDS TcpThreadingServer, TLC

Symmetry == Permutations(Conns) \cup Permutations(Workers)
=============================================================================
