---------------------------- MODULE MCHttpSession ----------------------------
(* TLC instance of HttpSession: clients are interchangeable. *)
EXTENDS HttpSession, TLC

Symmetry == Permutations(Clients)
=============================================================================
