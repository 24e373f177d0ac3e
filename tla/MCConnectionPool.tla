-------------------------- MODULE MCConnectionPool --------------------------
(***************************************************************************)
(* Small instances of ConnectionPool.                                      *)
(***************************************************************************)
EXTENDS ConnectionPool, TLC

\* Slots and clients are interchangeable; origins are not when some use TLS.
Symmetry == Permutations(Conns) \cup Permutations(Clients)
=============================================================================
