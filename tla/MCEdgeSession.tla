--------------------------- MODULE MCEdgeSession ---------------------------
(* EdgeSession on small instances. *)
EXTENDS EdgeSession, TLC

\* Sockets differ only in their name.
EdgeSymmetry == Permutations(Sockets)

=============================================================================
