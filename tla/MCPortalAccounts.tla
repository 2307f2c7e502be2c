--------------------------- MODULE MCPortalAccounts ---------------------------
(* PortalAccounts on small instances. *)
EXTENDS PortalAccounts, TLC

\* Accounts, addresses and handlers differ only in their names.
PortalSymmetry ==
    Permutations(Accounts) \cup Permutations(Addresses) \cup Permutations(Handlers)

=============================================================================
