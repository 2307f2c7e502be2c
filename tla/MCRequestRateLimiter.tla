------------------------ MODULE MCRequestRateLimiter ------------------------
(* RequestRateLimiter on small instances. *)
EXTENDS RequestRateLimiter, TLC

\* Handlers differ only in their name.
LimiterSymmetry == Permutations(Requests)

=============================================================================
