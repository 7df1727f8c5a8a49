--------------------------- MODULE MCRateLimiter ---------------------------
(***************************************************************************)
(* A small instance of RateLimiter.                                        *)
(***************************************************************************)
EXTENDS RateLimiter, TLC

Interchangeable == Permutations(Users) \cup Permutations(Addrs)

=============================================================================
