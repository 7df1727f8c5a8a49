---------------------------- MODULE MCTenantApi ----------------------------
(***************************************************************************)
(* Small instances of TenantApi.                                           *)
(***************************************************************************)
EXTENDS TenantApi, TLC

TwoNames == {<<"x">>, <<"y">>}

\* Clients and users are interchangeable.
Interchangeable == Permutations(Clients) \cup Permutations(Users)

=============================================================================
