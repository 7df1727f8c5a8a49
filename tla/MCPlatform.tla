----------------------------- MODULE MCPlatform -----------------------------
(***************************************************************************)
(* A small instance of Platform.                                           *)
(***************************************************************************)
EXTENDS Platform

OneName == {<<"a">>}

\* The resource and the API tenants compete for one name.
OneSpecName == {<<"x">>}

=============================================================================
