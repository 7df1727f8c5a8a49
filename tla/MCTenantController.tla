------------------------ MODULE MCTenantController ------------------------
(***************************************************************************)
(* Small instances of TenantController.                                    *)
(***************************************************************************)
EXTENDS TenantController

\* Single-part names: no two (name, spec.name) pairs collide.
OneName == {<<"a">>}

TwoNames == {<<"a">>, <<"b">>}

OneSpecName == {<<"x">>}

TwoSpecNames == {<<"x">>, <<"y">>}

=============================================================================
