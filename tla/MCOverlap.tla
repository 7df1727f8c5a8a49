----------------------------- MODULE MCOverlap -----------------------------
(***************************************************************************)
(* A small instance of Overlap.                                            *)
(***************************************************************************)
EXTENDS Overlap

OneName == {<<"a">>}

OneSpecName == {<<"x">>}

=============================================================================
