--------------------------- MODULE MCFotaTransfer ---------------------------
(* FotaTransfer with firmware of two and three units. *)
EXTENDS FotaTransfer

CONSTANTS a, b

MCUnit == {a, b}
MCOne == {<<a, b, a>>}
MCTwo == {<<a, b, a>>, <<b, b>>}

=============================================================================
