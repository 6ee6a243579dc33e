---------------------------- MODULE MCFotaDevice ----------------------------
(* FotaDevice on partitions of two units.  One image comes in two chunks and  *)
(* the other in one, and the chunks of one corrupt the other.                 *)
EXTENDS FotaDevice

CONSTANTS a, b

MCUnit == {a, b}
MCImage == {<<b, b>>, <<a, b>>}
MCData == {<<b>>, <<a, b>>}
MCShort == {<<b>>, <<a, b>>}
MCFactory == <<a, b>>

=============================================================================
