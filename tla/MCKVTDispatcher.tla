-------------------------- MODULE MCKVTDispatcher ---------------------------
(* Two parameters that fit and room for two packets, so that the buffers   *)
(* fill up and a submit() overlaps the fetch() of the packet before; a     *)
(* third that is too large for a packet.                                   *)
EXTENDS KVTDispatcher

CONSTANTS k1, k2, large, v1, v2

MCKey == {k1, k2, large}
MCValue == {v1, v2}
MCLarge == {large}
=============================================================================
