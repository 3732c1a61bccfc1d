---------------------------- MODULE MCAudioSend -----------------------------
(* One name, one client: a send whose name the user removes again. *)
EXTENDS AudioSend

CONSTANTS a, me

OneName == {a}
OneClient == {me}
FourSlots == 1..4
=============================================================================
