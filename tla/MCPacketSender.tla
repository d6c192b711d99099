--------------------------- MODULE MCPacketSender ---------------------------
(* The send queue on small packets, with the contract it implements. *)
EXTENDS QueuePromise

MCSizeOf == [key |-> {4}, delta |-> {2}, control |-> {1}]
MCBudgets == {3, 6}
=============================================================================
