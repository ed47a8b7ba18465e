--------------------- MODULE MCMemoryAIJobDeliveryQueue ---------------------
(* A small instance of MemoryAIJobDeliveryQueue for TLC.                   *)
EXTENDS MemoryAIJobDeliveryQueue

CONSTANTS e1, e2, c1, c2
=============================================================================
