---------------------- MODULE MCRedisAIJobDeliveryQueue ----------------------
(* Small instances of RedisAIJobDeliveryQueue for TLC.                     *)
EXTENDS RedisAIJobDeliveryQueue

CONSTANTS e1, e2, c1, c2
=============================================================================
