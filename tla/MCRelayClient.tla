--------------------------- MODULE MCRelayClient ---------------------------
(* The client library on small instances.                                  *)
EXTENDS RelayClient

CONSTANTS s1, s2
=============================================================================
