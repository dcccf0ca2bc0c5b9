---------------------------- MODULE MCKeepalive -----------------------------
(* An instance of Keepalive for TLC.                                       *)
EXTENDS Keepalive

=============================================================================
