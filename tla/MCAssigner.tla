----------------------------- MODULE MCAssigner -----------------------------
(* The assigner on small instances.                                        *)
EXTENDS Assigner, TLC

CONSTANTS w1, w2, w3

=============================================================================
