---------------------------- MODULE MCAggregator ----------------------------
(* Instances of Aggregator for TLC.                                        *)
EXTENDS Aggregator, TLC

CONSTANTS j1, j2, w1, w2

=============================================================================
