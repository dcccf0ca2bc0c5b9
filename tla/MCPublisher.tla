---------------------------- MODULE MCPublisher -----------------------------
(* A run of publisher and one of publisher_new over two jobs.  Nothing in  *)
(* this repository says how the _id of an entry and its content_checksum   *)
(* are related: one job has the same for both.                             *)
EXTENDS Publisher, TLC

CONSTANTS job1, job2, sum2

MCChecksum == job1 :> job1 @@ job2 :> sum2
=============================================================================
