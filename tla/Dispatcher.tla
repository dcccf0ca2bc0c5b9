----------------------------- MODULE Dispatcher -----------------------------
(***************************************************************************)
(* What the assigner promises about jobs and idle workers, without the     *)
(* book, its instants, or the publishing channel: jobs are handed out in   *)
(* the order in which they were accepted, each to N workers, and a job     *)
(* waits only while fewer than N workers are idle.                         *)
(***************************************************************************)
EXTENDS Integers, Sequences

CONSTANT N            \* workers a job needs

VARIABLES
    accepted,         \* jobs accepted so far: they are numbered 1 .. accepted
    waiting,          \* accepted jobs not handed out yet, in order
    handed,           \* how many jobs were handed out, always the first ones
    idle              \* workers ready to take a job

dvars == <<accepted, waiting, handed, idle>>

DispatcherInit == accepted = 0 /\ waiting = <<>> /\ handed = 0 /\ idle = 0

\* A new job goes straight to idle workers, and only if no job waits for them.
HandOut ==
    /\ waiting = <<>> /\ idle >= N
    /\ accepted' = accepted + 1
    /\ handed' = handed + 1
    /\ idle' = idle - N
    /\ UNCHANGED waiting

\* Or it waits; workers may turn out to be gone, so that fewer than N are idle.
Wait ==
    /\ accepted' = accepted + 1
    /\ waiting' = Append(waiting, accepted')
    /\ idle' \in 0 .. idle /\ idle' < N
    /\ UNCHANGED handed

\* A worker reports: the first k waiting jobs are handed out, and whatever still
\* waits does so because fewer than N workers are left.
Report ==
    \E k \in 0 .. Len(waiting) :
        /\ k * N <= idle + 1
        /\ \A i \in 1 .. k : waiting[i] = handed + i
        /\ handed' = handed + k
        /\ waiting' = SubSeq(waiting, k + 1, Len(waiting))
        /\ idle' \in 0 .. idle + 1 - k * N
        /\ waiting' # <<>> => idle' < N
        /\ UNCHANGED accepted

DispatcherNext == HandOut \/ Wait \/ Report

DispatcherSpec == DispatcherInit /\ [][DispatcherNext]_dvars
=============================================================================
