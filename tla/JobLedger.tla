----------------------------- MODULE JobLedger ------------------------------
(***************************************************************************)
(* What the aggregator promises about jobs, without channels, tasks, Redis *)
(* and restarts: a job is finished once and for good, by a worker that     *)
(* holds an assignment (not necessarily for that job); a classification is *)
(* recorded in two strokes, both by the same report, one job at a time;    *)
(* and it is left at the first stroke only by a mishap, or when the job    *)
(* was finished before.                                                    *)
(***************************************************************************)
EXTENDS Integers

CONSTANTS Jobs, Workers, Events

VARIABLES
    known,            \* workers the ledger has heard an assignment of
    recorded,         \* the reports that made a first stroke
    begun,            \* the report between its two strokes, if there is one
    done,             \* the reports that finished their jobs
    mishaps           \* what went wrong so far: crashes, failed reads and writes

lvars == <<known, recorded, begun, done, mishaps>>

Report == [event : Events, job : Jobs, type : {"pow", "classification"}, worker : Workers]

LedgerInit ==
    known = {} /\ recorded = {} /\ begun = {} /\ done = {} /\ mishaps = 0

Free(reports, j) == \A d \in reports : d.job # j

Mishap == mishaps' = mishaps + 1
Smooth == UNCHANGED mishaps

Learn ==
    /\ \E w \in Workers : known' = known \cup {w}
    /\ Smooth \/ Mishap
    /\ UNCHANGED <<recorded, begun, done>>

FinishPow ==
    /\ begun = {}
    /\ \E a \in Report :
        /\ a.worker \in known /\ a.type = "pow" /\ Free(done, a.job)
        /\ done' = done \cup {a}
    /\ Smooth \/ Mishap
    /\ UNCHANGED <<known, recorded, begun>>

Classify ==
    /\ begun = {}
    /\ \E a \in Report :
        /\ a.worker \in known /\ a.type = "classification" /\ Free(recorded, a.job)
        /\ recorded' = recorded \cup {a}
        /\ \/ begun' = {a} /\ Smooth
           \/ begun' = {} /\ Mishap
    /\ UNCHANGED <<known, done>>

FinishClassification ==
    /\ \E a \in begun : Free(done, a.job) /\ done' = done \cup {a}
    /\ begun' = {}
    /\ Smooth \/ Mishap
    /\ UNCHANGED <<known, recorded>>

Abandon ==
    /\ \E a \in begun : \/ ~Free(done, a.job) /\ Smooth
                       \/ Mishap
    /\ begun' = {}
    /\ UNCHANGED <<known, recorded, done>>

GoesWrong == Mishap /\ UNCHANGED <<known, recorded, begun, done>>

LedgerNext ==
    Learn \/ FinishPow \/ Classify \/ FinishClassification \/ Abandon \/ GoesWrong

LedgerSpec == LedgerInit /\ [][LedgerNext]_lvars
=============================================================================
