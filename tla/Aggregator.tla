----------------------------- MODULE Aggregator -----------------------------
(***************************************************************************)
(* The aggregator (nostr-client-plus/src/bin/aggregator.rs).               *)
(*                                                                         *)
(* A listener task hears ASSIGN and RESULT events from the relay.  It      *)
(* writes each ASSIGN event to Redis, checks each RESULT event against the *)
(* ASSIGN event it names, and hands the valid ones to an aggregator task   *)
(* through a bounded channel.  That task writes them to the database: a    *)
(* PoW result to finished_jobs, a classification first to                  *)
(* classifier_results and then to finished_jobs.  Both collections are     *)
(* keyed by the raw data of the job.                                       *)
(*                                                                         *)
(* Redis and the database outlive the process, which may crash and is then *)
(* started again.  Any write may fail, and may fail after it was done.     *)
(*                                                                         *)
(* ASSIGN and RESULT events are numbered in the order they are published.  *)
(* A RESULT event names an ASSIGN event in its tag and a job and a type in *)
(* the header of its payload.  The tag decides whether the sender is an    *)
(* assignee, the header everything else: nothing compares the two.  The    *)
(* aggregator does not hear an event while its client is reconnecting.     *)
(***************************************************************************)
EXTENDS Integers, Sequences, FiniteSets

CONSTANTS
    Jobs,             \* raw data ids
    Workers,
    QUEUE,            \* capacity of the channel between the tasks (100)
    SKIP_POW_CHECK,   \* the environment variable is "true"
    MaxAssigns,       \* bound: ASSIGN events
    MaxResults,       \* bound: RESULT events
    MaxFaults         \* bound: crashes, failed reads and failed writes

ASSUME AggregatorAssumption ==
    /\ IsFiniteSet(Jobs)
    /\ QUEUE \in Nat \ {0}
    /\ SKIP_POW_CHECK \in BOOLEAN
    /\ MaxAssigns \in Nat /\ MaxResults \in Nat /\ MaxFaults \in Nat

VARIABLES
    assignments,      \* the ASSIGN events published so far
    answers,          \* number of RESULT events published so far
    relay_channel,    \* messages from the client library to the listener
    clientEnded,      \* the client has given up reconnecting
    listener,         \* "listening" or "ended"
    sending,          \* a result the listener waits to put into the channel, or None
    aggr_channel,     \* aggr_tx/aggr_rx
    aggregator,       \* "serving" or "ended"
    current,          \* a classification between its two writes, or None
    redis,            \* numbers of the ASSIGN events in Redis
    classified,       \* classifier_results: for each key the result stored, or None
    finished,         \* finished_jobs: for each key the result stored, or None
    metrics,          \* the counters
    main,             \* the task whose end run waits for
    results,          \* history: RESULT events the listener took since its start
    faults            \* history: crashes, failed reads and failed writes

vars == <<assignments, answers, relay_channel, clientEnded, listener, sending,
          aggr_channel, aggregator, current, redis, classified, finished, metrics,
          main, results, faults>>
outside == <<assignments, answers, clientEnded>>
stored == <<redis, classified, finished>>

None == [assign |-> 0]
\* job_type 0, job_type 1, and "other": another job_type or an unsupported version.
Types == {"pow", "classification", "other"}
\* A payload or tag that cannot be read, work that was not done, output without an answer.
Flaws == {"no flaw", "malformed", "pow", "output"}
Assignment == [job : Jobs, worker : Workers]
Result == [event : 1 .. MaxResults, assign : 1 .. MaxAssigns, sender : Workers,
           job : Jobs, type : Types, flaw : Flaws]
Assigned(a) == [kind |-> "ASSIGN", assign |-> a]
Message == [kind : {"ASSIGN"}, assign : 1 .. MaxAssigns]
           \cup [kind : {"RESULT"}, result : Result]
           \cup [kind : {"Disconnected"}]

Counters == {"FINISHED_JOBS", "FAILED_JOBS", "RESULT_ERRORS", "UNCLASSIFIED_ERRORS"}

AssigneeOf(r) == assignments[r.assign].worker

TypeOK ==
    /\ assignments \in Seq(Assignment) /\ Len(assignments) <= MaxAssigns
    /\ answers \in 0 .. MaxResults
    /\ relay_channel \in Seq(Message)
    /\ clientEnded \in BOOLEAN
    /\ listener \in {"listening", "ended"} /\ aggregator \in {"serving", "ended"}
    /\ sending \in Result \cup {None}
    /\ aggr_channel \in Seq(Result) /\ Len(aggr_channel) <= QUEUE
    /\ current \in Result \cup {None}
    /\ redis \in SUBSET (1 .. Len(assignments))
    /\ classified \in [Jobs -> Result \cup {None}]
    /\ finished \in [Jobs -> Result \cup {None}]
    /\ metrics \in [Counters -> Nat]
    /\ main \in {"listener", "aggregator", "metrics", "monitor", "ended"}
    /\ results \in Nat
    /\ faults \in 0 .. MaxFaults

NoCounts == [c \in Counters |-> 0]

Init ==
    /\ relay_channel = <<>> /\ clientEnded = FALSE
    /\ listener = "listening" /\ sending = None
    /\ aggr_channel = <<>>
    /\ aggregator = "serving" /\ current = None
    /\ metrics = NoCounts
    /\ main = "listener"
    /\ results = 0
    /\ assignments = <<>> /\ answers = 0
    /\ redis = {}
    /\ classified = [j \in Jobs |-> None] /\ finished = [j \in Jobs |-> None]
    /\ faults = 0

-----------------------------------------------------------------------------
(* Assigner and workers, and what the client library hears of them.        *)

Deliver(m) ==
    \/ ~clientEnded /\ relay_channel' = Append(relay_channel, m)
    \/ UNCHANGED relay_channel

Assign(j, w) ==
    /\ Len(assignments) < MaxAssigns
    /\ assignments' = Append(assignments, [job |-> j, worker |-> w])
    /\ Deliver(Assigned(Len(assignments')))
    /\ UNCHANGED <<answers, clientEnded, listener, sending, aggr_channel, aggregator,
                   current, stored, metrics, main, results, faults>>

\* At most one thing is wrong with a result, and only what its type has.
Plausible(r) ==
    /\ r.flaw # "no flaw" => r.sender = AssigneeOf(r)
    /\ r.flaw = "malformed" => r.type = "other"
    /\ r.flaw = "pow" => r.type = "pow"
    /\ r.flaw = "output" => r.type = "classification"

\* Any worker, once or more than once, for whatever job and type it writes.
Answer(r) ==
    /\ answers < MaxResults /\ r.event = answers + 1
    /\ r.assign <= Len(assignments) /\ Plausible(r)
    /\ answers' = answers + 1
    /\ Deliver([kind |-> "RESULT", result |-> r])
    /\ UNCHANGED <<assignments, clientEnded, listener, sending, aggr_channel, aggregator,
                   current, stored, metrics, main, results, faults>>

ClientEnds ==
    /\ ~clientEnded
    /\ clientEnded' = TRUE
    /\ relay_channel' = Append(relay_channel, [kind |-> "Disconnected"])
    /\ UNCHANGED <<assignments, answers, listener, sending, aggr_channel, aggregator,
                   current, stored, metrics, main, results, faults>>

Fault == faults < MaxFaults /\ faults' = faults + 1
NoFault == UNCHANGED faults

-----------------------------------------------------------------------------
(* The listener.                                                           *)

Hear(kind) ==
    /\ listener = "listening" /\ sending = None
    /\ relay_channel # <<>> /\ Head(relay_channel).kind = kind
    /\ relay_channel' = Tail(relay_channel)
    /\ UNCHANGED <<outside, aggr_channel, aggregator, current, classified, finished, main>>

HearAssign ==
    /\ Hear("ASSIGN")
    /\ LET saved == redis \cup {Head(relay_channel).assign}
       IN  \/ redis' = saved /\ NoFault
           \/ redis' \in {redis, saved} /\ Fault
    /\ UNCHANGED <<listener, sending, metrics, results>>

Count(c) == metrics' = [metrics EXCEPT ![c] = @ + 1]

Malformed(r) == r.flaw = "malformed"

\* Faulty: whoever sends the result may have done the work.
ValidFromAnyone(r) == r.flaw = "pow" => SKIP_POW_CHECK

\* validate_result_event: the sender is the assignee of the ASSIGN event and, if the
\* header says PoW, the work is done.
Valid(r) ==
    /\ r.sender = AssigneeOf(r)
    /\ r.flaw = "pow" => SKIP_POW_CHECK

\* Redis does not know the ASSIGN event, or cannot be read.
Lookup(r, known) ==
    /\ known => r.assign \in redis
    /\ IF r.assign \in redis /\ ~known THEN Fault ELSE NoFault

Reject(c) == Count(c) /\ UNCHANGED sending

HearResult ==
    /\ Hear("RESULT")
    /\ results' = results + 1
    /\ LET r == Head(relay_channel).result
       IN  \/ Malformed(r) /\ Reject("RESULT_ERRORS") /\ NoFault
           \/ ~Malformed(r) /\ Lookup(r, FALSE) /\ Reject("UNCLASSIFIED_ERRORS")
           \/ ~Malformed(r) /\ Lookup(r, TRUE) /\ ~Valid(r) /\ Reject("FAILED_JOBS")
           \/ ~Malformed(r) /\ Lookup(r, TRUE) /\ Valid(r) /\ sending' = r /\ UNCHANGED metrics
    /\ UNCHANGED <<listener, redis>>

HearDisconnected ==
    /\ Hear("Disconnected")
    /\ listener' = "ended"
    /\ UNCHANGED <<sending, redis, metrics, results, faults>>

\* Faulty: the channel has no capacity.
SendAtOnce ==
    /\ sending # None
    /\ aggr_channel' = Append(aggr_channel, sending)
    /\ sending' = None
    /\ UNCHANGED <<outside, relay_channel, listener, aggregator, current, stored,
                   metrics, main, results, faults>>

\* aggr_tx.send(value).await
Send ==
    /\ sending # None /\ Len(aggr_channel) < QUEUE
    /\ aggr_channel' = Append(aggr_channel, sending)
    /\ sending' = None
    /\ UNCHANGED <<outside, relay_channel, listener, aggregator, current, stored,
                   metrics, main, results, faults>>

Listen ==
    \/ HearAssign \/ HearResult \/ HearDisconnected
    \/ Send

-----------------------------------------------------------------------------
(* The aggregator task.                                                    *)

Receive ==
    /\ aggregator = "serving" /\ current = None
    /\ aggr_channel' = Tail(aggr_channel)
    /\ UNCHANGED <<outside, relay_channel, listener, sending, redis, main, results>>

\* insert_one: done says whether the document is written, ok what the driver reports.
\* A key that is already there is refused.
Insert(present, done, ok) ==
    /\ ok => done
    /\ done => ~present
    /\ IF present \/ ok THEN NoFault ELSE Fault

\* Both documents have the header's raw_data_id for their key.
WriteFinished(r, ok) ==
    \E done \in BOOLEAN :
        /\ Insert(finished[r.job] # None, done, ok)
        /\ finished' = IF done THEN [finished EXCEPT ![r.job] = r] ELSE finished

WriteClassified(r, ok) ==
    \E done \in BOOLEAN :
        /\ Insert(classified[r.job] # None, done, ok)
        /\ classified' = IF done THEN [classified EXCEPT ![r.job] = r] ELSE classified

Unsupported(r) == r.type = "other"

\* Faulty: a result of another version ends the loop.
RefuseAndEnd(r) ==
    /\ Receive /\ Unsupported(r)
    /\ aggregator' = "ended"
    /\ Count("UNCLASSIFIED_ERRORS")
    /\ UNCHANGED <<current, classified, finished, faults>>

\* Faulty: a result of another version is only logged.
RefuseUncounted(r) ==
    /\ Receive /\ Unsupported(r)
    /\ UNCHANGED <<aggregator, current, classified, finished, faults, metrics>>

Refuse(r) ==
    /\ Receive /\ Unsupported(r)
    /\ Count("UNCLASSIFIED_ERRORS")
    /\ UNCHANGED <<aggregator, current, classified, finished, faults>>

FinishPow(r) ==
    /\ Receive /\ r.type = "pow"
    /\ \E ok \in BOOLEAN :
        /\ WriteFinished(r, ok)
        /\ Count(IF ok THEN "FINISHED_JOBS" ELSE "FAILED_JOBS")
    /\ UNCHANGED <<aggregator, current, classified>>

Classification(r) == r.type = "classification"

\* Faulty: finished_jobs is written first.
ClassifyLast(r) ==
    /\ Receive /\ Classification(r) /\ r.flaw # "output"
    /\ \E ok \in BOOLEAN :
        /\ WriteFinished(r, ok)
        /\ IF ok THEN current' = r /\ UNCHANGED metrics
                 ELSE Count("FAILED_JOBS") /\ UNCHANGED current
    /\ UNCHANGED <<aggregator, classified>>

\* Faulty: a key that is already in classifier_results is no reason to stop.
ClassifyAgain(r) ==
    /\ Receive /\ Classification(r) /\ r.flaw # "output"
    /\ \E ok \in BOOLEAN :
        /\ WriteClassified(r, ok)
        /\ IF ok \/ classified[r.job] # None THEN current' = r /\ UNCHANGED metrics
                                              ELSE Count("FAILED_JOBS") /\ UNCHANGED current
    /\ UNCHANGED <<aggregator, finished>>

\* finalize_classification, up to the first write.
Classify(r) ==
    /\ Receive /\ Classification(r) /\ r.flaw # "output"
    /\ \E ok \in BOOLEAN :
        /\ WriteClassified(r, ok)
        /\ IF ok THEN current' = r /\ UNCHANGED metrics
                 ELSE Count("FAILED_JOBS") /\ UNCHANGED current
    /\ UNCHANGED <<aggregator, finished>>

NoIdentifier(r) ==
    /\ Receive /\ Classification(r) /\ r.flaw = "output"
    /\ Count("FAILED_JOBS")
    /\ UNCHANGED <<aggregator, current, classified, finished, faults>>

\* Faulty: a result that is already finished counts again.
FinishClassificationAgain ==
    /\ current # None /\ current' = None
    /\ \E ok \in BOOLEAN :
        /\ WriteFinished(current, ok)
        /\ Count("FINISHED_JOBS")
    /\ UNCHANGED <<outside, relay_channel, listener, sending, aggr_channel, aggregator,
                   redis, classified, main, results>>

\* Faulty: the task ends without its second write.
FinishClassificationNot ==
    /\ current # None /\ current' = None
    /\ Count("FAILED_JOBS")
    /\ UNCHANGED <<outside, relay_channel, listener, sending, aggr_channel, aggregator,
                   redis, classified, finished, main, results, faults>>

\* finalize_classification, the second write.
FinishClassification ==
    /\ current # None /\ current' = None
    /\ \E ok \in BOOLEAN :
        /\ WriteFinished(current, ok)
        /\ Count(IF ok THEN "FINISHED_JOBS" ELSE "FAILED_JOBS")
    /\ UNCHANGED <<outside, relay_channel, listener, sending, aggr_channel, aggregator,
                   redis, classified, main, results>>

\* The listener's end closes the channel, which is served to its end.
AggregatorEnds ==
    /\ aggregator = "serving" /\ current = None
    /\ listener = "ended" /\ aggr_channel = <<>>
    /\ aggregator' = "ended"
    /\ UNCHANGED <<outside, relay_channel, listener, sending, aggr_channel, current,
                   stored, metrics, main, results, faults>>

Serve(r) == Refuse(r) \/ FinishPow(r) \/ Classify(r) \/ NoIdentifier(r)

Aggregate ==
    \/ aggr_channel # <<>> /\ Serve(Head(aggr_channel))
    \/ FinishClassification
    \/ AggregatorEnds

-----------------------------------------------------------------------------
(* The process.                                                            *)

\* run awaits its tasks in this order.  The metrics server and the subscription
\* monitor never end.
Await ==
    /\ \/ main = "listener" /\ listener = "ended" /\ main' = "aggregator"
       \/ main = "aggregator" /\ aggregator = "ended" /\ main' = "metrics"
    /\ UNCHANGED <<outside, relay_channel, listener, sending, aggr_channel, aggregator,
                   current, stored, metrics, results, faults>>

\* The process is killed and started again (mprocs.yaml).
Crash ==
    /\ Fault
    /\ relay_channel' = <<>> /\ clientEnded' = FALSE
    /\ listener' = "listening" /\ sending' = None
    /\ aggr_channel' = <<>>
    /\ aggregator' = "serving" /\ current' = None
    /\ metrics' = NoCounts
    /\ main' = "listener"
    /\ results' = 0
    /\ UNCHANGED <<assignments, answers, stored>>

Next ==
    \/ \E j \in Jobs, w \in Workers : Assign(j, w)
    \/ \E r \in Result : Answer(r)
    \/ ClientEnds
    \/ Listen \/ Aggregate \/ Await
    \/ Crash

Spec == Init /\ [][Next]_vars

\* tokio runs each task that can make progress.
Fairness == WF_vars(Listen) /\ WF_vars(Aggregate) /\ WF_vars(Await)
LiveSpec == Spec /\ Fairness

-----------------------------------------------------------------------------
(* Properties.                                                             *)

Counted == metrics["FINISHED_JOBS"] + metrics["FAILED_JOBS"]
           + metrics["RESULT_ERRORS"] + metrics["UNCLASSIFIED_ERRORS"]
One(x) == IF x = None THEN 0 ELSE 1

\* Each RESULT event the listener takes ends in exactly one of the four counters, on
\* whichever of the many ways out of the two tasks it leaves.
EveryResultCounted ==
    results = Counted + One(sending) + Len(aggr_channel) + One(current)

\* A classification in finished_jobs has its entry in classifier_results, of the same
\* RESULT event, whatever crashes or fails between the two writes and whatever other
\* results for the same raw data come before, between and after.
ClassifiedFirst ==
    \A j \in Jobs : finished[j] # None =>
        (finished[j].type = "classification" => classified[j] = finished[j])

\* A job is finished by the worker named in the ASSIGN event its result names, and that
\* event is one the aggregator knows.  (Of the job itself see FinishedByItsAssignee.)
FinishedByAnAssignee ==
    \A j \in Jobs : finished[j] # None =>
        /\ finished[j].assign \in redis
        /\ AssigneeOf(finished[j]) = finished[j].sender

\* "Check if sender is the official assignee": a job is finished by a worker it was
\* assigned to, in an ASSIGN event the aggregator knows.
FinishedByItsAssignee ==
    \A j \in Jobs : finished[j] # None =>
        \E i \in redis : assignments[i] = [job |-> j, worker |-> finished[j].sender]

\* Only a crash or a failed write leaves a classification without its finished_jobs
\* entry, one each (and nothing completes it later: its key is taken).
GapsNeedFaults ==
    Cardinality({j \in Jobs : classified[j] # None /\ finished[j] = None})
        <= faults + One(current)

\* No job is counted as finished twice: duplicates and second assignments fail.
CountedOnce ==
    metrics["FINISHED_JOBS"] <= Cardinality({j \in Jobs : finished[j] # None})

\* The aggregator implements the job ledger: duplicates, second assignments, crashes and
\* failures in any order finish each job at most once and for good, by a worker that holds
\* an assignment, and record and finish a classification with the same RESULT event.
AsReport(r) == [event |-> r.event, job |-> r.job, type |-> r.type, worker |-> r.sender]
Stored(collection) == {AsReport(collection[j]) : j \in {k \in Jobs : collection[k] # None}}
Ledger == INSTANCE JobLedger WITH
    Events <- 1 .. MaxResults,
    known <- {assignments[i].worker : i \in redis},
    recorded <- Stored(classified),
    begun <- {AsReport(r) : r \in {current} \ {None}},
    done <- Stored(finished),
    mishaps <- faults
ImplementsLedger == Ledger!LedgerSpec

\* Every RESULT event taken is counted in the end, unless the process crashes before.
ResultsSettle ==
    \A n \in 1 .. MaxResults : results >= n ~> (Counted >= n \/ results < n)

\* What the listener says of its end ("Client got disconnected, we are shutting down"):
\* the process ends, so that it can be started again.
ShutsDown == listener = "ended" ~> (main = "ended" \/ listener = "listening")

=============================================================================
