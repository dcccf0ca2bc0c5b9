------------------------------ MODULE Assigner ------------------------------
(***************************************************************************)
(* The assigner (nostr-client-plus/src/bin/assigner.rs): it hears worker   *)
(* heartbeats (Kind::ALIVE) and jobs (Kind::NEW_JOB) from the relay, keeps *)
(* the idle workers in a book and the jobs that found too few workers in a *)
(* queue, and publishes one ASSIGN event for each job it gives to workers. *)
(*                                                                         *)
(* One tokio task owns book and queue and runs a select! loop, so each     *)
(* branch of the loop is one action.  The loop hands an assignment to      *)
(* itself through an unbounded channel, pub; between that send and the     *)
(* branch that receives it, any number of heartbeats and jobs may be       *)
(* handled.  A failed publish is retried by a task of its own.             *)
(*                                                                         *)
(* Jobs are named by the order in which valid ones are handled: the first  *)
(* is job 1.  The entries of the book carry one field the code does not    *)
(* have, seen, the instant of the heartbeat itself: get_workers may put a  *)
(* worker back with an older instant, and seen keeps the true one.         *)
(***************************************************************************)
EXTENDS Integers, Sequences, FiniteSets, FiniteSetsExt, SequencesExt

CONSTANTS
    Workers,          \* the senders of heartbeats
    NumWorkers,       \* JobType::workers(), the same for every job type
    MAX_WORKERS,      \* entries the book holds between two heartbeats
    STALE_TIME,       \* age at which a book entry is no longer used
    COOL_DOWN_PERIOD, \* heartbeats ignored for this long after an assignment
    RETRIES,          \* publish attempts of the retry task (5 in the code)
    MaxJobs,          \* bound: valid jobs that arrive
    MaxTime           \* bound: last instant of the clock

ASSUME AssignerAssumption ==
    /\ NumWorkers \in Nat \ {0}
    /\ MAX_WORKERS \in Nat \ {0}
    /\ STALE_TIME \in Nat \ {0}
    /\ COOL_DOWN_PERIOD \in Nat
    /\ RETRIES \in Nat \ {0}
    /\ MaxJobs \in Nat
    /\ MaxTime \in Nat

VARIABLES
    now,              \* Instant::now()
    book,             \* LinkedHashMap of idle workers, oldest first
    queue,            \* VecDeque of jobs waiting for workers
    pub,              \* pub_tx/pub_rx: assignments to publish, in order
    assigned_senders, \* instant of the last recorded assignment, or Never
    retries,          \* the spawned retry tasks
    clientUp,         \* the Client's task still receives commands
    running,          \* the event handler has not left its loop
    workersOnline,    \* gauge WORKERS_ONLINE
    cachedJobs,       \* gauge CACHED_JOBS
    arrived,          \* history: valid jobs handled so far
    assigned,         \* history: jobs whose ASSIGN event the client accepted
    gaveUp            \* history: jobs whose retry task ran out of attempts

vars == <<now, book, queue, pub, assigned_senders, retries, clientUp, running,
          workersOnline, cachedJobs, arrived, assigned, gaveUp>>

Never == -1
Jobs == 1 .. MaxJobs

Entry == [worker : Workers, at : Nat, seen : Nat]
Assignment == [job : Jobs, workers : SUBSET Workers]
Retry == [job : Jobs, workers : SUBSET Workers, counter : 0 .. RETRIES - 1]

TypeOK ==
    /\ now \in 0 .. MaxTime
    /\ book \in Seq(Entry) /\ Len(book) <= MAX_WORKERS
    /\ queue \in Seq(Jobs)
    /\ pub \in Seq(Assignment)
    /\ assigned_senders \in [Workers -> Nat \cup {Never}]
    /\ retries \in SUBSET Retry
    /\ clientUp \in BOOLEAN /\ running \in BOOLEAN
    /\ workersOnline \in Int /\ cachedJobs \in Int
    /\ arrived \in 0 .. MaxJobs
    /\ assigned \in SUBSET Jobs /\ gaveUp \in SUBSET Jobs

Init ==
    /\ now = 0
    /\ book = <<>> /\ queue = <<>> /\ pub = <<>>
    /\ assigned_senders = [w \in Workers |-> Never]
    /\ retries = {}
    /\ clientUp = TRUE /\ running = TRUE
    /\ workersOnline = 0 /\ cachedJobs = 0
    /\ arrived = 0 /\ assigned = {} /\ gaveUp = {}

-----------------------------------------------------------------------------
(* The book.  LinkedHashMap::insert moves an existing key to the back.     *)

PositionOf(bk, w) == {i \in DOMAIN bk : bk[i].worker = w}
Booked(bk, w) == PositionOf(bk, w) # {}
Fresh(w) == [worker |-> w, at |-> now, seen |-> now]

\* Faulty: the key keeps its old place, as in a map ordered by first insertion.
InsertInPlace(bk, w) ==
    IF Booked(bk, w) THEN [i \in DOMAIN bk |-> IF bk[i].worker = w THEN Fresh(w) ELSE bk[i]]
                     ELSE Append(bk, Fresh(w))

\* Faulty: a list instead of a map.
InsertTwice(bk, w) == Append(bk, Fresh(w))

Insert(bk, w) ==
    IF Booked(bk, w)
    THEN Append(RemoveAt(bk, CHOOSE i \in PositionOf(bk, w) : TRUE), Fresh(w))
    ELSE Append(bk, Fresh(w))

Stale(e) == now - e.at >= STALE_TIME

-----------------------------------------------------------------------------
(* get_workers, for a book with at least n entries: it pops the n newest   *)
(* ones.  If none of them is stale the job gets them; otherwise the first  *)
(* stale one and everything older are dropped, and the ones popped before  *)
(* go back, all with the instant of the oldest of them.                    *)

Newest(bk, n) == Len(bk) - n + 1 .. Len(bk)
AllFresh(bk, n) == \A i \in Newest(bk, n) : ~Stale(bk[i])
Popped(bk, n) == {bk[i].worker : i \in Newest(bk, n)}
Left(bk, n) == SubSeq(bk, 1, Len(bk) - n)

\* Faulty: the entries put back keep only the stale instant of the one dropped.
TrimmedTooOld(bk, n) ==
    LET k == Max({i \in Newest(bk, n) : Stale(bk[i])})
    IN  [i \in 1 .. Len(bk) - k |-> [bk[k + i] EXCEPT !.at = bk[k].at]]

Trimmed(bk, n) ==
    LET k == Max({i \in Newest(bk, n) : Stale(bk[i])})
    IN  [i \in 1 .. Len(bk) - k |-> [bk[k + i] EXCEPT !.at = bk[k + 1].at]]

-----------------------------------------------------------------------------
(* handle_event, Kind::ALIVE.                                              *)

\* Faulty: the cool-down is never looked up.
NeverTooEarly(w) == FALSE

IsTooEarly(w) ==
    /\ assigned_senders[w] # Never
    /\ now - assigned_senders[w] < COOL_DOWN_PERIOD

\* Faulty: the heartbeat books the worker and leaves the queue alone.
ServesNone(bk) == 0

\* How many queued jobs the while loop serves from book bk: it goes on as long
\* as the front job finds enough workers and none of them is stale.
Served(bk) ==
    Max({k \in 0 .. Len(queue) : /\ k * NumWorkers <= Len(bk)
                                 /\ AllFresh(bk, k * NumWorkers)})

\* The workers of the k-th job served.
Batch(bk, k) == Popped(Left(bk, (k - 1) * NumWorkers), NumWorkers)

Rest(bk) == Left(bk, Served(bk) * NumWorkers)
StoppedByStale(bk) ==
    /\ Served(bk) < Len(queue)
    /\ Len(Rest(bk)) >= NumWorkers
    /\ ~AllFresh(Rest(bk), NumWorkers)
AfterServing(bk) ==
    IF StoppedByStale(bk) THEN Trimmed(Rest(bk), NumWorkers) ELSE Rest(bk)

\* Faulty: the book is never trimmed.
EvictNone(bk) == bk

EvictLRU(bk) == IF Len(bk) > MAX_WORKERS THEN Tail(bk) ELSE bk

\* Faulty: the gauge is not set anew when stale workers are dropped.
OnlineWithoutReset(bk, online) ==
    online - Served(bk) * NumWorkers
    - (IF Len(AfterServing(bk)) > MAX_WORKERS THEN 1 ELSE 0)

\* WORKERS_ONLINE after the loop and the eviction: each served job subtracts its
\* workers, and a get_workers that met a stale entry sets the gauge anew.
OnlineAfter(bk, online) ==
    LET left == Len(AfterServing(bk))
    IN  (IF StoppedByStale(bk) THEN left ELSE online - Served(bk) * NumWorkers)
        - (IF left > MAX_WORKERS THEN 1 ELSE 0)

BookWorker(w) ==
    LET bk == Insert(book, w)
        k == Served(bk)
        online == workersOnline + (IF Booked(book, w) THEN 0 ELSE 1)
    IN  /\ book' = EvictLRU(AfterServing(bk))
        /\ queue' = SubSeq(queue, k + 1, Len(queue))
        /\ pub' = pub \o [i \in 1 .. k |-> [job |-> queue[i], workers |-> Batch(bk, i)]]
        /\ workersOnline' = OnlineAfter(bk, online)
        /\ cachedJobs' = cachedJobs - k

Heartbeat(w) ==
    /\ running
    /\ ~IsTooEarly(w)
    /\ BookWorker(w)
    /\ UNCHANGED <<now, assigned_senders, retries, clientUp, running, arrived,
                   assigned, gaveUp>>

-----------------------------------------------------------------------------
(* handle_event, Kind::NEW_JOB, for a job that passes validate_job.        *)

\* Faulty: push_front instead of push_back.
EnqueueFront(j) ==
    /\ queue' = <<j>> \o queue
    /\ cachedJobs' = cachedJobs + 1
    /\ UNCHANGED pub

Enqueue(j) ==
    /\ queue' = Append(queue, j)
    /\ cachedJobs' = cachedJobs + 1
    /\ UNCHANGED pub

AssignOrQueue(j) ==
    \/ /\ Len(book) < NumWorkers
       /\ Enqueue(j)
       /\ UNCHANGED <<book, workersOnline>>
    \/ /\ Len(book) >= NumWorkers /\ AllFresh(book, NumWorkers)
       /\ book' = Left(book, NumWorkers)
       /\ pub' = Append(pub, [job |-> j, workers |-> Popped(book, NumWorkers)])
       /\ workersOnline' = workersOnline - NumWorkers
       /\ UNCHANGED <<queue, cachedJobs>>
    \/ /\ Len(book) >= NumWorkers /\ ~AllFresh(book, NumWorkers)
       /\ book' = Trimmed(book, NumWorkers)
       /\ workersOnline' = Len(book')
       /\ Enqueue(j)

NewJob ==
    /\ running
    /\ arrived < MaxJobs
    /\ arrived' = arrived + 1
    /\ AssignOrQueue(arrived')
    /\ UNCHANGED <<now, assigned_senders, retries, clientUp, running, assigned, gaveUp>>

-----------------------------------------------------------------------------
(* The publishing branch of select! and the retry task.                    *)

Record(m) ==
    /\ assigned_senders' = [w \in Workers |-> IF w \in m.workers THEN now
                                              ELSE assigned_senders[w]]
    /\ assigned' = assigned \cup {m.job}

\* Faulty: a failed publish is only logged.
PublishNoRetry ==
    /\ running /\ pub # <<>>
    /\ pub' = Tail(pub)
    /\ IF clientUp THEN Record(Head(pub)) ELSE UNCHANGED <<assigned_senders, assigned>>
    /\ UNCHANGED <<now, book, queue, retries, clientUp, running, workersOnline,
                   cachedJobs, arrived, gaveUp>>

\* Faulty: the branch drains the channel and publishes the newest assignment only.
PublishNewest ==
    /\ running /\ pub # <<>>
    /\ pub' = <<>>
    /\ IF clientUp THEN Record(Last(pub)) ELSE UNCHANGED <<assigned_senders, assigned>>
    /\ UNCHANGED <<now, book, queue, retries, clientUp, running, workersOnline,
                   cachedJobs, arrived, gaveUp>>

\* Client::publish fails only when the Client's task has ended: while it
\* reconnects it still takes commands.
PublishAssign ==
    /\ running /\ pub # <<>>
    /\ pub' = Tail(pub)
    /\ IF clientUp
       THEN Record(Head(pub)) /\ UNCHANGED retries
       ELSE /\ retries' = retries \cup {[job |-> Head(pub).job,
                                         workers |-> Head(pub).workers, counter |-> 0]}
            /\ UNCHANGED <<assigned_senders, assigned>>
    /\ UNCHANGED <<now, book, queue, clientUp, running, workersOnline, cachedJobs,
                   arrived, gaveUp>>

\* One turn of the retry loop.  The task dies with the process.  Its first alternative
\* is the Ok arm of the code: no state takes it, since a Client that has ended never
\* comes back, and a publish fails for no other reason.
RetryPublish(r) ==
    /\ running /\ r \in retries
    /\ IF clientUp
       THEN /\ Record(r)
            /\ retries' = retries \ {r}
            /\ UNCHANGED gaveUp
       ELSE /\ UNCHANGED <<assigned_senders, assigned>>
            /\ IF r.counter + 1 < RETRIES
               THEN /\ retries' = (retries \ {r}) \cup {[r EXCEPT !.counter = @ + 1]}
                    /\ UNCHANGED gaveUp
               ELSE /\ retries' = retries \ {r}
                    /\ gaveUp' = gaveUp \cup {r.job}
    /\ UNCHANGED <<now, book, queue, pub, clientUp, running, workersOnline,
                   cachedJobs, arrived>>

-----------------------------------------------------------------------------
(* The Client and the clock.                                               *)

\* The Client's task gave up reconnecting; its last act is to send Disconnected.
ClientEnds ==
    /\ clientUp
    /\ clientUp' = FALSE
    /\ UNCHANGED <<now, book, queue, pub, assigned_senders, retries, running,
                   workersOnline, cachedJobs, arrived, assigned, gaveUp>>

\* handle_event answers Unrecoverable and the loop breaks; main returns.
Disconnected ==
    /\ running /\ ~clientUp
    /\ running' = FALSE
    /\ UNCHANGED <<now, book, queue, pub, assigned_senders, retries, clientUp,
                   workersOnline, cachedJobs, arrived, assigned, gaveUp>>

Tick ==
    /\ now < MaxTime
    /\ now' = now + 1
    /\ UNCHANGED <<book, queue, pub, assigned_senders, retries, clientUp, running,
                   workersOnline, cachedJobs, arrived, assigned, gaveUp>>

Next ==
    \/ \E w \in Workers : Heartbeat(w)
    \/ NewJob
    \/ PublishAssign
    \/ \E r \in retries : RetryPublish(r)
    \/ ClientEnds
    \/ Disconnected
    \/ Tick

Spec == Init /\ [][Next]_vars

\* select! picks a ready branch at random and the channels never fill, so a
\* pending assignment and a pending Disconnected are received in the end; the
\* runtime polls every spawned retry task.
Fairness ==
    /\ WF_vars(PublishAssign)
    /\ WF_vars(Disconnected)
    /\ \A j \in Jobs : WF_vars(\E r \in retries : r.job = j /\ RetryPublish(r))

LiveSpec == Spec /\ Fairness

-----------------------------------------------------------------------------
(* Properties.                                                             *)

\* The book has one entry per worker, from the oldest instant to the newest:
\* what get_workers relies on when it drops everything below a stale entry
\* ("This entry and all the other ones still in the linked hashmap are stale").
BookSorted ==
    \A i, j \in DOMAIN book : i < j =>
        /\ book[i].worker # book[j].worker
        /\ book[i].at <= book[j].at

\* No job waits while there are workers for it: whatever mix of heartbeats, jobs
\* and stale entries came before, a queued job means too few workers in the book.
NoIdleWorkers == queue # <<>> => Len(book) < NumWorkers

\* The gauges the publishers and operators read (the publishers stop publishing
\* on cached_jobs) say what the book and the queue hold, although they are kept
\* by separate increments in several branches and reset in one of them.
GaugesMatch == workersOnline = Len(book) /\ cachedJobs = Len(queue)

\* Every assignment on its way names as many distinct workers as the job needs.
FullBatches ==
    /\ \A i \in DOMAIN pub : Cardinality(pub[i].workers) = NumWorkers
    /\ \A r \in retries : Cardinality(r.workers) = NumWorkers

\* No accepted job is lost or doubled while the process runs: each is in the queue,
\* in the publishing channel, with a retry task, published, or given up.
InQueue == ToSet(queue)
InPub == {pub[i].job : i \in DOMAIN pub}
InRetry == {r.job : r \in retries}
JobsAccounted ==
    /\ InQueue \cup InPub \cup InRetry \cup assigned \cup gaveUp = 1 .. arrived
    /\ Len(queue) + Len(pub) + Cardinality(retries) + Cardinality(assigned)
       + Cardinality(gaveUp) = arrived

\* First come, first served: the jobs in the publishing channel, followed by those in
\* the queue, are consecutive and end with the last one accepted.  NEW_JOB never
\* looks at the queue before it takes workers, so this rests on NoIdleWorkers.
FirstComeFirstServed ==
    /\ \A i \in DOMAIN queue : queue[i] = arrived - Len(queue) + i
    /\ \A i \in DOMAIN pub : pub[i].job = arrived - Len(queue) - Len(pub) + i

\* A heartbeat handled after a worker's assignment was recorded books that worker
\* only once the cool-down is over.  (One handled before, while the assignment
\* was still in the channel, does book it: it has seen <= the recorded instant.)
CoolDownKept ==
    \A i \in DOMAIN book :
        LET last == assigned_senders[book[i].worker]
        IN  last # Never /\ book[i].seen > last => book[i].seen - last >= COOL_DOWN_PERIOD

\* A worker leaves the book without an assignment only when it has been silent for
\* STALE_TIME, or as the least recent of a full book: clearing the book below a
\* stale entry never drops a live worker.  This needs NumWorkers <= 2; with more,
\* get_workers puts live workers back with an instant older than their own.
NewlyAssigned == UNION {pub'[i].workers : i \in {k \in DOMAIN pub' : k > Len(pub)}}
DropsOnlySilentWorkers ==
    [][\A i \in DOMAIN book :
         ~Booked(book', book[i].worker) /\ book[i].worker \notin NewlyAssigned
             => \/ now - book[i].seen >= STALE_TIME
                \/ i = 1 /\ Len(book) = MAX_WORKERS]_vars

\* An assignment handed to the publishing branch reaches the Client unless the Client
\* ends: heartbeats and jobs that go on arriving do not keep it in the channel.
EventuallyPublished ==
    \A j \in Jobs : j \in InPub ~> (j \in assigned \/ ~clientUp)

\* The assigner implements the dispatcher: every step is one of its steps.
Dispatch == INSTANCE Dispatcher WITH
    N <- NumWorkers, accepted <- arrived, waiting <- queue,
    handed <- arrived - Len(queue), idle <- Len(book)
ImplementsDispatcher == Dispatch!DispatcherSpec

=============================================================================
