----------------------------- MODULE Publisher ------------------------------
(***************************************************************************)
(* The one-shot programs that publish jobs (nostr-client-plus/src/bin):    *)
(* publisher and publisher_pow, which publish through the relay client,    *)
(* and publisher_new, which posts to a REST server.  They share a          *)
(* database: jobs come from raw_data, less those that have an entry in     *)
(* classifier_published.  Runs may overlap, as a cron job allows.          *)
(*                                                                         *)
(* A run's main task reads, publishes and records; the client's task takes *)
(* events to the relay (module RelayClient has its details); a listener    *)
(* waits for their OKs, and when it ends so does the program.              *)
(*                                                                         *)
(* publisher_pow is publisher with Percent = 0 and without a database.  An *)
(* interval ticks every TIMEOUT (30 s), at once the first time, so "nothing *)
(* within TIMEOUT" is "nothing since the last tick": no clock is needed.   *)
(***************************************************************************)
EXTENDS Integers, Sequences, FiniteSets

CONSTANTS
    Jobs,             \* the _id of the entries of raw_data
    Checksum,         \* Checksum[j]: content_checksum of entry j
    RelayRuns,        \* runs of publisher
    RestRuns,         \* runs of publisher_new
    Limit,            \* limit_publish, an i64: the jobs to publish
    Percent,          \* classification_job_percentage
    CHUNK,            \* jobs in a request (50)
    MaxFaults         \* bound: crashes, outages, failed inserts and lost answers

Runs == RelayRuns \cup RestRuns

ASSUME PublisherAssumption ==
    /\ IsFiniteSet(Jobs)
    /\ DOMAIN Checksum = Jobs
    /\ RelayRuns \cap RestRuns = {}
    /\ Limit \in Int /\ Percent \in 0 .. 100
    /\ CHUNK \in Nat \ {0}
    /\ MaxFaults \in Nat

VARIABLES
    pc,               \* "waiting", "reading", "publishing", "recording", "awaiting" or "done"
    entries,          \* entries: jobs fetched and not yet published
    pows,             \* PoW jobs not yet published
    batch,            \* jobs handed over, to be recorded now
    records,          \* classifier_published: the _id of its entries
    queued,           \* events in the client's channel and in its socket
    client,           \* the client's task: "connecting", "greeted" or "ended"
    inbox,            \* relay_channel: "OK" and "other" messages
    listening,        \* the listener runs
    heard,            \* last_activity is later than the last tick
    deaf,             \* the listener waits for the tick only
    handed,           \* history: jobs the channel or the server has taken
    earlier,          \* history: the runs that were done when this one began
    missed,           \* history: jobs taken and then not recorded
    faults            \* history: faults so far

mainVars == <<pc, entries, pows, batch>>
clientVars == <<queued, client>>
listenerVars == <<listening, heard, deaf>>
historyVars == <<handed, earlier, missed, faults>>
vars == <<mainVars, records, clientVars, inbox, listenerVars, historyVars>>

Keys == Jobs \cup {Checksum[j] : j \in Jobs}
Elements(s) == {s[i] : i \in DOMAIN s}

TypeOK ==
    /\ pc \in [Runs -> {"waiting", "reading", "publishing", "recording", "awaiting", "done"}]
    /\ entries \in [Runs -> Seq(Jobs)]
    /\ pows \in [Runs -> Nat]
    /\ batch \in [Runs -> Seq(Jobs)]
    /\ records \in SUBSET Keys
    /\ queued \in [Runs -> Nat]
    /\ client \in [Runs -> {"connecting", "greeted", "ended"}]
    /\ inbox \in [Runs -> Seq({"OK", "other"})]
    /\ listening \in [Runs -> BOOLEAN]
    /\ heard \in [Runs -> BOOLEAN]
    /\ deaf \in [Runs -> BOOLEAN]
    /\ handed \in [Runs -> SUBSET Jobs]
    /\ earlier \in [Runs -> SUBSET Runs]
    /\ missed \in SUBSET Jobs
    /\ faults \in 0 .. MaxFaults

Init ==
    /\ pc = [r \in Runs |-> "waiting"]
    /\ entries = [r \in Runs |-> <<>>]
    /\ pows = [r \in Runs |-> 0]
    /\ batch = [r \in Runs |-> <<>>]
    /\ records = {}
    /\ queued = [r \in Runs |-> 0]
    /\ client = [r \in Runs |-> "connecting"]
    /\ inbox = [r \in Runs |-> <<>>]
    /\ listening = [r \in Runs |-> FALSE]
    /\ heard = [r \in Runs |-> FALSE] /\ deaf = [r \in Runs |-> FALSE]
    /\ handed = [r \in Runs |-> {}] /\ earlier = [r \in Runs |-> {}]
    /\ missed = {} /\ faults = 0

At(r, place) == pc[r] = place
GoTo(r, place) == pc' = [pc EXCEPT ![r] = place]
Fault == faults < MaxFaults /\ faults' = faults + 1

-----------------------------------------------------------------------------
(* The beginning of a run.                                                 *)

Begins(r) ==
    /\ At(r, "waiting")
    /\ earlier' = [earlier EXCEPT ![r] = {q \in Runs : At(q, "done")}]
    /\ UNCHANGED <<entries, pows, batch, records, clientVars, inbox, handed, missed, faults>>

\* The gauge of cached jobs shows more than JOBS_THRESHOLD.
EnoughJobs(r) == Begins(r) /\ GoTo(r, "done") /\ UNCHANGED listenerVars

\* publisher connects and starts its listener before it reads.
Begin(r) ==
    /\ Begins(r) /\ GoTo(r, "reading")
    /\ listening' = [listening EXCEPT ![r] = r \in RelayRuns]
    /\ heard' = [heard EXCEPT ![r] = TRUE]
    /\ UNCHANGED deaf

\* i64 arithmetic truncates, which matters for no positive count.
ClassificationCount == (Limit * Percent) \div 100

\* Faulty: what was published before is fetched as well.
LeftAntiJoinAll == Jobs

\* left_anti_join: raw_data._id against classifier_published._id.
LeftAntiJoin == Jobs \ records

\* The first ones in the order of the collection, and PoW jobs to fill the rest.
Fetch(r) ==
    /\ At(r, "reading") /\ GoTo(r, "publishing")
    /\ LET found == Cardinality(LeftAntiJoin)
           n == IF ClassificationCount <= 0 THEN 0
                ELSE IF found < ClassificationCount THEN found ELSE ClassificationCount
       IN  /\ \E list \in [1 .. n -> LeftAntiJoin] :
                 /\ \A i, j \in 1 .. n : list[i] = list[j] => i = j
                 /\ entries' = [entries EXCEPT ![r] = list]
           /\ pows' = [pows EXCEPT ![r] = IF Limit > n THEN Limit - n ELSE 0]
    /\ UNCHANGED <<batch, records, clientVars, inbox, listenerVars, historyVars>>

-----------------------------------------------------------------------------
(* publisher: an event for each job, then an entry for it.  publish says   *)
(* Ok when the event is in the client's channel, not when it is sent.      *)

\* Faulty: the entry is made whether or not the event could be published.
PublishJobAlways(r) ==
    /\ At(r, "publishing") /\ r \in RelayRuns /\ entries[r] # <<>>
    /\ entries' = [entries EXCEPT ![r] = Tail(@)]
    /\ batch' = [batch EXCEPT ![r] = <<Head(entries[r])>>]
    /\ IF client[r] = "ended"
       THEN UNCHANGED <<handed, queued>>
       ELSE /\ handed' = [handed EXCEPT ![r] = @ \cup {Head(entries[r])}]
            /\ queued' = [queued EXCEPT ![r] = @ + 1]
    /\ GoTo(r, "recording")
    /\ UNCHANGED <<pows, records, client, inbox, listenerVars, earlier, missed, faults>>

\* publish fails once the client's task has ended; the job is skipped.
PublishJob(r) ==
    /\ At(r, "publishing") /\ r \in RelayRuns /\ entries[r] # <<>>
    /\ entries' = [entries EXCEPT ![r] = Tail(@)]
    /\ IF client[r] = "ended"
       THEN UNCHANGED <<pc, batch, handed, queued>>
       ELSE /\ GoTo(r, "recording")
            /\ batch' = [batch EXCEPT ![r] = <<Head(entries[r])>>]
            /\ handed' = [handed EXCEPT ![r] = @ \cup {Head(entries[r])}]
            /\ queued' = [queued EXCEPT ![r] = @ + 1]
    /\ UNCHANGED <<pows, records, client, inbox, listenerVars, earlier, missed, faults>>

PublishPoW(r) ==
    /\ At(r, "publishing") /\ r \in RelayRuns /\ entries[r] = <<>> /\ pows[r] > 0
    /\ pows' = [pows EXCEPT ![r] = @ - 1]
    /\ queued' = IF client[r] = "ended" THEN queued ELSE [queued EXCEPT ![r] = @ + 1]
    /\ UNCHANGED <<pc, entries, batch, records, client, inbox, listenerVars, historyVars>>

-----------------------------------------------------------------------------
(* publisher_new: a request for each chunk, then an entry for each job.    *)

Posting(r) == At(r, "publishing") /\ r \in RestRuns

Smaller(x, y) == IF x < y THEN x ELSE y
Drained(r) == Smaller(CHUNK, Len(entries[r]))
Chunk(r) == SubSeq(entries[r], 1, Drained(r))
Drain(r) == entries' = [entries EXCEPT ![r] = SubSeq(@, Drained(r) + 1, Len(@))]

PostJobs(r) ==
    /\ Posting(r) /\ entries[r] # <<>> /\ Drain(r)
    /\ GoTo(r, "recording")
    /\ batch' = [batch EXCEPT ![r] = Chunk(r)]
    /\ handed' = [handed EXCEPT ![r] = @ \cup Elements(Chunk(r))]
    /\ UNCHANGED <<pows, records, clientVars, inbox, listenerVars, earlier, missed, faults>>

\* An error status: the chunk is given up, the run goes on.  A transport error ends
\* the run.  The server may have taken the jobs all the same.
PostJobsFails(r, taken, place) ==
    /\ Posting(r) /\ entries[r] # <<>> /\ Drain(r) /\ Fault
    /\ GoTo(r, place)
    /\ IF taken
       THEN /\ handed' = [handed EXCEPT ![r] = @ \cup Elements(Chunk(r))]
            /\ missed' = missed \cup Elements(Chunk(r))
       ELSE UNCHANGED <<handed, missed>>
    /\ UNCHANGED <<pows, batch, records, clientVars, inbox, listenerVars, earlier>>

PostPoW(r) ==
    /\ Posting(r) /\ entries[r] = <<>> /\ pows[r] > 0
    /\ pows' = [pows EXCEPT ![r] = @ - Smaller(CHUNK, @)]
    /\ UNCHANGED <<pc, entries, batch, records, clientVars, inbox, listenerVars, historyVars>>

-----------------------------------------------------------------------------
(* Recording, the same collection for both.                                *)

Key(r, j) == IF r \in RestRuns THEN Checksum[j] ELSE j

\* The entries that can be inserted: in order, up to the first key that is there.
Insertable(r) ==
    {i \in DOMAIN batch[r] :
        \A k \in 1 .. i : /\ Key(r, batch[r][k]) \notin records
                          /\ \A h \in 1 .. k - 1 : Key(r, batch[r][h]) # Key(r, batch[r][k])}

\* insert_one, insert_many.  An error is only logged.
Record(r) ==
    /\ At(r, "recording") /\ GoTo(r, "publishing")
    /\ batch' = [batch EXCEPT ![r] = <<>>]
    /\ records' = records \cup {Key(r, batch[r][i]) : i \in Insertable(r)}
    /\ missed' = missed \cup {batch[r][i] : i \in {k \in DOMAIN batch[r] :
                                                     Key(r, batch[r][k]) \notin records'}}
    /\ UNCHANGED <<entries, pows, clientVars, inbox, listenerVars, handed, earlier, faults>>

\* The insert fails on the way there, on the way back, or in between.
RecordFails(r) ==
    /\ At(r, "recording") /\ Fault
    /\ GoTo(r, "publishing")
    /\ batch' = [batch EXCEPT ![r] = <<>>]
    /\ \E n \in 0 .. Len(batch[r]) :
           records' = records \cup {Key(r, batch[r][i]) : i \in Insertable(r) \cap 1 .. n}
    /\ missed' = missed \cup Elements(batch[r])
    /\ UNCHANGED <<entries, pows, clientVars, inbox, listenerVars, handed, earlier>>

-----------------------------------------------------------------------------
(* The end of a run.                                                       *)

Published(r) ==
    /\ At(r, "publishing") /\ entries[r] = <<>> /\ pows[r] = 0
    /\ GoTo(r, IF r \in RelayRuns THEN "awaiting" ELSE "done")
    /\ UNCHANGED <<entries, pows, batch, records, clientVars, inbox, listenerVars, historyVars>>

\* The process ends, and with it the client's task, whatever is in its channel.
End(r) ==
    /\ queued' = [queued EXCEPT ![r] = 0]
    /\ client' = [client EXCEPT ![r] = "ended"]
    /\ inbox' = [inbox EXCEPT ![r] = <<>>]
    /\ listening' = [listening EXCEPT ![r] = FALSE]
    /\ GoTo(r, "done")

Exit(r) ==
    /\ At(r, "awaiting") /\ ~listening[r] /\ End(r)
    /\ UNCHANGED <<entries, pows, batch, records, heard, deaf, historyVars>>

\* The program is killed, or ends with an error (the database cannot be read, say).
Crash(r) ==
    /\ ~At(r, "waiting") /\ ~At(r, "done") /\ Fault /\ End(r)
    /\ missed' = missed \cup Elements(batch[r])
    /\ batch' = [batch EXCEPT ![r] = <<>>]
    /\ UNCHANGED <<entries, pows, records, heard, deaf, handed, earlier>>

-----------------------------------------------------------------------------
(* The client's task and the relay.                                        *)

Connected(r) == r \in RelayRuns /\ ~At(r, "waiting") /\ client[r] # "ended"
Arrives(r, message) == inbox' = [inbox EXCEPT ![r] = Append(@, message)]

\* The first message of a connection is the AUTH challenge.
Greet(r) ==
    /\ Connected(r) /\ client[r] = "connecting"
    /\ client' = [client EXCEPT ![r] = "greeted"]
    /\ Arrives(r, "other")
    /\ UNCHANGED <<mainVars, records, queued, listenerVars, historyVars>>

\* An event goes to the relay and its OK, whether accepted or not, comes back.
Answer(r) ==
    /\ Connected(r) /\ client[r] = "greeted" /\ queued[r] > 0
    /\ queued' = [queued EXCEPT ![r] = @ - 1]
    /\ Arrives(r, "OK")
    /\ UNCHANGED <<mainVars, records, client, listenerVars, historyVars>>

\* The connection breaks: events that were sent or could not be sent are lost with it,
\* or their OKs are.
Outage(r) ==
    /\ Connected(r) /\ Fault
    /\ \E left \in 0 .. queued[r] : queued' = [queued EXCEPT ![r] = left]
    /\ client' = [client EXCEPT ![r] = "connecting"]
    /\ UNCHANGED <<mainVars, records, inbox, listenerVars, handed, earlier, missed>>

\* The client gives up: Disconnected is its last message.
GiveUp(r) ==
    /\ Connected(r) /\ Fault
    /\ queued' = [queued EXCEPT ![r] = 0]
    /\ client' = [client EXCEPT ![r] = "ended"]
    /\ Arrives(r, "other")
    /\ UNCHANGED <<mainVars, records, listenerVars, handed, earlier, missed>>

-----------------------------------------------------------------------------
(* The listener: a select! of "Some(RelayMessage::Ok(..)) = recv()" and    *)
(* the tick.  A message that does not fit the pattern is gone, and its     *)
(* branch is off until the select! has returned, which takes a tick.       *)

\* The channel is closed when the client's task has ended: None does not fit either.
Hear(r) ==
    /\ listening[r] /\ ~deaf[r]
    /\ \/ /\ inbox[r] # <<>>
          /\ inbox' = [inbox EXCEPT ![r] = Tail(@)]
          /\ heard' = [heard EXCEPT ![r] = @ \/ Head(inbox[r]) = "OK"]
          /\ deaf' = [deaf EXCEPT ![r] = Head(inbox[r]) # "OK"]
       \/ /\ inbox[r] = <<>> /\ client[r] = "ended"
          /\ deaf' = [deaf EXCEPT ![r] = TRUE]
          /\ UNCHANGED <<inbox, heard>>
    /\ UNCHANGED <<mainVars, records, clientVars, listening, historyVars>>

\* Faulty: the last OK that was heard counts for ever.
TickKeepsHeard(r) ==
    /\ listening[r]
    /\ listening' = [listening EXCEPT ![r] = heard[r]]
    /\ deaf' = [deaf EXCEPT ![r] = FALSE]
    /\ UNCHANGED <<mainVars, records, clientVars, inbox, heard, historyVars>>

Tick(r) ==
    /\ listening[r]
    /\ listening' = [listening EXCEPT ![r] = heard[r]]
    /\ heard' = [heard EXCEPT ![r] = FALSE]
    /\ deaf' = [deaf EXCEPT ![r] = FALSE]
    /\ UNCHANGED <<mainVars, records, clientVars, inbox, historyVars>>

-----------------------------------------------------------------------------
Main(r) ==
    \/ Fetch(r)
    \/ PublishJob(r) \/ PublishPoW(r) \/ PostJobs(r) \/ PostPoW(r)
    \/ Record(r)
    \/ Published(r) \/ Exit(r)

Trouble(r) ==
    \/ \E taken \in BOOLEAN, place \in {"publishing", "done"} : PostJobsFails(r, taken, place)
    \/ RecordFails(r) \/ Crash(r)
    \/ Outage(r) \/ GiveUp(r)

Next ==
    \E r \in Runs :
        \/ EnoughJobs(r) \/ Begin(r)
        \/ Main(r)
        \/ Greet(r) \/ Answer(r)
        \/ Hear(r) \/ Tick(r)
        \/ Trouble(r)

Spec == Init /\ [][Next]_vars

\* The database and the server answer, the interval ticks.
Fairness == \A r \in Runs : WF_vars(Main(r)) /\ WF_vars(Tick(r))

LiveSpec == Spec /\ Fairness

-----------------------------------------------------------------------------
(* Properties.                                                             *)

\* An entry that keeps a job from being published again stands for a job that a run has
\* handed over, to its client's channel or to the server, wherever connections, inserts
\* and programs fail.  That is all it says: an event lost on its way from the channel to
\* the relay keeps its entry, and its job is never published again.
RecordedWasHandedOver ==
    \A k \in records :
        \E r \in Runs, j \in Jobs : j \in handed[r] /\ k = Key(r, j)

\* Two runs, one after the other, hand the same job over only if the first one could not
\* record it, or has recorded something else: publisher_new records checksums.
PublishedOnce ==
    \A r \in Runs : \A q \in earlier[r] : \A j \in handed[q] \cap handed[r] :
        j \in missed \/ Key(q, j) # j

\* One-shot: every run ends, however late the answers come and whatever is lost.
EveryRunEnds == \A r \in Runs : ~At(r, "waiting") ~> At(r, "done")

\* What the listener prints when it closes ("No more OK messages within the last
\* 30s"): it does not close over one that it has not been looking for.
ClosesAfterSilence ==
    [][\A r \in Runs : listening[r] /\ Tick(r) /\ ~listening'[r]
            => ~(deaf[r] /\ "OK" \in Elements(inbox[r]))]_vars
=============================================================================
