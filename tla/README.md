# A verification project for nostr-relay-plus

TLA+ models of the relay, the client library and the job services of this
repository, the TLC runs that check them on small instances, and TLAPS proofs of
the properties that hold for every value of the constants.  `PROJECT.json` lists
components, runs, the source lines behind every definition, hazards and theorems.

## 1. The system

Jobs flow through a nostr relay.  A *publisher* sends NEW_JOB events; *workers*
send ALIVE heartbeats; the *assigner* hears both and answers with ASSIGN events
that name a job and its workers; a worker answers with a RESULT event; the
*aggregator* checks it against the ASSIGN event and writes it to a database.
Every one of these processes talks only to the relay, through the same *client
library*.  The relay stores nothing (its database calls are commented out): an
event reaches the clients that are subscribed when it is broadcast, or nobody.

| component | state | operations | talks to |
|---|---|---|---|
| assigner (`bin/assigner.rs`) | book of idle workers, job queue, publishing channel, instants of the last assignments, gauges | heartbeat, new job, publish, retry, stop | client library |
| client library (`client.rs`, `basic_ws.rs`) | command channel, map of subscriptions, web socket, reconnection counter | subscribe, close, publish; serve a command; read the socket; reconnect and resubscribe; give up | relay connection, and the service by a message channel |
| relay connection (`ws/server.rs`, `local/`) | subscriptions (at most 32), outgoing channel, broadcast receiver, last activity, ping timer, pong timer | EVENT, REQ, CLOSE, binary query, broadcast event, ping tick, pong, pong timeout, close | the other connections by a broadcast channel of 1 000 000 events |
| aggregator (`bin/aggregator.rs`) | Redis copy of ASSIGN events, channel of 100 results, two collections, counters, gauge of pending jobs | ASSIGN, RESULT, aggregate, disconnect | client library, Redis, MongoDB |
| publishers (`bin/publisher*.rs`, `db.rs`) | collection of published jobs, acknowledgement timer | anti-join, publish and record, time out | client library or a REST server, MongoDB |
| matching (`nostr-surreal-db/src/message`) | none | parse an event, a filter; does an event match a filter, a subscription | relay connection, database |
| database (`nostr-surreal-db/src/db.rs`, `sql_builder/`) | tables of events and of tags | write an event, query by filters | SurrealDB; the relay's calls are commented out |
| worker, demos, wire types, cryptography, configuration, relay front end | none that lives on | see `PROJECT.json` | |

### How the components interact

- **Service → client library**: `subscribe`, `close_subscription`, `publish`,
  `send_binary` put a command into an unbounded channel and return.  Only the end of
  the client's task makes them fail.
- **Client library → service**: relay messages, and one `Disconnected` when the task
  gives up, through an unbounded channel.
- **Client library ↔ relay**: a web socket.  What was sent before it broke may or may
  not be read by the relay.  The relay answers nothing that the client waits for.
- **Relay connection ↔ relay connection**: every EVENT goes to a broadcast channel; each
  connection forwards it to its peer if a subscription matches.
- **Assigner → itself**: the select! loop hands assignments to its own publishing
  branch through an unbounded channel; a failed publish becomes a task of its own.
- **Aggregator**: two tasks joined by a channel of 100 results; Redis and MongoDB
  outlive the process.

### What is hard, and what correctness means

| component | hard behaviour | correct if |
|---|---|---|
| assigner | heartbeats and jobs between handing out and publishing an assignment; stale entries met in the middle of `get_workers`; gauges kept by several branches; retries beside the loop | no job waits for idle workers, none is lost, doubled or overtaken; a worker is not booked again in its cool-down; the gauges are exact |
| client library | calls during an outage; sends that fail or only seem to succeed; resubscription behind waiting commands | what the relay holds follows what the task holds; nothing wanted is forgotten; a wanted subscription comes back; events are lost with a connection and in no other way |
| relay connection | ping tick, activity, pong and timeout due at one instant; subscription limit and replacement; slow receivers | silent peers are closed in bounded time, live ones never; what a connection holds is what its peer asked for; an event is delivered once per connection, in one order for all, and none that was asked for gets past it but by the channel's limit |
| aggregator | two writes without a transaction; writes that fail after they were done; duplicates; crash and restart; backpressure | every result is counted once and settled; the collections agree up to one gap per fault; a job is finished once, by a worker that holds an assignment, in both collections by the same result |
| publishers | publish and record are two steps, in overlapping runs; two programs, two keys; acknowledgement timer | a record stands for a job that was handed over; a job is handed over again only if its record failed; every run ends |
| database | SQL selects by some fields, the program filters by the others | a query answers what a subscription with its filters would have been sent, and all of it |

The `hazards` of `PROJECT.json` list these at their lines, each with the properties
that would show it going wrong, or a note.

## 2. Plan

| order | module | kind | state |
|---|---|---|---|
| 1 | `Dispatcher` | abstract: first come, first served to idle workers | done |
| 2 | `Assigner` | the select! loop; implements `Dispatcher` | done |
| 3 | `AssignerProofs` | invariants and refinement, proved | done |
| 4 | `RelayClient` | client task and the relay's subscriptions | done |
| 5 | `RelayClientProofs` | every safety property of it, proved | done |
| 6 | `Aggregator` | both tasks, database, crash and restart | done |
| 7 | `Keepalive`, `KeepaliveProofs` | timers of a relay connection | done |
| 8 | `EventMatching`, `Fanout`, `Relay`, `RelayProofs` | several connections: limit and replacement of subscriptions, broadcast, first-match delivery; implements `Fanout` (abstract: one order of events for all); matching as operators | done |
| 9 | `Publisher`, `PublisherProofs` | which jobs the runs publish and record, over several runs of both programs | done |
| 10 | `EventStore`, `EventStoreProofs` | the database crate: writing and querying, with `EventMatching` | done |
| 11 | `AggregatorProofs`; the rest of the assigner's invariants | proved | done |
| 12 | `JobLedger` | abstract: what the aggregator promises about jobs; implemented by `Aggregator`, proved | done |
| 13 | `Pipeline`: assigner, worker and aggregator in one module | composition | dropped, see below |

A composition of assigner, worker and aggregator over a relay was planned and is not
built.  `Aggregator` takes any ASSIGN and RESULT events from its environment, in any
order, lost or repeated, whatever job and type the header of a result names, and
`Assigner` any heartbeats and jobs.  What one service sends
to another is a special case of that, every composed behaviour is one of each module, and
their properties hold of it as they stand.  The compositions that do add steps are in the
modules: client task and relay (`RelayClient`), several connections (`Relay`), several
runs of two programs over one collection (`Publisher`).

No module declares a RECURSIVE operator, so that each can be proved about.  The
assigner's `while` loop is written as the greatest number of jobs that can be served,
and "the last command for an id" as a maximum of positions.

## 3. The modules

Conventions.  Names are those of the source where there is one.  Variables marked
*history* exist for the properties only, and no guard reads one except as a bound.
Constants called `Max...` bound the instance and have no counterpart in the code.  An
operator whose comment starts with "Faulty:" is not part of the specification: it is
the definition that follows it with a plausible mistake; each property is violated
when one of these replaces the definition it belongs to (`mutants` in `PROJECT.json`).

### Assigner, Dispatcher

One tokio task runs `select!`; an action is one branch, from the message it receives
to its end.

| code (`bin/assigner.rs`) | model |
|---|---|
| `book`: LinkedHashMap, oldest first | `book`, a sequence of `[worker, at, seen]`; `seen` is the true instant, `at` the stored one |
| `job_queue`, `pub_tx`/`pub_rx` | `queue`, `pub` |
| `assigned_senders` | a function to instants or `Never` |
| `handle_event`, ALIVE, with the loop over the queue and `evict_lru` | `Heartbeat(w)` |
| NEW_JOB that passes `validate_job` | `NewJob` |
| the `pub_rx` branch | `PublishAssign` |
| the spawned retry task, one attempt | `RetryPublish(r)` |
| `Disconnected` | `Disconnected` |
| the client's task ends | `ClientEnds` |

`get_workers` is called in both handlers and has three outcomes: too few entries
(nothing popped), all popped entries fresh, or a stale one met after some fresh ones
were popped.  In the last case it clears the book, puts the fresh ones back with one
instant, and sets the gauge anew (`Trimmed`, `OnlineAfter`).  A heartbeat ignored by
the cool-down and a job that fails `validate_job` change nothing and are no steps.
Jobs are numbered in the order in which they are handled; a job has one type, so that
`NumWorkers` is a constant (both types of the code ask for one worker).

`Dispatcher` says the same without book, instants and channel: `HandOut`, `Wait`,
`Report`.  The mapping takes the jobs handed out to be the accepted ones that do not
wait, and the idle workers to be the entries of the book.

### RelayClient

| code | model |
|---|---|
| `int_tx`/`int_rx` | `cmds` |
| the task's `subscriptions` map | `subscriptions` |
| position in the task's loop, `counter` | `task`, `counter` |
| `basic_ws`, the socket | `conn` (number of the connection), `up`, `wires`, `told` (it has reported its end) |
| `LocalState::subscriptions` of each connection at the relay | `relaySubs` |
| `subscribe`, `close_subscription`, `publish` | `Subscribe`, `CloseSubscription`, `Publish` |
| `int_rx` branch, by command, with a send that succeeds or fails | `TakeReq`, `TakeClose`, `TakeEvent` |
| `read_msg` answers None | `NoticeClosed` |
| a successful attempt and the resubscription | `Reconnect` |
| a failed attempt; after the last one, the end | `ReconnectFails` |
| relay: `handle_incoming_message` | `RelayReads(c)` |
| the connection's end, or of the network | `RelayCloses(c)`, `Break` |
| the client's socket learns of it, or never does | `SocketReports` |

A send over a broken connection may report success: the model takes both outcomes.
What was under way when a connection broke may be read by the relay later, also after
what came over a newer connection; `sent` and `read` are the history of who got what.  That
`read_msg` answers None takes a socket that has noticed the end of its connection (`told`),
and nothing makes it: the library sends no pings and sets no timeout, so that a half-open
connection can stay as it is for ever.  The map is
sent again in the order of a HashMap, so in any order.  A request is known by the
number of the call that made it; its filters and its `since` are data.  The relay's
limit of 32 subscriptions is not reached in this model.  The client's task can also
end when all its users are dropped; then nobody is left to see it.

### Aggregator, JobLedger

| code (`bin/aggregator.rs`) | model |
|---|---|
| messages from the client library | `relay_channel` |
| listener: ASSIGN, RESULT, Disconnected | `HearAssign`, `HearResult`, `HearDisconnected` |
| `aggr_tx.send(..).await` | `sending`, `Send` |
| the channel of 100 | `aggr_channel`, capacity `QUEUE` |
| aggregator task, one match arm each | `Refuse`, `FinishPow`, `Classify`, `NoIdentifier` |
| between the two inserts of `finalize_classification` | `current`, then `FinishClassification` |
| end of the channel | `AggregatorEnds` |
| `run` awaits its tasks one after the other | `main`, `Await` |
| Redis, `classifier_results`, `finished_jobs` | `redis`, `classified`, `finished` |
| the process is killed and started again | `Crash` |

An insert (`Insert`) says whether the document is written and what the driver reports:
it may fail after it was done, and is refused if the key is there.  A RESULT event names an
ASSIGN event in a tag (`assign`) and, in the header of its payload, a job (`raw_data_id`) and
a `job_type`.  As in the code, the tag decides whether the sender is an assignee, and the
header which check, which branch and which key; nothing compares the two, and an `Answer` takes
any combination.  A result carries at most one flaw, a wrong sender counting as one, and type and flaw decide by which of the
ways out it leaves the two tasks.  `validate_result_event` keeps its two conditions, sender and
proof of work, the latter waived by `SKIP_POW_CHECK`.  The client library may lose an event while it reconnects,
so that `Deliver` has the choice.  The gauge `PENDING_JOBS` is left out: nothing reads
it, and its drift is described under `hazards`.

`JobLedger` says what is left without ASSIGN events, channels, tasks, Redis and restarts: the
workers that hold an assignment, the reports that made a first stroke, the one between its two
strokes, and those that finished their jobs.  A stroke is made once per job, by a worker that
holds an assignment, for this job or for another; the second one of a classification is made by
the same report as the first; and only a mishap, or a job that was finished before, leaves it at
the first.  The mapping (`AsReport`) takes from a stored result its event, job, type and sender,
the workers from the ASSIGN events in Redis, and a mishap is a fault.

### Keepalive

| code (`ws/server.rs`) | model |
|---|---|
| `ping_interval_timer`, `pong_timeout_timer` | `nextTick`, `pongDue`: the instants they are due |
| `last_activity`, `waiting_for_pong` | the same |
| the loop runs | `open` |
| Text, Binary and Ping frames | `HandleText` |
| Pong; Close or end of stream | `HandlePong`; `HandleClose` |
| pong timeout | `PongTimeout` |
| tick: not idle; ping sent; ping fails | `TickActive`; `TickPing`; `TickPingFails` |

When several branches are ready, any of them may be taken, as `select!` does.  The clock
(`Elapse`) moves only when nothing is ready: a branch takes no time.  That is an
assumption about the machine, and about a peer that reads what it is sent: while the
code awaits a send, no timer is looked at (listed under `hazards`).  A frame that is a
receive error changes no variable and is no step.  A healthy peer answers every ping
before the timeout; a peer may be gone at any instant, with or without a Close.

### EventMatching

Operators, no state: what `EventOnWire::verify` and the conversion to an event accept
(`Acceptable`, `Parsed`), what a filter's tags become (`TagsParse`, `FilterTags`), and the
`match_*` functions under their own names.  A tag is a sequence of strings of which only
three things matter: is the name one letter, is the value hexadecimal, is it a number.
Two facts of the code are kept as they are.  `match_time` is called by nothing, so that
`since` and `until` do not restrict what a subscription is sent.  A subscription's filters
are parsed when an event is matched, not when it is made, so that one with a bad filter is
accepted and never interested.

### Relay, Fanout

| code (`ws/server.rs`, `global.rs`, `local/`) | model |
|---|---|
| the broadcast channel | `log`, of which the `CAPACITY` newest can still be received |
| a connection's receiver of it | `cursor`, the number of the event it is at |
| `LocalState::subscriptions` | `subscriptions` |
| `outgoing_sender`/`outgoing_receiver` | `outgoing` |
| a connection is made, ends | `Connect`, `Leave` |
| `handle_incoming_message`: EVENT, REQ, CLOSE | `ReadEvent`, `ReadReq`, `ReadClose` |
| `handle_global_incoming_events` | `Receive` |
| `RecvError::Lagged` | `SkipLost` |
| `outgoing_receiver.recv()` and the send | `Write` |

The subscription an event is delivered under is any that is interested: the code takes
the first in the order of a HashMap.  `joined`, `handed`, `since`, `wanted` and `overrun`
are history: what was broadcast before a connection and before a subscription came, what
was handed over, and what the peer asked for.  A clone of the global state brings a receiver
of its own (`ws/global.rs:13`), so that each connection has a second one that nobody reads; it
holds events back in the channel's memory, loses none, and is left out.

`Fanout` says what is left without subscriptions, queues and sockets: one order of events,
of which every connection is handed some, each once, in that order, from when it joined.

### Publisher

| code (`bin/publisher.rs`, `bin/publisher_new.rs`, `db.rs`) | model |
|---|---|
| where a run's main task is | `pc` |
| `entries`, the PoW jobs still to go, the jobs to record | `entries`, `pows`, `batch` |
| `classifier_published` | `records`, shared by all runs |
| too many cached jobs; start | `EnoughJobs`, `Begin` |
| `left_anti_join` | `Fetch` |
| `publish` and `insert_one`, job by job | `PublishJob`, `PublishPoW`, `Record` |
| a request for a chunk and `insert_many` | `PostJobs`, `PostPoW`, `PostJobsFails`, `Record` |
| an insert that fails, on the way there or back | `RecordFails` |
| the client's task and the relay | `Greet`, `Answer`, `Outage`, `GiveUp` |
| the listener's select! | `Hear`, `Tick`, with `listening`, `heard`, `deaf` |
| end of a run, killed | `Published`, `Exit`, `Crash` |

`publisher` records the `_id` of an entry and `publisher_new` its `content_checksum`, in the
collection that both join on `_id`; how the two values are related nothing in the
repository says, so `Checksum` is a constant.  A job is *handed over* when `publish` says Ok,
which is when its event is in the client's channel, or when the REST server has it.  From the
channel it may still be lost: with the connection, by a send that fails, or with the process.
`deaf` is what `select!` does with the
pattern `Some(RelayMessage::Ok(..))`: another message does not match, is gone, and the
branch stays off until the select! returns.  An interval ticks at once and then every 30 s,
so that "nothing within 30 s" is "nothing since the last tick", and no clock is needed.

### EventStore

`WriteEvent` inserts an event, once per id, and its tags, without a transaction
(`write_event`).  `QueryByFilters` is `query_by_filters`: SQL selects by id, author, kind and
time (`BuildOneFilter`, `Selected`), then `match_filters` looks at what was selected
(`AnswerTo`).  That second look includes no time, so that an event fetched for one filter may be
answered on account of another whose bounds it misses.  SQL's bounds of the time are strict and without bounds it asks for
`created_at > 0`, so that the instants themselves are missed; `AskedIsAnswered` says exactly
that.  The expiration of an event is written as `expieration` and never read back.

## 4. The runs

| run | module, cfg | instance | what it shows |
|---|---|---|---|
| `assigner` | `MCAssigner`, `MCAssigner.cfg` | 3 workers, 2 per job, book of 2, 2 jobs, clock to 5, staleness 3, cool-down 2, 2 attempts | the queue, book, channel and retries stay consistent in every interleaving, with the partly popped book whose workers are put back; no job is lost, doubled or overtaken; the cool-down holds between hand-out and publication; only silent workers leave the book; an assignment reaches the client unless the client ends; every step is a step of `Dispatcher` |
| `client` | `MCRelayClient`, `MCRelayClient.cfg` | 2 ids, 2 calls and 2 events, 3 of these together, 3 connections, 2 attempts | map and relay agree up to what is under way; nothing wanted is forgotten; before the first outage the last call decides; a wanted subscription becomes active after each outage that the socket reports; an event is lost only with the connection that carried it, and then with all later ones of it; events go out once and in order, connection by connection |
| `client_last_call_wins` | `MCRelayClientLastCallWins.cfg` | 1 id, 2 calls, 3 connections | violation, see §7 |
| `client_event_dropped` | `MCRelayClientNoEventDropped.cfg` | 1 id, 1 event, 3 connections | violation, see §7 |
| `aggregator` | `MCAggregator`, `MCAggregator.cfg` | 2 jobs, 2 workers, 1 ASSIGN and 3 RESULT events with any header, channel of 1, 1 fault | counters, collections and their order through duplicates, headers that do not fit the assignment, flaws, failed writes and crashes; every result is settled; every step is a step of `JobLedger` |
| `aggregator_assignee` | `MCAggregatorAssignee.cfg` | 2 jobs, 1 worker, 1 ASSIGN and 1 RESULT event, no faults | violation, see §7 |
| `aggregator_shuts_down` | `MCAggregatorShutsDown.cfg` | 1 ASSIGN and 1 RESULT event | violation, see §7 |
| `keepalive` | `MCKeepalive`, `MCKeepalive.cfg` | interval 4, timeout 3, clock to 23, 2 frames waiting | the bound on silence, and that a healthy peer stays |
| `relay` | `MCRelay`, `MCRelay.cfg` | 2 connections, 3 ids of which 2 may be held, channel of 1, 4 frames, 2 events, 2 lists of filters | what a connection is handed is in the one order of `Fanout`; the OK comes before the echo; nothing asked for is missed but by the channel's limit; what is held is what was asked |
| `event_store` | `MCEventStore`, `MCEventStore.cfg` | 4 events, two with one id; every query of one or two of 28 filters | an answer is what the filters match, no more and, but for the bounds of the time, no less |
| `publisher` | `MCPublisher`, `MCPublisher.cfg` | a run of each program, 2 jobs, limit 3, 67 % (2 jobs, the third is a PoW job), chunks of 2, 2 faults | records stand for jobs handed over; what is handed over twice was not recorded, or under another key; every run ends |
| `publisher_listener` | `MCPublisher`, `MCPublisherClosesAfterSilence.cfg` | a run of `publisher`, no faults | violation, see §7 |

Why the bounds are enough.

- *Assigner.*  More workers than the book holds, so that eviction happens; two workers per
  job, though both job types of the code ask for one, because only then a book is popped in
  part and put back (the theorems cover every number); as many jobs as make one wait behind
  another, and one heartbeat serves the first;
  a clock past staleness and past the cool-down, so that each is seen before, at and
  after its end; two attempts, so that a retry fails, goes on and gives up.
- *Client.*  Three connections are two outages, so that a resubscription itself meets
  an outage; two calls are Req and Close of one id, or two ids in both orders of the map;
  two events wait behind each other, go down with one connection, or lie on both sides of
  an outage, with a request or a Close before, between or after them.
- *Aggregator.*  Two jobs are an assignment for one and a result that names the other.
  Three results give duplicates, headers that do not fit, and a full channel; one fault is a
  crash or a failed write at any step.  An assignment names any set of workers; a second one is
  to the aggregator only another tag, and is left to the theorems, as are more faults.
- *Keepalive.*  The clock runs through almost six intervals and a silence of two intervals
  and a timeout fits in twice; the timeout is shorter than the interval by one,
  the least the assumption allows.
- *Relay.*  One id more than may be held, so that a request is refused and a known id
  replaced at the limit; a channel of one, so that the second event unread overruns it;
  four frames are two requests and two events, or a request, its replacement, its close
  and an event.
- *Event store.*  All sets of written events, and all pairs of filters, of which each field
  is missing in some and selective in others; an instant at, before and after each bound.
- *Publisher.*  Two runs overlap or follow each other; two jobs fill one chunk; one job has
  the same `_id` and checksum and the other not; two faults are a failed record and a crash,
  or two outages.

For every safety property proofs cover the other sizes (§6); what the bounds decide alone is
liveness.

`CHECK_DEADLOCK FALSE` is in every configuration, because each of these systems really
stops: the assigner at `Disconnected`, the client after its last attempt, the aggregator's
tasks at the end of their channels, the connection when its loop ends; and every
instance ends at its bounds.  Symmetry is used in `relay` alone, which checks no liveness, over
connections and ids.

## 5. Fairness

Only what the runtime grants is assumed, and nothing of the network.

- *Assigner*: `select!` picks a ready branch at random, so that a branch that stays
  ready is taken in the end (`PublishAssign`, `Disconnected`); a spawned retry task is
  polled (`RetryPublish`, per job).  Heartbeats, jobs and the end of the client have no
  fairness.
- *Client*: the task serves its channel, acts on a socket that has reported its end, and goes
  on with its attempts; the relay reads a connection.  That the socket reports anything
  (`SocketReports`) is up to the network and has no fairness: `BecomesActive` is claimed only
  where no connection stays half-open for ever (`HalfOpen`).  Whether an attempt succeeds is free: the
  disjunction `Reconnect \/ ReconnectFails` is fair, not its parts.
- *Aggregator*: each of the three tasks that can make a step makes one.  Results,
  crashes and the end of the client have no fairness.
- *Publisher*: database and REST server answer, so that the main task goes on (`Main`), and
  the interval ticks (`Tick`).  Nothing of relay and client, which may never connect:
  `EveryRunEnds` says that the program does not wait for them for ever.
- *Relay* and *EventStore* have safety properties only.
- *Keepalive* needs none: its bound is a safety property, because the clock does not
  pass an instant at which something is due.

## 6. The proofs

Checked by TLAPS, for every value of the constants that satisfies the module's assumption.

- **`AssignerProofs`** (`AssignerAssumption`: periods and sizes are natural numbers).
  `IInv` is TypeOK, BookSorted, NoIdleWorkers, GaugesMatch, FirstComeFirstServed and
  BookInPast.  They need each other: a book sorted by instant and not in the future is what
  makes "the first stale entry and all below" the silent ones and keeps it sorted when an
  entry is appended; that fewer workers than a job needs are left while a job waits
  (NoIdleWorkers) is why a new job that takes workers cannot overtake the queue
  (FirstComeFirstServed).  A heartbeat adds one entry at most, so that one eviction leaves the
  book within MAX_WORKERS (TypeOK).  Three more invariants stand on `IInv`.  JobsAccounted: retry
  tasks, published and given-up jobs are disjoint, have one entry per job and are together the
  jobs sent, whose number is that of the arrivals less queue and channel (Settled).
  FullBatches: what is popped is as many distinct workers as a job needs.  CoolDownKept: no
  operation on the book invents a heartbeat, and what is in it was heard after the cool-down
  (Heard, Cooled).  Who leaves the book without a job is stated twice.  DropsOnlyStale, for
  batches of any size: an entry leaves only when it is stale itself, or as the first of a full
  book.  DropsOnlySilentWorkers speaks of the last heartbeat instead of the stored instant, and
  the two differ once `get_workers` has put workers back: it pops from the newest end and gives
  those it puts back the instant of the last fresh one.  With batches of at most two there is
  only one to put back, its instant is its own (AtIsSeen), and the theorem holds; both job types
  of the code ask for one worker (`job_protocol.rs:87`).  With three TLC finds a live worker
  dropped, so that the theorem has `NumWorkers <= 2` as its assumption.  The refinement follows from `IInv`: each step of the assigner is a step
  of `Dispatcher` or a stutter.  Lemmas give what `Insert`, `Trimmed`, `Served` and `Batch`
  return for every book.
- **`RelayClientProofs`** (`RelayClientAssumption`: the ids are a finite set).  `IInv` adds
  to the checked properties that connections not made yet are empty (FutureUnused),
  that the task tries only while attempts are left (AttemptsLeft), and WantedInTheEnd:
  the last command for a wanted id, in map or channel, is a request.  NothingForgotten
  alone is not inductive: a Close of an earlier call may be served while the id is wanted
  again, and only the order of the channel says that a Req follows.  EventsOnceInOrder follows
  every event through the channel and then over one connection, read by the relay or not
  (`Carried`); it needs beside `IInv` that no event is newer than the last one published
  (Numbered), which is what puts the next one behind all others; FutureUnused then keeps the
  connections in order.  LostWithItsConnection stands on both: a connection that works loses
  nothing, and because it carries events in order, what is missing of a broken one is its end.
  QuietIsActive is what remains of BecomesActive without fairness: where nothing is left to
  serve or read, every wanted subscription is active.  Lemmas say what
  appending, taking the head and appending a whole resubscription do to "the last command
  for an id".
- **`KeepaliveProofs`** (`KeepaliveAssumption`: 0 < timeout < interval).  `IInv` says that no
  timer is overdue while the loop runs (OnTime), that a ping's timeout comes before the
  next tick (TimeoutFirst), by when the tick or timeout that ends a silence comes
  (TickInTime, TimeoutInTime), and that a healthy peer still has time for its answer or the
  answer has arrived (AnswerOwed).  TimeoutFirst is where the assumption is used: with a
  timeout as long as the interval each tick could restart it.
- **`AggregatorProofs`** (`AggregatorAssumption`).  `IInv` is the invariants of the run with
  what they need: messages and channel hold only results and assignments that exist
  (MessagesKnown), what passed the checks passed them for a stored assignment (AllApproved), the
  classification between its two inserts has had the first (Between), and a
  sharper count of gaps, in which the one being written is not one yet (GapsCounted): it is the
  fault that turns it into one.  FinishedByAnAssignee and ClassifiedFirst also need that a document
  is stored under the job of its own header (Keyed).  EndedIsSettled adds that
  a task that has ended has left nothing behind (Drained).  The refinement of `JobLedger` goes
  action by action: each write to a collection is a stroke or, if the key is taken, no step of
  the ledger; a crash abandons what is begun; all else leaves the ledger alone, a later ASSIGN
  event included, because it changes no assignment that Redis names (LedgerStill).  A report is
  made by a worker that the ledger knows because it is Approved (ReportInLedger), and its job is
  free in the ledger when its key is free in the collection, which is Keyed (FreeIsUnstored).
- **`RelayProofs`** (`RelayAssumption`).  `IInv` is, for each connection, where its receiver is
  (Placed), the order of what it was handed and of what waits (InOrder), what it has got since
  each subscription came (Kept), and what it holds against what was asked (AsAsked).  InOrder
  says that every delivery is older than the receiver's place, which is why an OK, made for
  the newest event, comes before its echo.  The refinement of `Fanout` follows: what is
  received is newer than all that was handed over.
- **`PublisherProofs`** (`PublisherAssumption`).  RecordedWasHandedOver needs that what is about
  to be recorded was handed over (BatchHandedOver); it says nothing of the relay, which may never
  have got the job (§7).  PublishedOnce needs that a job handed over is recorded, missed or about
  to be recorded (Accounted), so that after an earlier run has ended
  (EarlierDone) the anti-join leaves it out (NotHeldAgain).
- **`EventStoreProofs`** (`EventStoreAssumption`).  AskedIsAnswered: the answer is always
  `AnswerTo` of what was asked; that SQL's selection is weaker than the match but for the time is a lemma about the
  operators.
- **`MaxLemmas`**: `Max` of a nonempty set of integers in an interval exists, from the
  library's well-foundedness of the natural numbers.

Model-checked only: the liveness properties (EventuallyPublished, BecomesActive, ResultsSettle, EveryRunEnds), which are out of TLAPS's reach here, and the
counterexamples of §7.

## 7. Disagreements between code and what it says of itself

1. *A closed subscription comes back* (`client_last_call_wins`).  After an outage the map goes
   into the channel behind a waiting Close (`client.rs:179`), which is then undone.  The demo
   publisher takes `close_subscription` to cancel.
2. *An accepted event is dropped* (`client_event_dropped`).  When a send meets a broken
   connection (`client.rs:120`) the event is gone, and `publish` has answered Ok; the
   assigner's retries, meant for a client that reconnects, do not start.
3. *The aggregator does not end* (`aggregator_shuts_down`).  After "we are shutting down" `run`
   awaits the metrics server, which never ends (`bin/aggregator.rs:372`).
4. *The publisher's listener closes over an OK* (`publisher_listener`).  The first message of a
   relay is the AUTH challenge.  It does not fit the pattern of the branch
   (`bin/publisher.rs:81`), which is then off until the interval ticks, and the listener closes
   with "No more OK messages within the last 30s" while OKs wait in its channel.
5. *A job is finished by a worker it was not assigned to* (`aggregator_assignee`).  "Check if
   sender is the official assignee" (`bin/aggregator.rs:505`) compares the sender with the ASSIGN
   event that the result names; the job that is then finished is the one of the result's own
   header, which nothing compares with that event.

Without a run of their own:

- `nostr-client-plus/README.md:85` says of jobs that are not completed that they "will be
  re-submitted".  The publisher records a job as soon as its event is in the client's channel
  (`bin/publisher.rs:172`) and passes over what it has recorded, completed or not, and also when
  the event never gets to the relay.
- `nostr-client-plus/README.md:87`: below a threshold of cached jobs a publisher "won't run"; the
  code ends it *above* the threshold (`bin/publisher.rs:49`).
- Two tests of `nostr-surreal-db` expect what the code, and `EventMatching` with it, does not do.
  `message/filter.rs:178-186` wants a filter with `"#e": ["ab"]` to be refused: `ab` is
  hexadecimal, which is all that is asked of it.  `message/events.rs:146` wants three tags of an
  event that has two with a name of one letter.

What a reader might expect and the models do not say:

- A connection that is dead without any sign of it is never given up by the client
  (`client.rs:76`: no ping, no timeout); `BecomesActive` leaves this case out by name (`HalfOpen`).
- The relay may read what an old connection still carries after what came over a newer one, so
  that events of one client are in order per connection only.
- The retries of the assigner (`bin/assigner.rs:178`) can start only when the client has ended for
  good, so that none ever succeeds: `RetryPublish` has the arm and no state takes it.  The
  cool-down is therefore about hand-out and publication, not about late retries.
- A pong that is ready at the instant of the pong timeout may lose to it in `select!`;
  `HealthyStays` speaks of peers whose answer has been handled before that instant.
- An event outside the time of every filter it matches may be answered (`EventStore`), and a
  subscription with a filter that does not parse is accepted and never interested (`Relay`).

## 8. What is not modelled

- Worker and demo programs.  `bin/worker.rs:122` names in its e tag the job's event, taken from
  the ASSIGN event, while the aggregator looks up what is named there among the ids of ASSIGN
  events: with this worker no result is found.  `Aggregator` takes results as its own code
  expects them.
- Of the database crate `update_event`, `delete_event` and two more selects, which nothing
  calls and whose effect is SurrealDB's.
- Relay front end, message parsing, wire types, configuration, logging: one pass over their input,
  with no state that lives on.
- Cryptography: a signature or a proof of work is valid or it is not (a flaw of a result);
  the hashes are outside what can be enumerated.
- Start-up and the periodic QuerySubscription messages, whose answers are only logged.
