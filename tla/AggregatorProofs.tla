-------------------------- MODULE AggregatorProofs --------------------------
(***************************************************************************)
(* Proofs about the aggregator, for all sets of jobs and workers, every    *)
(* size of the channel, and any number of events and faults.               *)
(***************************************************************************)
EXTENDS Aggregator, FiniteSetTheorems, SequenceTheorems, TLAPS

\* The ASSIGN events that messages name have been published.
MessagesKnown ==
    \A i \in DOMAIN relay_channel :
        /\ relay_channel[i].kind = "ASSIGN" => relay_channel[i].assign \in 1 .. Len(assignments)
        /\ relay_channel[i].kind = "RESULT" =>
              relay_channel[i].result.assign \in 1 .. Len(assignments)

\* A result past the listener: its ASSIGN event is in Redis and names its sender.
Approved(r) == r.assign \in redis /\ r.sender = AssigneeOf(r)

AllApproved ==
    /\ sending # None => Approved(sending)
    /\ \A i \in DOMAIN aggr_channel : Approved(aggr_channel[i])
    /\ current # None => Approved(current)

\* What is between its two writes has had the first.
Between ==
    current # None => current.type = "classification" /\ classified[current.job] = current

\* Classifications without an entry in finished_jobs, but for the one being written.
Gaps == {j \in Jobs : /\ classified[j] # None /\ finished[j] = None
                      /\ current # None => j # current.job}

\* Documents are stored under the job of their header.
KeyedBy(collection) == \A j \in Jobs : collection[j] # None => collection[j].job = j
Keyed == KeyedBy(finished) /\ KeyedBy(classified)

GapsCounted == Cardinality(Gaps) <= faults

IInv ==
    /\ TypeOK
    /\ MessagesKnown
    /\ AllApproved
    /\ Between
    /\ FinishedByAnAssignee
    /\ Keyed
    /\ ClassifiedFirst
    /\ EveryResultCounted
    /\ GapsCounted
    /\ CountedOnce

-----------------------------------------------------------------------------
(* Lemmas about results, counters and writes.                              *)

LEMMA ResultNotNone ==
  ASSUME NEW r \in Result
  PROVE  /\ r # None
         /\ r.event \in 1 .. MaxResults /\ r.assign \in 1 .. MaxAssigns
         /\ r.sender \in Workers /\ r.job \in Jobs /\ r.type \in Types
<1>1. /\ r.event \in 1 .. MaxResults /\ r.assign \in 1 .. MaxAssigns
      /\ r.sender \in Workers /\ r.job \in Jobs /\ r.type \in Types
  BY DEF Result
<1>2. None.assign = 0
  BY DEF None
<1>3. r.assign # 0
  BY <1>1, AggregatorAssumption
<1> QED BY <1>1, <1>2, <1>3

LEMMA CountStep ==
  ASSUME metrics \in [Counters -> Nat], NEW c \in Counters, Count(c)
  PROVE  /\ metrics' \in [Counters -> Nat]
         /\ Counted \in Nat /\ Counted' = Counted + 1
         /\ metrics["FINISHED_JOBS"] \in Nat
         /\ metrics'["FINISHED_JOBS"] =
               IF c = "FINISHED_JOBS" THEN metrics["FINISHED_JOBS"] + 1 ELSE metrics["FINISHED_JOBS"]
<1>1. /\ "FINISHED_JOBS" \in Counters /\ "FAILED_JOBS" \in Counters
      /\ "RESULT_ERRORS" \in Counters /\ "UNCLASSIFIED_ERRORS" \in Counters
      /\ c \in {"FINISHED_JOBS", "FAILED_JOBS", "RESULT_ERRORS", "UNCLASSIFIED_ERRORS"}
  BY DEF Counters
<1>2. \A d \in Counters : /\ metrics[d] \in Nat
                          /\ metrics'[d] = IF d = c THEN metrics[d] + 1 ELSE metrics[d]
  BY DEF Count
<1>3. metrics' \in [Counters -> Nat]
  BY <1>2 DEF Count
<1>4. Counted \in Nat
  BY <1>1, <1>2 DEF Counted
<1>5. Counted' = Counted + 1
  <2>1. CASE c = "FINISHED_JOBS"
    BY <1>1, <1>2, <2>1 DEF Counted
  <2>2. CASE c = "FAILED_JOBS"
    BY <1>1, <1>2, <2>2 DEF Counted
  <2>3. CASE c = "RESULT_ERRORS"
    BY <1>1, <1>2, <2>3 DEF Counted
  <2>4. CASE c = "UNCLASSIFIED_ERRORS"
    BY <1>1, <1>2, <2>4 DEF Counted
  <2> QED BY <1>1, <2>1, <2>2, <2>3, <2>4
<1> QED BY <1>1, <1>2, <1>3, <1>4, <1>5

\* A write happens at most once, and what it leaves undone without a fault was done before.
LEMMA WriteFinishedStep ==
  ASSUME TypeOK, NEW r \in Result, NEW ok \in BOOLEAN, WriteFinished(r, ok)
  PROVE  /\ finished' \in [Jobs -> Result \cup {None}]
         /\ \A j \in Jobs : finished[j] # None => finished'[j] = finished[j]
         /\ \A j \in Jobs : \/ finished'[j] = finished[j]
                            \/ j = r.job /\ finished[j] = None /\ finished'[j] = r
         /\ ok => finished[r.job] = None /\ finished'[r.job] = r
         /\ faults' \in 0 .. MaxFaults /\ faults' \in {faults, faults + 1}
         /\ ok \/ finished[r.job] # None => faults' = faults
         /\ ~ok /\ finished[r.job] = None => faults' = faults + 1
<1>1. finished \in [Jobs -> Result \cup {None}]
  BY DEF TypeOK
<1>2. PICK done \in BOOLEAN :
         /\ ok => done
         /\ done => finished[r.job] = None
         /\ IF finished[r.job] # None \/ ok THEN NoFault ELSE Fault
         /\ finished' = IF done THEN [finished EXCEPT ![r.job] = r] ELSE finished
  BY DEF WriteFinished, Insert
<1>3. r.job \in Jobs /\ faults \in 0 .. MaxFaults /\ r # None
  BY ResultNotNone DEF TypeOK
<1>4. /\ finished[r.job] # None \/ ok => faults' = faults
      /\ ~ok /\ finished[r.job] = None => faults < MaxFaults /\ faults' = faults + 1
  BY <1>2 DEF Fault, NoFault
<1>5. faults' \in 0 .. MaxFaults /\ faults' \in {faults, faults + 1}
  BY <1>3, <1>4, AggregatorAssumption
<1>6. CASE done
  <2>1. finished' = [finished EXCEPT ![r.job] = r] /\ finished[r.job] = None
    BY <1>2, <1>6
  <2>2. /\ finished'[r.job] = r /\ finished' \in [Jobs -> Result \cup {None}]
        /\ \A j \in Jobs : j # r.job => finished'[j] = finished[j]
    BY <1>1, <1>3, <2>1
  <2> QED BY <1>2, <1>4, <1>5, <2>1, <2>2
<1>7. CASE ~done
  BY <1>1, <1>2, <1>4, <1>5, <1>7
<1> QED BY <1>6, <1>7

LEMMA WriteClassifiedStep ==
  ASSUME TypeOK, NEW r \in Result, NEW ok \in BOOLEAN, WriteClassified(r, ok)
  PROVE  /\ classified' \in [Jobs -> Result \cup {None}]
         /\ \A j \in Jobs : classified[j] # None => classified'[j] = classified[j]
         /\ \A j \in Jobs : \/ classified'[j] = classified[j]
                            \/ j = r.job /\ classified[j] = None /\ classified'[j] = r
         /\ ok => classified[r.job] = None /\ classified'[r.job] = r
         /\ faults' \in 0 .. MaxFaults /\ faults' \in {faults, faults + 1}
         /\ ok \/ classified[r.job] # None => faults' = faults
         /\ ~ok /\ classified[r.job] = None => faults' = faults + 1
<1>1. classified \in [Jobs -> Result \cup {None}]
  BY DEF TypeOK
<1>2. PICK done \in BOOLEAN :
         /\ ok => done
         /\ done => classified[r.job] = None
         /\ IF classified[r.job] # None \/ ok THEN NoFault ELSE Fault
         /\ classified' = IF done THEN [classified EXCEPT ![r.job] = r] ELSE classified
  BY DEF WriteClassified, Insert
<1>3. r.job \in Jobs /\ faults \in 0 .. MaxFaults /\ r # None
  BY ResultNotNone DEF TypeOK
<1>4. /\ classified[r.job] # None \/ ok => faults' = faults
      /\ ~ok /\ classified[r.job] = None => faults < MaxFaults /\ faults' = faults + 1
  BY <1>2 DEF Fault, NoFault
<1>5. faults' \in 0 .. MaxFaults /\ faults' \in {faults, faults + 1}
  BY <1>3, <1>4, AggregatorAssumption
<1>6. CASE done
  <2>1. classified' = [classified EXCEPT ![r.job] = r] /\ classified[r.job] = None
    BY <1>2, <1>6
  <2>2. /\ classified'[r.job] = r /\ classified' \in [Jobs -> Result \cup {None}]
        /\ \A j \in Jobs : j # r.job => classified'[j] = classified[j]
    BY <1>1, <1>3, <2>1
  <2> QED BY <1>2, <1>4, <1>5, <2>1, <2>2
<1>7. CASE ~done
  BY <1>1, <1>2, <1>4, <1>5, <1>7
<1> QED BY <1>6, <1>7

LEMMA HeadAndTail ==
  ASSUME NEW S, NEW q \in Seq(S), q # <<>>
  PROVE  /\ Head(q) \in S /\ Head(q) = q[1] /\ 1 \in DOMAIN q
         /\ Tail(q) \in Seq(S) /\ Len(q) \in Nat /\ Len(Tail(q)) = Len(q) - 1
         /\ \A i \in DOMAIN Tail(q) : \E k \in DOMAIN q : Tail(q)[i] = q[k]
<1>1. /\ Head(q) \in S /\ Tail(q) \in Seq(S) /\ Len(Tail(q)) = Len(q) - 1
      /\ \A i \in 1 .. Len(Tail(q)) : Tail(q)[i] = q[i + 1]
  BY HeadTailProperties
<1>2. Len(q) \in Nat \ {0} /\ DOMAIN q = 1 .. Len(q)
  BY EmptySeq, LenProperties
<1>3. DOMAIN Tail(q) = 1 .. Len(Tail(q))
  BY <1>1, LenProperties
<1>4. \A i \in DOMAIN Tail(q) : i + 1 \in DOMAIN q /\ Tail(q)[i] = q[i + 1]
  BY <1>1, <1>2, <1>3
<1>5. Head(q) = q[1] /\ 1 \in DOMAIN q
  BY <1>2
<1> QED BY <1>1, <1>2, <1>4, <1>5

LEMMA Appended ==
  ASSUME NEW S, NEW q \in Seq(S), NEW x \in S
  PROVE  /\ Append(q, x) \in Seq(S) /\ Len(q) \in Nat /\ Len(Append(q, x)) = Len(q) + 1
         /\ \A i \in 1 .. Len(q) : Append(q, x)[i] = q[i]
         /\ \A i \in DOMAIN Append(q, x) :
               Append(q, x)[i] = x \/ (i \in DOMAIN q /\ Append(q, x)[i] = q[i])
<1>1. /\ Append(q, x) \in Seq(S) /\ Len(q) \in Nat /\ Len(Append(q, x)) = Len(q) + 1
      /\ \A i \in 1 .. Len(q) : Append(q, x)[i] = q[i]
      /\ Append(q, x)[Len(q) + 1] = x
      /\ DOMAIN q = 1 .. Len(q)
  BY AppendProperties, LenProperties
<1>2. DOMAIN Append(q, x) = 1 .. Len(q) + 1
  BY <1>1, LenProperties
<1> QED BY <1>1, <1>2

Longer == assignments' = assignments \/ \E a \in Assignment : assignments' = Append(assignments, a)

LEMMA LongerAssignments ==
  ASSUME TypeOK, Longer
  PROVE  /\ assignments' \in Seq(Assignment)
         /\ Len(assignments) \in Nat /\ Len(assignments') \in Nat
         /\ Len(assignments) <= Len(assignments')
         /\ \A n \in 1 .. Len(assignments) : assignments'[n] = assignments[n]
<1>1. assignments \in Seq(Assignment) /\ Len(assignments) \in Nat
  BY LenProperties DEF TypeOK
<1>2. CASE assignments' = assignments
  BY <1>1, <1>2
<1>3. ASSUME NEW a \in Assignment, assignments' = Append(assignments, a)
      PROVE  /\ assignments' \in Seq(Assignment) /\ Len(assignments') = Len(assignments) + 1
             /\ \A n \in 1 .. Len(assignments) : assignments'[n] = assignments[n]
  BY <1>1, <1>3, Appended
<1> QED BY <1>1, <1>2, <1>3 DEF Longer

\* Steps that change neither the database nor what is being written to it.
LEMMA StoredSame ==
  ASSUME IInv, Longer, UNCHANGED <<classified, finished, current>>, redis \subseteq redis',
         faults' \in Nat, faults <= faults'
  PROVE  Between' /\ FinishedByAnAssignee' /\ Keyed' /\ ClassifiedFirst' /\ GapsCounted'
<1>0. /\ TypeOK /\ Between /\ FinishedByAnAssignee /\ Keyed /\ ClassifiedFirst
      /\ GapsCounted /\ AllApproved
  BY DEF IInv
<1>1. /\ \A n \in 1 .. Len(assignments) : assignments'[n] = assignments[n]
      /\ redis \in SUBSET (1 .. Len(assignments))
  BY <1>0, LongerAssignments DEF TypeOK
<1>3. \A j \in Jobs : finished[j] # None
          => assignments'[finished[j].assign] = assignments[finished[j].assign]
  BY <1>0, <1>1 DEF FinishedByAnAssignee
<1>4. Between' /\ Keyed' /\ ClassifiedFirst'
  BY <1>0 DEF Between, Keyed, KeyedBy, ClassifiedFirst
<1>5. FinishedByAnAssignee'
  BY <1>0, <1>3 DEF FinishedByAnAssignee, AssigneeOf
<1>6. GapsCounted'
  <2>1. Gaps' = Gaps
    BY DEF Gaps
  <2>2. IsFiniteSet(Gaps)
    BY <1>0, AggregatorAssumption, FS_Subset DEF Gaps, TypeOK
  <2>3. Cardinality(Gaps) \in Nat /\ faults \in Nat
    BY <1>0, <2>2, FS_CardinalityType, AggregatorAssumption DEF TypeOK
  <2>4. Cardinality(Gaps) <= faults
    BY <1>0 DEF GapsCounted
  <2>5. Cardinality(Gaps) <= faults'
    BY <2>3, <2>4
  <2>6. Cardinality(Gaps') = Cardinality(Gaps)
    BY <2>1
  <2>7. Cardinality(Gaps') <= faults'
    BY <2>5, <2>6
  <2> QED BY <2>7 DEF GapsCounted
<1> QED BY <1>4, <1>5, <1>6

LEMMA ApprovedStill ==
  ASSUME TypeOK, Longer, redis \subseteq redis', NEW r, Approved(r)
  PROVE  Approved(r)'
<1>1. r.assign \in 1 .. Len(assignments)
  BY DEF Approved, TypeOK
<1>2. assignments'[r.assign] = assignments[r.assign]
  BY <1>1, LongerAssignments
<1> QED BY <1>2 DEF Approved, AssigneeOf

LEMMA InitInv == Init => IInv
<1> SUFFICES ASSUME Init PROVE IInv
  OBVIOUS
<1>1. /\ <<>> \in Seq(Assignment) /\ <<>> \in Seq(Message) /\ <<>> \in Seq(Result)
      /\ Len(<<>>) = 0
  BY EmptySeq
<1>2. TypeOK
  <2>1. metrics \in [Counters -> Nat]
    BY DEF Init, NoCounts
  <2>2. /\ assignments \in Seq(Assignment) /\ relay_channel \in Seq(Message)
        /\ aggr_channel \in Seq(Result) /\ Len(assignments) = 0 /\ Len(aggr_channel) = 0
    BY <1>1 DEF Init
  <2>3. /\ Len(assignments) <= MaxAssigns /\ Len(aggr_channel) <= QUEUE
        /\ answers \in 0 .. MaxResults /\ faults \in 0 .. MaxFaults /\ results \in Nat
    BY <2>2, AggregatorAssumption DEF Init
  <2>4. /\ clientEnded \in BOOLEAN
        /\ listener \in {"listening", "ended"} /\ aggregator \in {"serving", "ended"}
        /\ sending \in Result \cup {None} /\ current \in Result \cup {None}
        /\ redis \in SUBSET (1 .. Len(assignments)) /\ classified \in [Jobs -> Result \cup {None}]
        /\ finished \in [Jobs -> Result \cup {None}]
        /\ main \in {"listener", "aggregator", "metrics", "monitor", "ended"}
    BY DEF Init
  <2> QED BY <2>1, <2>2, <2>3, <2>4 DEF TypeOK
<1>3. MessagesKnown /\ AllApproved /\ Between
  BY <1>1 DEF Init, MessagesKnown, AllApproved, Between
<1>4. FinishedByAnAssignee /\ Keyed /\ ClassifiedFirst
  BY DEF Init, FinishedByAnAssignee, Keyed, KeyedBy, ClassifiedFirst
<1>5. EveryResultCounted
  <2>1. Counted = 0
    BY DEF Init, NoCounts, Counted, Counters
  <2>2. results = 0 /\ One(sending) = 0 /\ One(current) = 0 /\ Len(aggr_channel) = 0
    BY <1>1 DEF Init, One
  <2> QED BY <2>1, <2>2 DEF EveryResultCounted
<1>6. Gaps = {} /\ {j \in Jobs : finished[j] # None} = {} /\ faults = 0
  BY DEF Init, Gaps
<1>7. GapsCounted /\ CountedOnce
  <2>1. metrics["FINISHED_JOBS"] = 0
    BY DEF Init, NoCounts, Counters
  <2> QED BY <1>6, <2>1, FS_EmptySet DEF GapsCounted, CountedOnce
<1> QED BY <1>2, <1>3, <1>4, <1>5, <1>7 DEF IInv

-----------------------------------------------------------------------------
(* Steps outside and of the listener.                                      *)

LEMMA AssignedIn ==
  ASSUME NEW a \in 1 .. MaxAssigns
  PROVE  /\ Assigned(a) \in Message /\ Assigned(a).kind = "ASSIGN" /\ Assigned(a).assign = a
BY DEF Assigned, Message

LEMMA MessageKinds ==
  ASSUME NEW m \in Message
  PROVE  m.kind = "RESULT" => m.result \in Result
BY DEF Message

\* A message more, about what is known by now.
LEMMA HeardLater ==
  ASSUME TypeOK, MessagesKnown, Longer, NEW m \in Message,
         m.kind = "ASSIGN" => m.assign \in 1 .. Len(assignments'),
         m.kind = "RESULT" => m.result.assign \in 1 .. Len(assignments'),
         relay_channel' = Append(relay_channel, m) \/ relay_channel' = relay_channel
  PROVE  relay_channel' \in Seq(Message) /\ MessagesKnown'
<1>1. 1 .. Len(assignments) \subseteq 1 .. Len(assignments')
  BY LongerAssignments
<1>2. relay_channel \in Seq(Message)
  BY DEF TypeOK
<1>3. CASE relay_channel' = relay_channel
  BY <1>1, <1>2, <1>3 DEF MessagesKnown
<1>4. CASE relay_channel' = Append(relay_channel, m)
  <2>1. /\ relay_channel' \in Seq(Message)
        /\ \A i \in DOMAIN relay_channel' :
              \/ relay_channel'[i] = m
              \/ i \in DOMAIN relay_channel /\ relay_channel'[i] = relay_channel[i]
    BY <1>2, <1>4, Appended
  <2>2. ASSUME NEW i \in DOMAIN relay_channel'
        PROVE  /\ relay_channel'[i].kind = "ASSIGN"
                     => relay_channel'[i].assign \in 1 .. Len(assignments')
               /\ relay_channel'[i].kind = "RESULT"
                     => relay_channel'[i].result.assign \in 1 .. Len(assignments')
    <3>1. CASE relay_channel'[i] = m
      BY <3>1
    <3>2. CASE i \in DOMAIN relay_channel /\ relay_channel'[i] = relay_channel[i]
      BY <1>1, <3>2 DEF MessagesKnown
    <3> QED BY <2>1, <3>1, <3>2
  <2> QED BY <2>1, <2>2 DEF MessagesKnown
<1> QED BY <1>3, <1>4

\* Assigner, workers and the client library change nothing that the tasks hold.
LEMMA OutsideInv ==
  ASSUME IInv,
         \/ \E j \in Jobs, w \in Workers : Assign(j, w)
         \/ \E r \in Result : Answer(r)
         \/ ClientEnds
  PROVE  IInv'
<1>0. TypeOK /\ MessagesKnown /\ AllApproved /\ EveryResultCounted /\ CountedOnce
  BY DEF IInv
<1>1. UNCHANGED <<listener, sending, aggr_channel, aggregator, current, redis, classified,
                  finished, metrics, main, results, faults>>
  BY DEF Assign, Answer, ClientEnds, stored
<1>2. faults \in Nat
  BY <1>0, AggregatorAssumption DEF TypeOK
<1>3. ASSUME Longer
      PROVE  /\ AllApproved' /\ Between' /\ FinishedByAnAssignee' /\ Keyed' /\ ClassifiedFirst'
             /\ EveryResultCounted' /\ GapsCounted' /\ CountedOnce'
  <2>1. Between' /\ FinishedByAnAssignee' /\ Keyed' /\ ClassifiedFirst' /\ GapsCounted'
    BY <1>1, <1>2, <1>3, StoredSame
  <2>2. AllApproved'
    BY <1>0, <1>1, <1>3, ApprovedStill DEF AllApproved
  <2>3. EveryResultCounted' /\ CountedOnce'
    BY <1>0, <1>1 DEF EveryResultCounted, CountedOnce, Counted, One
  <2> QED BY <2>1, <2>2, <2>3
<1>4. ASSUME NEW j \in Jobs, NEW w \in Workers, Assign(j, w)
      PROVE  IInv'
  <2> DEFINE a == [job |-> j, worker |-> w]
  <2>1. a \in Assignment /\ assignments' = Append(assignments, a) /\ Len(assignments) < MaxAssigns
    BY <1>4 DEF Assign, Assignment
  <2>2. Deliver(Assigned(Len(assignments'))) /\ UNCHANGED <<answers, clientEnded>>
    BY <1>4 DEF Assign
  <2> HIDE DEF a
  <2>3. Longer
    BY <2>1 DEF Longer
  <2>4. assignments \in Seq(Assignment)
    BY <1>0 DEF TypeOK
  <2>5. /\ assignments' \in Seq(Assignment) /\ Len(assignments) \in Nat
        /\ Len(assignments') = Len(assignments) + 1
    BY <2>1, <2>4, Appended
  <2>6. Len(assignments') \in 1 .. MaxAssigns /\ Len(assignments') <= MaxAssigns
    BY <2>1, <2>5, AggregatorAssumption
  <2>7. /\ Assigned(Len(assignments')) \in Message
        /\ Assigned(Len(assignments')).kind = "ASSIGN"
        /\ Assigned(Len(assignments')).assign \in 1 .. Len(assignments')
    BY <2>6, AssignedIn
  <2>8. \/ relay_channel' = Append(relay_channel, Assigned(Len(assignments')))
        \/ relay_channel' = relay_channel
    BY <2>2 DEF Deliver
  <2>9. relay_channel' \in Seq(Message) /\ MessagesKnown'
    BY <1>0, <2>3, <2>7, <2>8, HeardLater
  <2>10. redis \in SUBSET (1 .. Len(assignments'))
    BY <1>0, <2>5 DEF TypeOK
  <2>11. TypeOK'
    BY <1>0, <1>1, <2>2, <2>5, <2>6, <2>9, <2>10 DEF TypeOK
  <2> QED BY <1>3, <2>3, <2>9, <2>11 DEF IInv
<1>5. ASSUME UNCHANGED assignments
      PROVE  Longer
  BY <1>5 DEF Longer
<1>6. ASSUME NEW r \in Result, Answer(r)
      PROVE  IInv'
  <2> DEFINE m == [kind |-> "RESULT", result |-> r]
  <2>1. /\ answers < MaxResults /\ answers' = answers + 1
        /\ r.assign <= Len(assignments)
        /\ UNCHANGED <<assignments, clientEnded>>
    BY <1>6 DEF Answer
  <2>2. relay_channel' = Append(relay_channel, m) \/ relay_channel' = relay_channel
    BY <1>6 DEF Answer, Deliver
  <2>3. m \in Message /\ m.kind = "RESULT" /\ m.result = r
    BY DEF Message
  <2> HIDE DEF m
  <2>4. r.assign \in 1 .. Len(assignments')
    BY <2>1, ResultNotNone
  <2>5. relay_channel' \in Seq(Message) /\ MessagesKnown'
    BY <1>0, <1>5, <2>1, <2>2, <2>3, <2>4, HeardLater
  <2>6. answers' \in 0 .. MaxResults
    BY <1>0, <2>1, AggregatorAssumption DEF TypeOK
  <2>7. TypeOK'
    BY <1>0, <1>1, <2>1, <2>5, <2>6 DEF TypeOK
  <2> QED BY <1>3, <1>5, <2>1, <2>5, <2>7 DEF IInv
<1>7. CASE ClientEnds
  <2> DEFINE m == [kind |-> "Disconnected"]
  <2>1. /\ clientEnded' = TRUE /\ UNCHANGED <<assignments, answers>>
        /\ relay_channel' = Append(relay_channel, m)
    BY <1>7 DEF ClientEnds
  <2>2. m \in Message /\ m.kind = "Disconnected"
    BY DEF Message
  <2> HIDE DEF m
  <2>3. relay_channel' \in Seq(Message) /\ MessagesKnown'
    BY <1>0, <1>5, <2>1, <2>2, HeardLater
  <2>4. TypeOK'
    BY <1>0, <1>1, <2>1, <2>3 DEF TypeOK
  <2> QED BY <1>3, <1>5, <2>1, <2>3, <2>4 DEF IInv
<1> QED BY <1>4, <1>6, <1>7

\* What any step of the listener does: it takes the first message.
LEMMA HearSteps ==
  ASSUME IInv, NEW kind, Hear(kind)
  PROVE  /\ UNCHANGED <<assignments, answers, clientEnded, aggr_channel, aggregator, current,
                        classified, finished, main>>
         /\ sending = None /\ relay_channel # <<>>
         /\ Head(relay_channel) \in Message /\ Head(relay_channel).kind = kind
         /\ kind = "ASSIGN" => Head(relay_channel).assign \in 1 .. Len(assignments)
         /\ kind = "RESULT" => /\ Head(relay_channel).result \in Result
                               /\ Head(relay_channel).result.assign \in 1 .. Len(assignments)
         /\ relay_channel' \in Seq(Message) /\ MessagesKnown'
<1>0. TypeOK /\ MessagesKnown
  BY DEF IInv
<1>1. /\ UNCHANGED <<assignments, answers, clientEnded, aggr_channel, aggregator, current,
                     classified, finished, main>>
      /\ sending = None /\ relay_channel # <<>>
      /\ Head(relay_channel).kind = kind /\ relay_channel' = Tail(relay_channel)
  BY DEF Hear, outside
<1>2. relay_channel \in Seq(Message)
  BY <1>0 DEF TypeOK
<1>3. /\ Head(relay_channel) \in Message /\ Head(relay_channel) = relay_channel[1]
      /\ 1 \in DOMAIN relay_channel /\ Tail(relay_channel) \in Seq(Message)
      /\ \A i \in DOMAIN Tail(relay_channel) : \E k \in DOMAIN relay_channel :
            Tail(relay_channel)[i] = relay_channel[k]
  BY <1>1, <1>2, HeadAndTail
<1>4. MessagesKnown'
  <2> SUFFICES ASSUME NEW i \in DOMAIN relay_channel'
               PROVE  /\ relay_channel'[i].kind = "ASSIGN"
                            => relay_channel'[i].assign \in 1 .. Len(assignments)
                      /\ relay_channel'[i].kind = "RESULT"
                            => relay_channel'[i].result.assign \in 1 .. Len(assignments)
    BY <1>1 DEF MessagesKnown
  <2>1. PICK k \in DOMAIN relay_channel : relay_channel'[i] = relay_channel[k]
    BY <1>1, <1>3
  <2> QED BY <1>0, <2>1 DEF MessagesKnown
<1>5. /\ kind = "ASSIGN" => Head(relay_channel).assign \in 1 .. Len(assignments)
      /\ kind = "RESULT" => Head(relay_channel).result.assign \in 1 .. Len(assignments)
  BY <1>0, <1>1, <1>3 DEF MessagesKnown
<1>6. kind = "RESULT" => Head(relay_channel).result \in Result
  BY <1>1, <1>3, MessageKinds
<1> QED BY <1>1, <1>3, <1>4, <1>5, <1>6

LEMMA FaultTypes ==
  ASSUME faults \in 0 .. MaxFaults, Fault \/ NoFault
  PROVE  faults' \in 0 .. MaxFaults /\ faults' \in Nat /\ faults <= faults'
BY AggregatorAssumption DEF Fault, NoFault

LEMMA HearAssignInv ==
  ASSUME IInv, HearAssign
  PROVE  IInv'
<1>0. TypeOK /\ AllApproved /\ EveryResultCounted /\ CountedOnce
  BY DEF IInv
<1>1. /\ UNCHANGED <<assignments, answers, clientEnded, aggr_channel, aggregator, current,
                     classified, finished, main>>
      /\ Head(relay_channel).assign \in 1 .. Len(assignments)
      /\ relay_channel' \in Seq(Message) /\ MessagesKnown'
  BY HearSteps DEF HearAssign
<1>2. UNCHANGED <<listener, sending, metrics, results>>
  BY DEF HearAssign
<1>3. /\ redis' \in {redis, redis \cup {Head(relay_channel).assign}}
      /\ Fault \/ NoFault
  BY DEF HearAssign
<1>4. redis \subseteq redis' /\ redis' \in SUBSET (1 .. Len(assignments))
  BY <1>0, <1>1, <1>3 DEF TypeOK
<1>5. faults' \in 0 .. MaxFaults /\ faults' \in Nat /\ faults <= faults'
  BY <1>0, <1>3, FaultTypes DEF TypeOK
<1>6. Longer
  BY <1>1 DEF Longer
<1>7. TypeOK'
  BY <1>0, <1>1, <1>2, <1>4, <1>5 DEF TypeOK
<1>8. AllApproved'
  BY <1>0, <1>1, <1>2, <1>4, <1>6, ApprovedStill DEF AllApproved
<1>9. Between' /\ FinishedByAnAssignee' /\ Keyed' /\ ClassifiedFirst' /\ GapsCounted'
  BY <1>1, <1>4, <1>5, <1>6, StoredSame
<1>10. EveryResultCounted' /\ CountedOnce'
  BY <1>0, <1>1, <1>2 DEF EveryResultCounted, CountedOnce, Counted, One
<1> QED BY <1>1, <1>7, <1>8, <1>9, <1>10 DEF IInv

LEMMA HearResultInv ==
  ASSUME IInv, HearResult
  PROVE  IInv'
<1>0. TypeOK /\ AllApproved /\ EveryResultCounted /\ CountedOnce
  BY DEF IInv
<1> DEFINE r == Head(relay_channel).result
<1>1. /\ UNCHANGED <<assignments, answers, clientEnded, aggr_channel, aggregator, current,
                     classified, finished, main>>
      /\ sending = None
      /\ r \in Result /\ r.assign \in 1 .. Len(assignments)
      /\ relay_channel' \in Seq(Message) /\ MessagesKnown'
  BY HearSteps DEF HearResult
<1>2. UNCHANGED <<listener, redis>> /\ results' = results + 1
  BY DEF HearResult
<1>3. /\ \/ /\ sending' = sending
            /\ Count("RESULT_ERRORS") \/ Count("UNCLASSIFIED_ERRORS") \/ Count("FAILED_JOBS")
         \/ /\ sending' = r /\ UNCHANGED metrics
            /\ r.assign \in redis /\ Valid(r)
      /\ Fault \/ NoFault
  BY DEF HearResult, Reject, Lookup
<1> HIDE DEF r
<1>4. faults' \in 0 .. MaxFaults /\ faults' \in Nat /\ faults <= faults'
  BY <1>0, <1>3, FaultTypes DEF TypeOK
<1>5. Longer
  BY <1>1 DEF Longer
<1>6. Between' /\ FinishedByAnAssignee' /\ Keyed' /\ ClassifiedFirst' /\ GapsCounted'
  BY <1>1, <1>2, <1>4, <1>5, StoredSame
<1>7. metrics \in [Counters -> Nat] /\ results \in Nat /\ results' \in Nat
  BY <1>0, <1>2 DEF TypeOK
<1>8. aggr_channel \in Seq(Result) /\ Len(aggr_channel) \in Nat /\ One(current) \in Nat
  BY <1>0, LenProperties DEF TypeOK, One
<1>9. CASE /\ sending' = sending
           /\ Count("RESULT_ERRORS") \/ Count("UNCLASSIFIED_ERRORS") \/ Count("FAILED_JOBS")
  <2>1. PICK c \in Counters : Count(c) /\ c # "FINISHED_JOBS"
    BY <1>9 DEF Counters
  <2>2. /\ metrics' \in [Counters -> Nat] /\ Counted \in Nat /\ Counted' = Counted + 1
        /\ metrics'["FINISHED_JOBS"] = metrics["FINISHED_JOBS"]
    BY <1>7, <2>1, CountStep
  <2>3. TypeOK'
    BY <1>0, <1>1, <1>2, <1>4, <1>7, <1>9, <2>2 DEF TypeOK
  <2>4. AllApproved'
    BY <1>0, <1>1, <1>2, <1>9 DEF AllApproved, Approved, AssigneeOf
  <2>5. EveryResultCounted'
    <3>1. /\ One(sending') = 0 /\ One(sending) = 0 /\ One(current') = One(current)
          /\ aggr_channel' = aggr_channel
      BY <1>1, <1>9 DEF One
    <3>2. results = Counted + Len(aggr_channel) + One(current)
      BY <1>0, <1>8, <2>2, <3>1 DEF EveryResultCounted
    <3>3. results' = Counted' + 0 + Len(aggr_channel) + One(current)
      BY <1>2, <1>8, <2>2, <3>2
    <3> QED BY <3>1, <3>3 DEF EveryResultCounted
  <2>6. CountedOnce'
    BY <1>0, <1>1, <2>2 DEF CountedOnce
  <2> QED BY <1>1, <1>6, <2>3, <2>4, <2>5, <2>6 DEF IInv
<1>10. CASE sending' = r /\ UNCHANGED metrics /\ r.assign \in redis /\ Valid(r)
  <2>1. TypeOK'
    BY <1>0, <1>1, <1>2, <1>4, <1>7, <1>10 DEF TypeOK
  <2>2. AllApproved'
    BY <1>0, <1>1, <1>2, <1>10 DEF AllApproved, Approved, AssigneeOf, Valid
  <2>3. EveryResultCounted'
    <3>1. /\ One(sending') = 1 /\ One(sending) = 0 /\ One(current') = One(current)
          /\ aggr_channel' = aggr_channel /\ Counted' = Counted
      BY <1>1, <1>10, ResultNotNone DEF One, Counted
    <3>2. results = Counted + 0 + Len(aggr_channel) + One(current)
      BY <1>0, <3>1 DEF EveryResultCounted
    <3>3. Counted \in Nat
      BY <1>7 DEF Counted, Counters
    <3>4. results' = Counted + 1 + Len(aggr_channel) + One(current)
      BY <1>2, <1>8, <3>2, <3>3
    <3> QED BY <3>1, <3>4 DEF EveryResultCounted
  <2>4. CountedOnce'
    BY <1>0, <1>1, <1>10 DEF CountedOnce
  <2> QED BY <1>1, <1>6, <2>1, <2>2, <2>3, <2>4 DEF IInv
<1> QED BY <1>3, <1>9, <1>10

LEMMA HearDisconnectedInv ==
  ASSUME IInv, HearDisconnected
  PROVE  IInv'
<1>0. TypeOK /\ AllApproved /\ EveryResultCounted /\ CountedOnce
  BY DEF IInv
<1>1. /\ UNCHANGED <<assignments, answers, clientEnded, aggr_channel, aggregator, current,
                     classified, finished, main>>
      /\ relay_channel' \in Seq(Message) /\ MessagesKnown'
  BY HearSteps DEF HearDisconnected
<1>2. listener' = "ended" /\ UNCHANGED <<sending, redis, metrics, results, faults>>
  BY DEF HearDisconnected
<1>3. faults \in Nat
  BY <1>0, AggregatorAssumption DEF TypeOK
<1>4. Longer
  BY <1>1 DEF Longer
<1>5. Between' /\ FinishedByAnAssignee' /\ Keyed' /\ ClassifiedFirst' /\ GapsCounted'
  BY <1>1, <1>2, <1>3, <1>4, StoredSame
<1>6. TypeOK'
  BY <1>0, <1>1, <1>2 DEF TypeOK
<1>7. AllApproved' /\ EveryResultCounted' /\ CountedOnce'
  BY <1>0, <1>1, <1>2
     DEF AllApproved, Approved, AssigneeOf, EveryResultCounted, CountedOnce, Counted, One
<1> QED BY <1>1, <1>5, <1>6, <1>7 DEF IInv

LEMMA SendInv ==
  ASSUME IInv, Send
  PROVE  IInv'
<1>0. TypeOK /\ MessagesKnown /\ AllApproved /\ EveryResultCounted /\ CountedOnce
  BY DEF IInv
<1>1. /\ sending # None /\ sending' = None /\ Len(aggr_channel) < QUEUE
      /\ aggr_channel' = Append(aggr_channel, sending)
      /\ UNCHANGED <<assignments, answers, clientEnded, relay_channel, listener, aggregator,
                     current, redis, classified, finished, metrics, main, results, faults>>
  BY DEF Send, outside, stored
<1>2. sending \in Result /\ aggr_channel \in Seq(Result)
  BY <1>0, <1>1 DEF TypeOK
<1>3. /\ aggr_channel' \in Seq(Result) /\ Len(aggr_channel) \in Nat
      /\ Len(aggr_channel') = Len(aggr_channel) + 1
      /\ \A i \in DOMAIN aggr_channel' :
            \/ aggr_channel'[i] = sending
            \/ i \in DOMAIN aggr_channel /\ aggr_channel'[i] = aggr_channel[i]
  BY <1>1, <1>2, Appended
<1>4. Len(aggr_channel') <= QUEUE
  BY <1>1, <1>3, AggregatorAssumption
<1>5. faults \in Nat /\ Longer
  BY <1>0, <1>1, AggregatorAssumption DEF TypeOK, Longer
<1>6. Between' /\ FinishedByAnAssignee' /\ Keyed' /\ ClassifiedFirst' /\ GapsCounted'
  BY <1>1, <1>5, StoredSame
<1>7. TypeOK'
  BY <1>0, <1>1, <1>3, <1>4 DEF TypeOK
<1>8. MessagesKnown' /\ CountedOnce'
  BY <1>0, <1>1 DEF MessagesKnown, CountedOnce
<1>9. AllApproved'
  <2>1. \A i \in DOMAIN aggr_channel' : Approved(aggr_channel'[i])
    BY <1>0, <1>1, <1>3 DEF AllApproved
  <2> QED BY <1>0, <1>1, <2>1 DEF AllApproved, Approved, AssigneeOf
<1>10. EveryResultCounted'
  <2>1. One(sending) = 1 /\ One(sending') = 0 /\ One(current') = One(current)
        /\ Counted' = Counted /\ results' = results
    BY <1>1 DEF One, Counted
  <2>2. Counted \in Nat /\ One(current) \in Nat
    BY <1>0 DEF TypeOK, Counted, Counters, One
  <2>3. results = Counted + 1 + Len(aggr_channel) + One(current)
    BY <1>0, <2>1 DEF EveryResultCounted
  <2>4. results = Counted + 0 + Len(aggr_channel') + One(current)
    BY <1>3, <2>2, <2>3
  <2> QED BY <2>1, <2>4 DEF EveryResultCounted
<1> QED BY <1>6, <1>7, <1>8, <1>9, <1>10 DEF IInv

-----------------------------------------------------------------------------
(* Steps of the aggregator task.                                           *)

LEMMA GapsFinite ==
  ASSUME TypeOK
  PROVE  /\ IsFiniteSet(Gaps) /\ Cardinality(Gaps) \in Nat
         /\ faults \in Nat
<1>1. Gaps \in SUBSET Jobs
  BY DEF Gaps, TypeOK
<1> QED BY <1>1, FS_Subset, FS_CardinalityType, AggregatorAssumption DEF TypeOK

\* A gap more for a fault more.
LEMMA OneMoreGap ==
  ASSUME TypeOK, GapsCounted, NEW j,
         \/ Gaps' \subseteq Gaps /\ faults' \in {faults, faults + 1}
         \/ Gaps' \subseteq Gaps \cup {j} /\ faults' = faults + 1
  PROVE  GapsCounted'
<1>1. IsFiniteSet(Gaps) /\ Cardinality(Gaps) \in Nat /\ faults \in Nat
  BY GapsFinite
<1>2. Cardinality(Gaps) <= faults
  BY DEF GapsCounted
<1>3. CASE Gaps' \subseteq Gaps /\ faults' \in {faults, faults + 1}
  <2>1. Gaps' \in SUBSET Gaps
    BY <1>3
  <2>2. IsFiniteSet(Gaps') /\ Cardinality(Gaps') <= Cardinality(Gaps)
    BY <1>1, <2>1, FS_Subset
  <2>3. Cardinality(Gaps') \in Nat
    BY <2>2, FS_CardinalityType
  <2>4. Cardinality(Gaps') <= faults'
    BY <1>1, <1>2, <1>3, <2>2, <2>3
  <2> QED BY <2>4 DEF GapsCounted
<1>4. CASE Gaps' \subseteq Gaps \cup {j} /\ faults' = faults + 1
  <2>1. /\ IsFiniteSet(Gaps \cup {j})
        /\ Cardinality(Gaps \cup {j}) = IF j \in Gaps THEN Cardinality(Gaps) ELSE Cardinality(Gaps) + 1
    BY <1>1, FS_AddElement
  <2>2. Gaps' \in SUBSET (Gaps \cup {j})
    BY <1>4
  <2>3. IsFiniteSet(Gaps') /\ Cardinality(Gaps') <= Cardinality(Gaps \cup {j})
    BY <2>1, <2>2, FS_Subset
  <2>4. Cardinality(Gaps') \in Nat
    BY <2>3, FS_CardinalityType
  <2>5. Cardinality(Gaps') <= faults'
    BY <1>1, <1>2, <1>4, <2>1, <2>3, <2>4
  <2> QED BY <2>5 DEF GapsCounted
<1> QED BY <1>3, <1>4

LEMMA ReceiveSteps ==
  ASSUME IInv, aggr_channel # <<>>, Receive
  PROVE  /\ UNCHANGED <<assignments, answers, clientEnded, relay_channel, listener, sending,
                        redis, main, results>>
         /\ current = None
         /\ Head(aggr_channel) \in Result /\ Approved(Head(aggr_channel))
         /\ Head(aggr_channel).job \in Jobs
         /\ aggr_channel' \in Seq(Result) /\ Len(aggr_channel) \in Nat
         /\ Len(aggr_channel') = Len(aggr_channel) - 1 /\ Len(aggr_channel') <= QUEUE
         /\ \A i \in DOMAIN aggr_channel' : Approved(aggr_channel'[i])
<1>0. TypeOK /\ AllApproved
  BY DEF IInv
<1>1. /\ UNCHANGED <<assignments, answers, clientEnded, relay_channel, listener, sending,
                     redis, main, results>>
      /\ current = None /\ aggr_channel' = Tail(aggr_channel)
  BY DEF Receive, outside
<1>2. aggr_channel \in Seq(Result) /\ Len(aggr_channel) <= QUEUE
  BY <1>0 DEF TypeOK
<1>3. /\ Head(aggr_channel) \in Result /\ Head(aggr_channel) = aggr_channel[1]
      /\ 1 \in DOMAIN aggr_channel
      /\ Tail(aggr_channel) \in Seq(Result) /\ Len(aggr_channel) \in Nat
      /\ Len(Tail(aggr_channel)) = Len(aggr_channel) - 1
      /\ \A i \in DOMAIN Tail(aggr_channel) : \E k \in DOMAIN aggr_channel :
            Tail(aggr_channel)[i] = aggr_channel[k]
  BY <1>2, HeadAndTail
<1>4. Approved(Head(aggr_channel))
  BY <1>0, <1>3 DEF AllApproved
<1>5. Head(aggr_channel).job \in Jobs
  BY <1>3, ResultNotNone
<1>6. \A i \in DOMAIN aggr_channel' : Approved(aggr_channel'[i])
  BY <1>0, <1>1, <1>3 DEF AllApproved
<1>7. Len(aggr_channel') <= QUEUE
  BY <1>1, <1>2, <1>3, AggregatorAssumption
<1> QED BY <1>1, <1>3, <1>4, <1>5, <1>6, <1>7

\* A result that ends in a counter: one less in the channel, or the one under way.
LEMMA CountedStill ==
  ASSUME IInv, results' = results, sending' = sending,
         Counted \in Nat, Counted' = Counted + 1,
         \/ /\ current = None /\ current' = None
            /\ Len(aggr_channel) \in Nat /\ Len(aggr_channel') = Len(aggr_channel) - 1
         \/ current # None /\ current' = None /\ aggr_channel' = aggr_channel
  PROVE  EveryResultCounted'
<1>0. TypeOK /\ EveryResultCounted
  BY DEF IInv
<1>1. One(sending) \in Nat /\ One(sending') = One(sending) /\ Len(aggr_channel) \in Nat
  BY <1>0, LenProperties DEF One, TypeOK
<1>2. results = Counted + One(sending) + Len(aggr_channel) + One(current)
  BY <1>0 DEF EveryResultCounted
<1>3. One(current') = 0 /\ One(current) = IF current = None THEN 0 ELSE 1
  BY DEF One
<1>4. results = Counted' + One(sending) + Len(aggr_channel') + 0
  BY <1>1, <1>2, <1>3
<1> QED BY <1>1, <1>3, <1>4 DEF EveryResultCounted

LEMMA RefuseInv ==
  ASSUME IInv, aggr_channel # <<>>,
         Refuse(Head(aggr_channel)) \/ NoIdentifier(Head(aggr_channel))
  PROVE  IInv'
<1>0. TypeOK /\ MessagesKnown /\ AllApproved /\ CountedOnce
  BY DEF IInv
<1>1. /\ UNCHANGED <<assignments, answers, clientEnded, relay_channel, listener, sending,
                     redis, main, results>>
      /\ current = None
      /\ aggr_channel' \in Seq(Result) /\ Len(aggr_channel) \in Nat
      /\ Len(aggr_channel') = Len(aggr_channel) - 1 /\ Len(aggr_channel') <= QUEUE
      /\ \A i \in DOMAIN aggr_channel' : Approved(aggr_channel'[i])
  BY ReceiveSteps DEF Refuse, NoIdentifier
<1>2. UNCHANGED <<aggregator, current, classified, finished, faults>>
  BY DEF Refuse, NoIdentifier
<1>3. PICK c \in Counters : Count(c) /\ c # "FINISHED_JOBS"
  BY DEF Refuse, NoIdentifier, Counters
<1>4. /\ metrics' \in [Counters -> Nat] /\ Counted \in Nat /\ Counted' = Counted + 1
      /\ metrics'["FINISHED_JOBS"] = metrics["FINISHED_JOBS"]
  BY <1>0, <1>3, CountStep DEF TypeOK
<1>5. faults \in Nat /\ Longer
  BY <1>0, <1>1, AggregatorAssumption DEF TypeOK, Longer
<1>6. Between' /\ FinishedByAnAssignee' /\ Keyed' /\ ClassifiedFirst' /\ GapsCounted'
  BY <1>1, <1>2, <1>5, StoredSame
<1>7. TypeOK'
  BY <1>0, <1>1, <1>2, <1>4 DEF TypeOK
<1>8. MessagesKnown' /\ CountedOnce'
  BY <1>0, <1>1, <1>2, <1>4 DEF MessagesKnown, CountedOnce
<1>9. AllApproved'
  BY <1>0, <1>1, <1>2 DEF AllApproved, Approved, AssigneeOf
<1>10. EveryResultCounted'
  BY <1>1, <1>2, <1>4, CountedStill
<1> QED BY <1>6, <1>7, <1>8, <1>9, <1>10 DEF IInv

\* The write to finished_jobs, of a PoW result or as the second one of a classification.
LEMMA FinishStored ==
  ASSUME IInv, NEW r \in Result, Approved(r), NEW ok \in BOOLEAN, WriteFinished(r, ok),
         current = None \/ current = r, current' = None,
         r.type = "classification" => classified[r.job] = r,
         Count(IF ok THEN "FINISHED_JOBS" ELSE "FAILED_JOBS"),
         UNCHANGED <<assignments, redis, classified>>
  PROVE  /\ finished' \in [Jobs -> Result \cup {None}] /\ faults' \in 0 .. MaxFaults
         /\ metrics' \in [Counters -> Nat]
         /\ Counted \in Nat /\ Counted' = Counted + 1
         /\ Between' /\ FinishedByAnAssignee' /\ Keyed' /\ ClassifiedFirst' /\ GapsCounted' /\ CountedOnce'
<1>0. TypeOK /\ FinishedByAnAssignee /\ Keyed /\ ClassifiedFirst /\ GapsCounted /\ CountedOnce
  BY DEF IInv
<1> DEFINE job == r.job
           done == {j \in Jobs : finished[j] # None}
<1>1. job \in Jobs
  BY ResultNotNone
<1>2. /\ finished' \in [Jobs -> Result \cup {None}]
      /\ \A j \in Jobs : finished[j] # None => finished'[j] = finished[j]
      /\ \A j \in Jobs : finished'[j] = finished[j] \/ (j = job /\ finished'[j] = r)
      /\ ok => finished[job] = None /\ finished'[job] = r
      /\ faults' \in 0 .. MaxFaults /\ faults' \in {faults, faults + 1}
      /\ finished'[job] = None => faults' = faults + 1
  BY <1>0, ResultNotNone, WriteFinishedStep
<1>3. PICK c \in Counters :
         Count(c) /\ c = IF ok THEN "FINISHED_JOBS" ELSE "FAILED_JOBS"
  BY DEF Counters
<1>4. /\ metrics' \in [Counters -> Nat] /\ Counted \in Nat /\ Counted' = Counted + 1
      /\ metrics["FINISHED_JOBS"] \in Nat
      /\ metrics'["FINISHED_JOBS"] =
            IF ok THEN metrics["FINISHED_JOBS"] + 1 ELSE metrics["FINISHED_JOBS"]
  <2>1. /\ metrics' \in [Counters -> Nat] /\ Counted \in Nat /\ Counted' = Counted + 1
        /\ metrics["FINISHED_JOBS"] \in Nat
        /\ metrics'["FINISHED_JOBS"] = IF c = "FINISHED_JOBS" THEN metrics["FINISHED_JOBS"] + 1
                                       ELSE metrics["FINISHED_JOBS"]
    BY <1>0, <1>3, CountStep DEF TypeOK
  <2> QED BY <1>3, <2>1
<1>5. Between'
  BY DEF Between
<1>6. r.assign \in redis /\ r.sender = AssigneeOf(r)
  BY DEF Approved
<1>7. FinishedByAnAssignee'
  <2> SUFFICES ASSUME NEW j \in Jobs, finished'[j] # None
               PROVE  /\ finished'[j].assign \in redis
                      /\ AssigneeOf(finished'[j]) = finished'[j].sender
    BY DEF FinishedByAnAssignee, AssigneeOf
  <2>1. CASE finished'[j] = finished[j]
    BY <1>0, <2>1 DEF FinishedByAnAssignee
  <2>2. CASE j = job /\ finished'[j] = r
    BY <1>6, <2>2
  <2> QED BY <1>2, <2>1, <2>2
<1>8. Keyed' /\ ClassifiedFirst'
  <2>1. ASSUME NEW j \in Jobs, finished'[j] # None
        PROVE  /\ finished'[j].job = j
               /\ finished'[j].type = "classification" => classified[j] = finished'[j]
    <3>1. CASE finished'[j] = finished[j]
      BY <1>0, <2>1, <3>1 DEF Keyed, KeyedBy, ClassifiedFirst
    <3>2. CASE j = job /\ finished'[j] = r
      BY <3>2
    <3> QED BY <1>2, <3>1, <3>2
  <2> QED BY <1>0, <2>1 DEF Keyed, KeyedBy, ClassifiedFirst
<1>9. GapsCounted'
  <2>2. Gaps' \subseteq Gaps \cup {job}
    BY <1>2 DEF Gaps
  <2>3. finished'[job] # None => Gaps' \subseteq Gaps
    BY <1>2 DEF Gaps
  <2> HIDE DEF job
  <2> QED BY <1>0, <1>2, <2>2, <2>3, OneMoreGap
<1>10. CountedOnce'
  <2> DEFINE after == {j \in Jobs : finished'[j] # None}
  <2>1. IsFiniteSet(done) /\ Cardinality(done) \in Nat /\ IsFiniteSet(after)
        /\ Cardinality(after) \in Nat
    BY AggregatorAssumption, FS_Subset, FS_CardinalityType
  <2>2. metrics["FINISHED_JOBS"] <= Cardinality(done)
    BY <1>0 DEF CountedOnce
  <2>3. CASE ok
    <3>1. after = done \cup {job} /\ job \notin done
      BY <1>1, <1>2, <2>3, ResultNotNone
    <3>2. Cardinality(done \cup {job}) = Cardinality(done) + 1
      BY <2>1, <3>1, FS_AddElement
    <3>3. metrics'["FINISHED_JOBS"] <= Cardinality(after)
      BY <1>4, <2>1, <2>2, <2>3, <3>1, <3>2
    <3> QED BY <3>3 DEF CountedOnce
  <2>4. CASE ~ok
    <3>1. done \in SUBSET after
      BY <1>2
    <3>2. Cardinality(done) <= Cardinality(after)
      BY <2>1, <3>1, FS_Subset
    <3>3. metrics'["FINISHED_JOBS"] <= Cardinality(after)
      BY <1>4, <2>1, <2>2, <2>4, <3>2
    <3> QED BY <3>3 DEF CountedOnce
  <2> QED BY <2>3, <2>4
<1> QED BY <1>2, <1>4, <1>5, <1>7, <1>8, <1>9, <1>10

LEMMA FinishPowInv ==
  ASSUME IInv, aggr_channel # <<>>, FinishPow(Head(aggr_channel))
  PROVE  IInv'
<1>0. TypeOK /\ MessagesKnown /\ AllApproved
  BY DEF IInv
<1> DEFINE r == Head(aggr_channel)
<1>1. /\ UNCHANGED <<assignments, answers, clientEnded, relay_channel, listener, sending,
                     redis, main, results>>
      /\ current = None /\ r \in Result /\ Approved(r) /\ r.job \in Jobs
      /\ aggr_channel' \in Seq(Result) /\ Len(aggr_channel) \in Nat
      /\ Len(aggr_channel') = Len(aggr_channel) - 1 /\ Len(aggr_channel') <= QUEUE
      /\ \A i \in DOMAIN aggr_channel' : Approved(aggr_channel'[i])
  BY ReceiveSteps DEF FinishPow
<1>2. UNCHANGED <<aggregator, current, classified>> /\ r.type = "pow"
  BY DEF FinishPow
<1>3. PICK ok \in BOOLEAN :
         WriteFinished(r, ok) /\ Count(IF ok THEN "FINISHED_JOBS" ELSE "FAILED_JOBS")
  BY DEF FinishPow
<1> HIDE DEF r
<1>4. /\ finished' \in [Jobs -> Result \cup {None}] /\ faults' \in 0 .. MaxFaults
      /\ metrics' \in [Counters -> Nat]
      /\ Counted \in Nat /\ Counted' = Counted + 1
      /\ Between' /\ FinishedByAnAssignee' /\ Keyed' /\ ClassifiedFirst' /\ GapsCounted' /\ CountedOnce'
  BY <1>1, <1>2, <1>3, FinishStored
<1>5. TypeOK'
  BY <1>0, <1>1, <1>2, <1>4 DEF TypeOK
<1>6. MessagesKnown' /\ AllApproved'
  BY <1>0, <1>1, <1>2 DEF MessagesKnown, AllApproved, Approved, AssigneeOf
<1>7. EveryResultCounted'
  BY <1>1, <1>2, <1>4, CountedStill
<1> QED BY <1>4, <1>5, <1>6, <1>7 DEF IInv

LEMMA FinishClassificationInv ==
  ASSUME IInv, FinishClassification
  PROVE  IInv'
<1>0. TypeOK /\ MessagesKnown /\ AllApproved /\ Between
  BY DEF IInv
<1>1. /\ current # None /\ current' = None
      /\ UNCHANGED <<assignments, answers, clientEnded, relay_channel, listener, sending,
                     aggr_channel, aggregator, redis, classified, main, results>>
  BY DEF FinishClassification, outside
<1>2. PICK ok \in BOOLEAN :
         WriteFinished(current, ok) /\ Count(IF ok THEN "FINISHED_JOBS" ELSE "FAILED_JOBS")
  BY DEF FinishClassification
<1>3. current \in Result /\ Approved(current) /\ classified[current.job] = current
  BY <1>0, <1>1 DEF TypeOK, AllApproved, Between
<1>4. /\ finished' \in [Jobs -> Result \cup {None}] /\ faults' \in 0 .. MaxFaults
      /\ metrics' \in [Counters -> Nat]
      /\ Counted \in Nat /\ Counted' = Counted + 1
      /\ Between' /\ FinishedByAnAssignee' /\ Keyed' /\ ClassifiedFirst' /\ GapsCounted' /\ CountedOnce'
  BY <1>1, <1>2, <1>3, FinishStored
<1>5. TypeOK'
  BY <1>0, <1>1, <1>4 DEF TypeOK
<1>6. MessagesKnown' /\ AllApproved'
  BY <1>0, <1>1 DEF MessagesKnown, AllApproved, Approved, AssigneeOf
<1>7. EveryResultCounted'
  BY <1>1, <1>4, CountedStill
<1> QED BY <1>4, <1>5, <1>6, <1>7 DEF IInv

\* The first write of a classification: done and reported, or done and not reported, or
\* not done.
LEMMA ClassifyInv ==
  ASSUME IInv, aggr_channel # <<>>, Classify(Head(aggr_channel))
  PROVE  IInv'
<1>0. /\ TypeOK /\ MessagesKnown /\ AllApproved /\ FinishedByAnAssignee /\ Keyed
      /\ ClassifiedFirst /\ EveryResultCounted /\ GapsCounted /\ CountedOnce
  BY DEF IInv
<1> DEFINE r == Head(aggr_channel)
<1>1. /\ UNCHANGED <<assignments, answers, clientEnded, relay_channel, listener, sending,
                     redis, main, results>>
      /\ current = None /\ r \in Result /\ Approved(r) /\ r.job \in Jobs
      /\ aggr_channel' \in Seq(Result) /\ Len(aggr_channel) \in Nat
      /\ Len(aggr_channel') = Len(aggr_channel) - 1 /\ Len(aggr_channel') <= QUEUE
      /\ \A i \in DOMAIN aggr_channel' : Approved(aggr_channel'[i])
  BY ReceiveSteps DEF Classify
<1>2. UNCHANGED <<aggregator, finished>> /\ r.type = "classification"
  BY DEF Classify, Classification
<1>3. PICK ok \in BOOLEAN :
         /\ WriteClassified(r, ok)
         /\ IF ok THEN current' = r /\ UNCHANGED metrics
                  ELSE Count("FAILED_JOBS") /\ UNCHANGED current
  BY DEF Classify
<1> HIDE DEF r
<1>4. /\ classified' \in [Jobs -> Result \cup {None}]
      /\ \A j \in Jobs : classified[j] # None => classified'[j] = classified[j]
      /\ \A j \in Jobs : classified'[j] = classified[j] \/ (j = r.job /\ classified'[j] = r)
      /\ ok => classified'[r.job] = r
      /\ faults' \in 0 .. MaxFaults /\ faults' \in {faults, faults + 1}
      /\ ~ok /\ classified[r.job] = None => faults' = faults + 1
  BY <1>0, <1>1, <1>3, WriteClassifiedStep
<1>5. FinishedByAnAssignee' /\ Keyed' /\ ClassifiedFirst'
  <2>1. FinishedByAnAssignee'
    BY <1>0, <1>1, <1>2 DEF FinishedByAnAssignee, AssigneeOf
  <2>2. KeyedBy(finished)' /\ KeyedBy(classified)'
    BY <1>0, <1>2, <1>4 DEF Keyed, KeyedBy
  <2>3. ASSUME NEW j \in Jobs, finished[j] # None, finished[j].type = "classification"
        PROVE  classified'[j] = finished[j]
    BY <1>0, <1>4, <2>3 DEF ClassifiedFirst
  <2> QED BY <1>2, <2>1, <2>2, <2>3 DEF Keyed, ClassifiedFirst
<1>6. MessagesKnown'
  BY <1>0, <1>1 DEF MessagesKnown
<1>7. CASE ok
  <2>1. current' = r /\ metrics' = metrics
    BY <1>3, <1>7
  <2>2. TypeOK'
    BY <1>0, <1>1, <1>2, <1>4, <2>1 DEF TypeOK
  <2>3. AllApproved'
    BY <1>0, <1>1, <2>1 DEF AllApproved, Approved, AssigneeOf
  <2>4. Between'
    BY <1>1, <1>2, <1>4, <1>7, <2>1 DEF Between
  <2>5. EveryResultCounted'
    <3>1. One(current) = 0 /\ One(current') = 1 /\ One(sending') = One(sending)
          /\ Counted' = Counted /\ results' = results
      BY <1>1, <2>1, ResultNotNone DEF One, Counted
    <3>2. Counted \in Nat /\ One(sending) \in Nat
      BY <1>0 DEF TypeOK, Counted, Counters, One
    <3>3. results = Counted + One(sending) + Len(aggr_channel) + 0
      BY <1>0, <3>1 DEF EveryResultCounted
    <3>4. results = Counted + One(sending) + Len(aggr_channel') + 1
      BY <1>1, <3>2, <3>3
    <3> QED BY <3>1, <3>4 DEF EveryResultCounted
  <2>6. GapsCounted'
    <3>2. Gaps' \subseteq Gaps
      BY <1>1, <1>2, <1>4, <2>1, ResultNotNone DEF Gaps
    <3> QED BY <1>0, <1>4, <3>2, OneMoreGap
  <2>7. CountedOnce'
    BY <1>0, <1>2, <2>1 DEF CountedOnce
  <2> QED BY <1>2, <1>5, <1>6, <2>2, <2>3, <2>4, <2>5, <2>6, <2>7 DEF IInv
<1>8. CASE ~ok
  <2>1. current' = current /\ Count("FAILED_JOBS") /\ "FAILED_JOBS" \in Counters
    BY <1>3, <1>8 DEF Counters
  <2>2. /\ metrics' \in [Counters -> Nat] /\ Counted \in Nat /\ Counted' = Counted + 1
        /\ metrics'["FINISHED_JOBS"] = metrics["FINISHED_JOBS"]
    BY <1>0, <2>1, CountStep DEF TypeOK
  <2>3. TypeOK'
    BY <1>0, <1>1, <1>2, <1>4, <2>1, <2>2 DEF TypeOK
  <2>4. AllApproved' /\ Between'
    BY <1>0, <1>1, <2>1 DEF AllApproved, Approved, AssigneeOf, Between
  <2>5. EveryResultCounted'
    BY <1>1, <2>1, <2>2, CountedStill
  <2>6. GapsCounted'
    <3>1. Gaps' \subseteq Gaps \cup {r.job}
      BY <1>1, <1>2, <1>4, <2>1 DEF Gaps
    <3>2. classified[r.job] # None => Gaps' \subseteq Gaps
      BY <1>1, <1>2, <1>4, <2>1 DEF Gaps
    <3> QED BY <1>0, <1>4, <1>8, <3>1, <3>2, OneMoreGap
  <2>7. CountedOnce'
    BY <1>0, <1>2, <2>2 DEF CountedOnce
  <2> QED BY <1>2, <1>5, <1>6, <2>3, <2>4, <2>5, <2>6, <2>7 DEF IInv
<1> QED BY <1>7, <1>8

LEMMA EndInv ==
  ASSUME IInv, AggregatorEnds \/ Await
  PROVE  IInv'
<1>0. TypeOK /\ MessagesKnown /\ AllApproved /\ EveryResultCounted /\ CountedOnce
  BY DEF IInv
<1>1. /\ UNCHANGED <<assignments, answers, clientEnded, relay_channel, listener, sending,
                     aggr_channel, current, redis, classified, finished, metrics, results, faults>>
      /\ aggregator' \in {aggregator, "ended"}
      /\ main' \in {main, "aggregator", "metrics"}
  BY DEF AggregatorEnds, Await, outside, stored
<1>2. faults \in Nat /\ Longer
  BY <1>0, <1>1, AggregatorAssumption DEF TypeOK, Longer
<1>3. Between' /\ FinishedByAnAssignee' /\ Keyed' /\ ClassifiedFirst' /\ GapsCounted'
  BY <1>1, <1>2, StoredSame
<1>4. TypeOK'
  BY <1>0, <1>1 DEF TypeOK
<1>5. MessagesKnown' /\ AllApproved' /\ EveryResultCounted' /\ CountedOnce'
  BY <1>0, <1>1
     DEF MessagesKnown, AllApproved, Approved, AssigneeOf, EveryResultCounted, CountedOnce,
         Counted, One
<1> QED BY <1>3, <1>4, <1>5 DEF IInv

\* A crash between the two writes of a classification leaves a gap.
LEMMA CrashInv ==
  ASSUME IInv, Crash
  PROVE  IInv'
<1>0. /\ TypeOK /\ FinishedByAnAssignee /\ Keyed /\ ClassifiedFirst /\ GapsCounted
  BY DEF IInv
<1>1. /\ faults < MaxFaults /\ faults' = faults + 1
      /\ relay_channel' = <<>> /\ clientEnded' = FALSE
      /\ listener' = "listening" /\ sending' = None /\ aggr_channel' = <<>>
      /\ aggregator' = "serving" /\ current' = None
      /\ metrics' = NoCounts /\ main' = "listener" /\ results' = 0
      /\ UNCHANGED <<assignments, answers, redis, classified, finished>>
  BY DEF Crash, Fault, stored
<1>2. <<>> \in Seq(Message) /\ <<>> \in Seq(Result) /\ Len(<<>>) = 0
  BY EmptySeq
<1>3. metrics' \in [Counters -> Nat] /\ metrics'["FINISHED_JOBS"] = 0 /\ Counted' = 0
  BY <1>1 DEF NoCounts, Counters, Counted
<1>4. faults' \in 0 .. MaxFaults
  BY <1>0, <1>1, AggregatorAssumption DEF TypeOK
<1>5. Len(aggr_channel') <= QUEUE /\ results' \in Nat
  BY <1>1, <1>2, AggregatorAssumption
<1>6. TypeOK'
  BY <1>0, <1>1, <1>2, <1>3, <1>4, <1>5 DEF TypeOK
<1>7. MessagesKnown' /\ AllApproved' /\ Between'
  BY <1>1, <1>2 DEF MessagesKnown, AllApproved, Between
<1>8. FinishedByAnAssignee' /\ Keyed' /\ ClassifiedFirst'
  BY <1>0, <1>1 DEF FinishedByAnAssignee, Keyed, KeyedBy, ClassifiedFirst, AssigneeOf
<1>9. EveryResultCounted'
  <2>1. One(sending') = 0 /\ One(current') = 0 /\ Len(aggr_channel') = 0
    BY <1>1, <1>2 DEF One
  <2> QED BY <1>1, <1>3, <2>1 DEF EveryResultCounted
<1>10. GapsCounted'
  <2>1. Gaps' \subseteq Gaps \cup {current.job}
    BY <1>1 DEF Gaps
  <2> QED BY <1>0, <1>1, <2>1, OneMoreGap
<1>11. CountedOnce'
  <2>1. {j \in Jobs : finished'[j] # None} \in SUBSET Jobs
    OBVIOUS
  <2>2. Cardinality({j \in Jobs : finished'[j] # None}) \in Nat
    BY <2>1, AggregatorAssumption, FS_Subset, FS_CardinalityType
  <2> QED BY <1>3, <2>2 DEF CountedOnce
<1> QED BY <1>6, <1>7, <1>8, <1>9, <1>10, <1>11 DEF IInv

LEMMA UnchangedInv ==
  ASSUME IInv, UNCHANGED vars
  PROVE  IInv'
<1>1. UNCHANGED <<assignments, answers, clientEnded, relay_channel, listener, sending,
                  aggr_channel, aggregator, current, redis, classified, finished, metrics,
                  main, results, faults>>
  BY DEF vars
<1>2. TypeOK' /\ MessagesKnown' /\ AllApproved' /\ EveryResultCounted' /\ CountedOnce'
  BY <1>1 DEF IInv, TypeOK, MessagesKnown, AllApproved, Approved, AssigneeOf,
              EveryResultCounted, CountedOnce, Counted, One
<1>3. faults \in Nat /\ Longer
  BY <1>1, AggregatorAssumption DEF IInv, TypeOK, Longer
<1>4. Between' /\ FinishedByAnAssignee' /\ Keyed' /\ ClassifiedFirst' /\ GapsCounted'
  BY <1>1, <1>3, StoredSame
<1> QED BY <1>2, <1>4 DEF IInv

LEMMA NextInv ==
  ASSUME IInv, [Next]_vars
  PROVE  IInv'
<1>1. CASE Listen
  BY <1>1, HearAssignInv, HearResultInv, HearDisconnectedInv, SendInv DEF Listen
<1>2. CASE Aggregate
  BY <1>2, RefuseInv, FinishPowInv, ClassifyInv, FinishClassificationInv, EndInv
     DEF Aggregate, Serve
<1>3. CASE UNCHANGED vars \/ Await \/ Crash
  BY <1>3, UnchangedInv, EndInv, CrashInv
<1> QED BY <1>1, <1>2, <1>3, OutsideInv DEF Next

-----------------------------------------------------------------------------
(* The theorems.                                                           *)

\* Every variable of the aggregator keeps its type; the channel never overflows.
THEOREM AggregatorTypeCorrect == Spec => []TypeOK
<1>1. IInv => TypeOK
  BY DEF IInv
<1> QED BY <1>1, InitInv, NextInv, PTL DEF Spec

\* No RESULT event that was taken is lost or counted twice on its way.
THEOREM EveryResultCountedHolds == Spec => []EveryResultCounted
<1>1. IInv => EveryResultCounted
  BY DEF IInv
<1> QED BY <1>1, InitInv, NextInv, PTL DEF Spec

\* A finished classification is classified by the same RESULT event, whatever crashes and
\* fails.
THEOREM ClassifiedFirstHolds == Spec => []ClassifiedFirst
<1>1. IInv => ClassifiedFirst
  BY DEF IInv
<1> QED BY <1>1, InitInv, NextInv, PTL DEF Spec

\* Jobs are finished by the workers of the ASSIGN events that their results name.
THEOREM FinishedByAnAssigneeHolds == Spec => []FinishedByAnAssignee
<1>1. IInv => FinishedByAnAssignee
  BY DEF IInv
<1> QED BY <1>1, InitInv, NextInv, PTL DEF Spec

\* There are no more classifications without an end than faults, and the one under way.
THEOREM GapsNeedFaultsHolds == Spec => []GapsNeedFaults
<1>1. ASSUME IInv
      PROVE  GapsNeedFaults
  <2> DEFINE unfinished == {j \in Jobs : classified[j] # None /\ finished[j] = None}
  <2>0. TypeOK /\ GapsCounted
    BY <1>1 DEF IInv
  <2>1. /\ IsFiniteSet(Gaps) /\ Cardinality(Gaps) \in Nat /\ faults \in Nat
        /\ Cardinality(Gaps) <= faults
    BY <2>0, GapsFinite DEF GapsCounted
  <2>2. CASE current = None
    <3>1. unfinished = Gaps
      BY <2>2 DEF Gaps
    <3>2. Cardinality(unfinished) <= faults + One(current)
      BY <2>1, <2>2, <3>1 DEF One
    <3> QED BY <3>2 DEF GapsNeedFaults
  <2>3. CASE current # None
    <3>1. unfinished \in SUBSET (Gaps \cup {current.job})
      BY <2>3 DEF Gaps
    <3>2. /\ IsFiniteSet(Gaps \cup {current.job})
          /\ Cardinality(Gaps \cup {current.job}) =
                IF current.job \in Gaps THEN Cardinality(Gaps) ELSE Cardinality(Gaps) + 1
      BY <2>1, FS_AddElement
    <3>3. /\ IsFiniteSet(unfinished)
          /\ Cardinality(unfinished) <= Cardinality(Gaps \cup {current.job})
      BY <3>1, <3>2, FS_Subset
    <3>4. Cardinality(unfinished) \in Nat
      BY <3>3, FS_CardinalityType
    <3>5. One(current) = 1
      BY <2>3 DEF One
    <3>6. Cardinality(unfinished) <= faults + One(current)
      BY <2>1, <3>2, <3>3, <3>4, <3>5
    <3> QED BY <3>6 DEF GapsNeedFaults
  <2> QED BY <2>2, <2>3
<1> QED BY <1>1, InitInv, NextInv, PTL DEF Spec

\* No job is counted as finished twice.
THEOREM CountedOnceHolds == Spec => []CountedOnce
<1>1. IInv => CountedOnce
  BY DEF IInv
<1> QED BY <1>1, InitInv, NextInv, PTL DEF Spec

\* A task that has ended has left nothing behind: neither a result that waits for the
\* channel, nor one in it, nor one between its two writes.
Drained ==
    /\ listener = "ended" => sending = None
    /\ aggregator = "ended" => listener = "ended" /\ aggr_channel = <<>> /\ current = None

\* After the client's end every RESULT event that was taken is in a counter when the
\* tasks have ended (aggregator.rs: the channel is served to its end).
THEOREM EndedIsSettled == Spec => [](aggregator = "ended" => results = Counted)
<1>1. Init => Drained
  BY DEF Init, Drained
<1>2. ASSUME Drained, [Next]_vars
      PROVE  Drained'
  <2>1. CASE Listen
    <3>1. CASE HearAssign \/ HearResult \/ HearDisconnected
      <4>1. /\ listener = "listening" /\ sending = None
            /\ UNCHANGED <<aggr_channel, aggregator, current>>
        BY <3>1 DEF HearAssign, HearResult, HearDisconnected, Hear
      <4>2. aggregator # "ended"
        BY <1>2, <4>1 DEF Drained
      <4>3. listener' = "ended" => sending' = None
        BY <3>1, <4>1 DEF HearAssign, HearResult, HearDisconnected
      <4> QED BY <4>1, <4>2, <4>3 DEF Drained
    <3>2. CASE Send
      BY <1>2, <3>2 DEF Send, Drained, stored
    <3> QED BY <2>1, <3>1, <3>2 DEF Listen
  <2>2. CASE Aggregate
    <3>1. CASE AggregatorEnds
      BY <1>2, <3>1 DEF AggregatorEnds, Drained, outside
    <3>2. CASE FinishClassification
      BY <1>2, <3>2 DEF FinishClassification, Drained, outside
    <3>3. ASSUME Serve(Head(aggr_channel))
          PROVE  Drained'
      <4>1. Receive /\ UNCHANGED aggregator
        BY <3>3 DEF Serve, Refuse, FinishPow, Classify, NoIdentifier
      <4> QED BY <1>2, <4>1 DEF Receive, Drained, outside
    <3> QED BY <2>2, <3>1, <3>2, <3>3 DEF Aggregate
  <2>3. CASE Crash
    BY <2>3 DEF Crash, Drained
  <2>4. CASE \/ \E j \in Jobs, w \in Workers : Assign(j, w)
             \/ \E r \in Result : Answer(r)
             \/ ClientEnds \/ Await \/ UNCHANGED vars
    <3>1. UNCHANGED <<listener, sending, aggr_channel, aggregator, current>>
      BY <2>4 DEF Assign, Answer, ClientEnds, Await, vars, outside, stored
    <3> QED BY <1>2, <3>1 DEF Drained
  <2> QED BY <1>2, <2>1, <2>2, <2>3, <2>4 DEF Next
<1>3. ASSUME IInv, Drained, aggregator = "ended"
      PROVE  results = Counted
  <2>1. Len(aggr_channel) = 0 /\ One(sending) = 0 /\ One(current) = 0
    BY <1>3, EmptySeq DEF Drained, One
  <2>2. Counted \in Nat
    BY <1>3 DEF IInv, TypeOK, Counted, Counters
  <2>3. results = Counted + One(sending) + Len(aggr_channel) + One(current)
    BY <1>3 DEF IInv, EveryResultCounted
  <2> QED BY <2>1, <2>2, <2>3
<1> QED BY <1>1, <1>2, <1>3, InitInv, NextInv, PTL DEF Spec

-----------------------------------------------------------------------------
(* The job ledger.  Each write to a collection is a stroke in the ledger,  *)
(* a crash abandons what is begun, and all else leaves the ledger alone.   *)

Known == {assignments[i].worker : i \in redis}
Begun == {AsReport(r) : r \in {current} \ {None}}
Recorded == Stored(classified)
Done == Stored(finished)

LEMMA ReportInLedger ==
  ASSUME TypeOK, NEW r \in Result, Approved(r), r.type # "other"
  PROVE  /\ AsReport(r) \in Ledger!Report /\ AsReport(r).worker \in Known
         /\ AsReport(r).job = r.job /\ AsReport(r).type = r.type
<1>1. /\ AsReport(r).job = r.job /\ AsReport(r).type = r.type
      /\ AsReport(r).worker = assignments[r.assign].worker
  BY DEF AsReport, Approved, AssigneeOf
<1>2. AsReport(r).worker \in Known
  BY <1>1 DEF Known, Approved
<1>3. AsReport(r) \in Ledger!Report
  BY ResultNotNone DEF AsReport, Types, Ledger!Report
<1> QED BY <1>1, <1>2, <1>3

\* A job is free in the ledger as long as its key is.
LEMMA FreeIsUnstored ==
  ASSUME NEW collection, KeyedBy(collection), NEW job \in Jobs
  PROVE  Ledger!Free(Stored(collection), job) <=> collection[job] = None
<1>1. \A j \in Jobs : collection[j] # None => AsReport(collection[j]).job = j
  BY DEF KeyedBy, AsReport
<1>2. \A d \in Stored(collection) : \E j \in Jobs :
         collection[j] # None /\ d = AsReport(collection[j])
  BY DEF Stored
<1>3. collection[job] # None => AsReport(collection[job]) \in Stored(collection)
  BY DEF Stored
<1> QED BY <1>1, <1>2, <1>3 DEF Ledger!Free

\* One document more is one report more.
LEMMA StoredMore ==
  ASSUME NEW before, NEW after, NEW r, r # None, r.job \in Jobs, before[r.job] = None,
         after[r.job] = r, \A j \in Jobs : j # r.job => after[j] = before[j]
  PROVE  Stored(after) = Stored(before) \cup {AsReport(r)}
<1>1. \A d : d \in Stored(before) <=> \E j \in Jobs :
                before[j] # None /\ d = AsReport(before[j])
  BY DEF Stored
<1>2. \A d : d \in Stored(after) <=> \E j \in Jobs :
                after[j] # None /\ d = AsReport(after[j])
  BY DEF Stored
<1>3. \A d : d \in Stored(before) => d \in Stored(after)
  BY <1>1, <1>2
<1>4. \A d : d \in Stored(after) => d \in Stored(before) \/ d = AsReport(r)
  BY <1>1, <1>2
<1>5. AsReport(r) \in Stored(after)
  BY <1>2
<1> QED BY <1>3, <1>4, <1>5

LEMMA StoredSameReports ==
  ASSUME NEW before, NEW after, \A j \in Jobs : after[j] = before[j]
  PROVE  Stored(after) = Stored(before)
BY DEF Stored

\* Assignments that are published later change nothing in the ledger.
LEMMA LedgerStill ==
  ASSUME IInv, Longer
  PROVE  /\ UNCHANGED redis => UNCHANGED Known
         /\ UNCHANGED current => UNCHANGED Begun
         /\ UNCHANGED classified => UNCHANGED Recorded
         /\ UNCHANGED finished => UNCHANGED Done
<1>1. TypeOK /\ redis \subseteq 1 .. Len(assignments)
  BY DEF IInv, TypeOK
<1>2. \A i \in redis : assignments'[i] = assignments[i]
  BY <1>1, LongerAssignments
<1>3. UNCHANGED redis => UNCHANGED Known
  BY <1>2 DEF Known
<1>4. UNCHANGED current => UNCHANGED Begun
  BY DEF Begun, AsReport
<1>5. UNCHANGED classified => UNCHANGED Recorded
  BY DEF Recorded, Stored, AsReport
<1>6. UNCHANGED finished => UNCHANGED Done
  BY DEF Done, Stored, AsReport
<1> QED BY <1>3, <1>4, <1>5, <1>6

LEMMA LedgerStutters ==
  ASSUME IInv, Longer, UNCHANGED <<redis, current, classified, finished, faults>>
  PROVE  UNCHANGED Ledger!lvars
<1>1. UNCHANGED <<Known, Begun, Recorded, Done, faults>>
  BY LedgerStill
<1> QED BY <1>1 DEF Ledger!lvars, Known, Begun, Recorded, Done

\* A write to finished_jobs is a stroke for a free job, or none at all.
LEMMA FinishedInLedger ==
  ASSUME IInv, NEW r \in Result, NEW ok \in BOOLEAN, WriteFinished(r, ok)
  PROVE  /\ \/ Ledger!Free(Done, r.job) /\ Done' = Done \cup {AsReport(r)}
            \/ Done' = Done /\ ~Ledger!Free(Done, r.job) /\ faults' = faults
            \/ Done' = Done /\ faults' = faults + 1
         /\ faults' \in {faults, faults + 1}
<1>1. TypeOK /\ r # None /\ r.job \in Jobs
  BY ResultNotNone DEF IInv
<1>2. Ledger!Free(Done, r.job) <=> finished[r.job] = None
  BY <1>1, FreeIsUnstored DEF IInv, Keyed, Done
<1>3. /\ \A j \in Jobs : \/ finished'[j] = finished[j]
                         \/ j = r.job /\ finished[j] = None /\ finished'[j] = r
      /\ ok => finished[r.job] = None /\ finished'[r.job] = r
      /\ faults' \in {faults, faults + 1}
      /\ ok \/ finished[r.job] # None => faults' = faults
      /\ ~ok /\ finished[r.job] = None => faults' = faults + 1
  BY <1>1, WriteFinishedStep
<1>4. CASE \A j \in Jobs : finished'[j] = finished[j]
  <2>1. Done' = Done
    BY <1>4, StoredSameReports DEF Done
  <2>2. ~ok
    BY <1>1, <1>3, <1>4
  <2> QED BY <1>2, <1>3, <2>1, <2>2
<1>5. CASE finished[r.job] = None /\ finished'[r.job] = r
  <2>1. Done' = Done \cup {AsReport(r)}
    BY <1>1, <1>3, <1>5, StoredMore DEF Done
  <2> QED BY <1>2, <1>3, <1>5, <2>1
<1> QED BY <1>3, <1>4, <1>5

\* A write to classifier_results likewise.
LEMMA RecordedInLedger ==
  ASSUME IInv, NEW r \in Result, NEW ok \in BOOLEAN, WriteClassified(r, ok)
  PROVE  \/ /\ Ledger!Free(Recorded, r.job) /\ Recorded' = Recorded \cup {AsReport(r)}
            /\ faults' = IF ok THEN faults ELSE faults + 1
         \/ Recorded' = Recorded /\ ~ok /\ faults' \in {faults, faults + 1}
<1>1. TypeOK /\ r # None /\ r.job \in Jobs
  BY ResultNotNone DEF IInv
<1>2. Ledger!Free(Recorded, r.job) <=> classified[r.job] = None
  BY <1>1, FreeIsUnstored DEF IInv, Keyed, Recorded
<1>3. /\ \A j \in Jobs : \/ classified'[j] = classified[j]
                         \/ j = r.job /\ classified[j] = None /\ classified'[j] = r
      /\ ok => classified[r.job] = None /\ classified'[r.job] = r
      /\ faults' \in {faults, faults + 1}
      /\ ok => faults' = faults
      /\ ~ok /\ classified[r.job] = None => faults' = faults + 1
  BY <1>1, WriteClassifiedStep
<1>4. CASE \A j \in Jobs : classified'[j] = classified[j]
  <2>1. Recorded' = Recorded
    BY <1>4, StoredSameReports DEF Recorded
  <2>2. ~ok
    BY <1>1, <1>3, <1>4
  <2> QED BY <1>3, <2>1, <2>2
<1>5. CASE classified[r.job] = None /\ classified'[r.job] = r
  <2>1. Recorded' = Recorded \cup {AsReport(r)}
    BY <1>1, <1>3, <1>5, StoredMore DEF Recorded
  <2> QED BY <1>2, <1>3, <1>5, <2>1
<1> QED BY <1>3, <1>4, <1>5

LEMMA InitLedger == Init => Ledger!LedgerInit
<1> SUFFICES ASSUME Init PROVE Ledger!LedgerInit
  OBVIOUS
<1>1. Known = {} /\ Begun = {} /\ Recorded = {} /\ Done = {}
  BY DEF Init, Known, Begun, Recorded, Done, Stored
<1>2. faults = 0
  BY DEF Init
<1> QED BY <1>1, <1>2 DEF Ledger!LedgerInit, Known, Begun, Recorded, Done

LEMMA HearAssignInLedger ==
  ASSUME IInv, HearAssign
  PROVE  Ledger!Learn \/ Ledger!GoesWrong \/ UNCHANGED Ledger!lvars
<1> DEFINE i == Head(relay_channel).assign
<1>0. TypeOK
  BY DEF IInv
<1>1. UNCHANGED <<assignments, current, classified, finished>> /\ i \in 1 .. Len(assignments)
  BY HearSteps DEF HearAssign
<1>2. /\ redis' = redis \/ redis' = redis \cup {i}
      /\ faults' = faults \/ faults' = faults + 1
  BY DEF HearAssign, Fault, NoFault
<1>3. UNCHANGED <<Begun, Recorded, Done>> /\ (UNCHANGED redis => UNCHANGED Known)
  BY <1>1, LedgerStill DEF Longer
<1>4. assignments[i].worker \in Workers
  <2>1. assignments[i] \in Assignment
    BY <1>0, <1>1, ElementOfSeq DEF TypeOK
  <2> QED BY <2>1 DEF Assignment
<1>5. CASE redis' = redis \cup {i}
  <2>1. Known' = Known \cup {assignments[i].worker}
    BY <1>1, <1>5 DEF Known
  <2>2. \E w \in Workers : Known' = Known \cup {w}
    BY <1>4, <2>1
  <2> QED BY <1>2, <1>3, <2>2
         DEF Ledger!Learn, Ledger!Smooth, Ledger!Mishap, Known, Begun, Recorded, Done
<1>6. CASE redis' = redis
  <2>1. Known' = Known
    BY <1>3, <1>6
  <2> QED BY <1>2, <1>3, <2>1
         DEF Ledger!GoesWrong, Ledger!Mishap, Ledger!lvars, Known, Begun, Recorded, Done
<1> QED BY <1>2, <1>5, <1>6

LEMMA HearResultInLedger ==
  ASSUME IInv, HearResult
  PROVE  Ledger!GoesWrong \/ UNCHANGED Ledger!lvars
<1>1. UNCHANGED <<assignments, current, classified, finished, redis>>
  BY HearSteps DEF HearResult
<1>2. faults' = faults \/ faults' = faults + 1
  BY DEF HearResult, Lookup, Fault, NoFault
<1>3. UNCHANGED <<Known, Begun, Recorded, Done>>
  BY <1>1, LedgerStill DEF Longer
<1> QED BY <1>2, <1>3 DEF Ledger!GoesWrong, Ledger!Mishap, Ledger!lvars, Known, Begun, Recorded, Done

LEMMA FinishPowInLedger ==
  ASSUME IInv, aggr_channel # <<>>, FinishPow(Head(aggr_channel))
  PROVE  Ledger!FinishPow \/ Ledger!GoesWrong \/ UNCHANGED Ledger!lvars
<1> DEFINE r == Head(aggr_channel)
<1>0. TypeOK
  BY DEF IInv
<1>1. /\ UNCHANGED <<assignments, redis>> /\ current = None
      /\ r \in Result /\ Approved(r)
  BY ReceiveSteps DEF FinishPow
<1>2. UNCHANGED <<current, classified>> /\ r.type = "pow"
  BY DEF FinishPow
<1>3. PICK ok \in BOOLEAN : WriteFinished(r, ok)
  BY DEF FinishPow
<1> HIDE DEF r
<1>4. UNCHANGED <<Known, Begun, Recorded>> /\ Begun = {}
  BY <1>1, <1>2, LedgerStill DEF Longer, Begun
<1>5. /\ AsReport(r) \in Ledger!Report /\ AsReport(r).worker \in Known
      /\ AsReport(r).job = r.job /\ AsReport(r).type = "pow"
  BY <1>0, <1>1, <1>2, ReportInLedger
<1>6. /\ \/ Ledger!Free(Done, r.job) /\ Done' = Done \cup {AsReport(r)}
         \/ Done' = Done /\ ~Ledger!Free(Done, r.job) /\ faults' = faults
         \/ Done' = Done /\ faults' = faults + 1
      /\ faults' \in {faults, faults + 1}
  BY <1>1, <1>3, FinishedInLedger
<1>7. CASE Ledger!Free(Done, r.job) /\ Done' = Done \cup {AsReport(r)}
  <2>1. \E a \in Ledger!Report :
           /\ a.worker \in Known /\ a.type = "pow" /\ Ledger!Free(Done, a.job)
           /\ Done' = Done \cup {a}
    BY <1>5, <1>7
  <2> QED BY <1>4, <1>6, <2>1
         DEF Ledger!FinishPow, Ledger!Smooth, Ledger!Mishap, Known, Begun, Recorded, Done
<1>8. CASE Done' = Done
  BY <1>4, <1>6, <1>8 DEF Ledger!GoesWrong, Ledger!Mishap, Ledger!lvars, Known, Begun, Recorded, Done
<1> QED BY <1>6, <1>7, <1>8

LEMMA ClassifyInLedger ==
  ASSUME IInv, aggr_channel # <<>>, Classify(Head(aggr_channel))
  PROVE  Ledger!Classify \/ Ledger!GoesWrong \/ UNCHANGED Ledger!lvars
<1> DEFINE r == Head(aggr_channel)
<1>0. TypeOK
  BY DEF IInv
<1>1. /\ UNCHANGED <<assignments, redis>> /\ current = None
      /\ r \in Result /\ Approved(r)
  BY ReceiveSteps DEF Classify
<1>2. UNCHANGED finished /\ r.type = "classification"
  BY DEF Classify, Classification
<1>3. PICK ok \in BOOLEAN :
         WriteClassified(r, ok) /\ IF ok THEN current' = r ELSE UNCHANGED current
  BY DEF Classify
<1> HIDE DEF r
<1>4. UNCHANGED <<Known, Done>> /\ Begun = {} /\ (~ok => Begun' = {})
  BY <1>1, <1>2, <1>3, LedgerStill DEF Longer, Begun
<1>5. ok => Begun' = {AsReport(r)}
  BY <1>1, <1>3, ResultNotNone DEF Begun, AsReport
<1>6. /\ AsReport(r) \in Ledger!Report /\ AsReport(r).worker \in Known
      /\ AsReport(r).job = r.job /\ AsReport(r).type = "classification"
  BY <1>0, <1>1, <1>2, ReportInLedger
<1>7. \/ /\ Ledger!Free(Recorded, r.job) /\ Recorded' = Recorded \cup {AsReport(r)}
         /\ faults' = IF ok THEN faults ELSE faults + 1
      \/ Recorded' = Recorded /\ ~ok /\ faults' \in {faults, faults + 1}
  BY <1>1, <1>3, RecordedInLedger
<1>8. CASE /\ Ledger!Free(Recorded, r.job) /\ Recorded' = Recorded \cup {AsReport(r)}
           /\ faults' = IF ok THEN faults ELSE faults + 1
  <2>1. \E a \in Ledger!Report :
           /\ a.worker \in Known /\ a.type = "classification" /\ Ledger!Free(Recorded, a.job)
           /\ Recorded' = Recorded \cup {a}
           /\ \/ Begun' = {a} /\ faults' = faults
              \/ Begun' = {} /\ faults' = faults + 1
    BY <1>4, <1>5, <1>6, <1>8
  <2> QED BY <1>4, <2>1
         DEF Ledger!Classify, Ledger!Smooth, Ledger!Mishap, Known, Begun, Recorded, Done
<1>9. CASE Recorded' = Recorded /\ ~ok /\ faults' \in {faults, faults + 1}
  BY <1>4, <1>9 DEF Ledger!GoesWrong, Ledger!Mishap, Ledger!lvars, Known, Begun, Recorded, Done
<1> QED BY <1>7, <1>8, <1>9

LEMMA FinishClassificationInLedger ==
  ASSUME IInv, FinishClassification
  PROVE  Ledger!FinishClassification \/ Ledger!Abandon
<1>0. TypeOK /\ AllApproved
  BY DEF IInv
<1>1. /\ current # None /\ current' = None
      /\ UNCHANGED <<assignments, redis, classified>>
  BY DEF FinishClassification, outside
<1>2. PICK ok \in BOOLEAN : WriteFinished(current, ok)
  BY DEF FinishClassification
<1>3. current \in Result /\ Approved(current)
  BY <1>0, <1>1 DEF TypeOK, AllApproved
<1>4. Known' = Known /\ Recorded' = Recorded /\ Begun = {AsReport(current)} /\ Begun' = {}
  BY <1>1, LedgerStill DEF Longer, Begun
<1>5. AsReport(current).job = current.job
  BY DEF AsReport
<1>6. /\ \/ Ledger!Free(Done, current.job) /\ Done' = Done \cup {AsReport(current)}
         \/ Done' = Done /\ ~Ledger!Free(Done, current.job) /\ faults' = faults
         \/ Done' = Done /\ faults' = faults + 1
      /\ faults' \in {faults, faults + 1}
  BY <1>1, <1>2, <1>3, FinishedInLedger
<1>7. CASE Ledger!Free(Done, current.job) /\ Done' = Done \cup {AsReport(current)}
  <2>1. \E a \in Begun : Ledger!Free(Done, a.job) /\ Done' = Done \cup {a}
    BY <1>4, <1>5, <1>7
  <2> QED BY <1>1, <1>4, <1>6, <2>1
         DEF Ledger!FinishClassification, Ledger!Smooth, Ledger!Mishap, Known, Begun, Recorded, Done
<1>8. CASE Done' = Done /\ ((~Ledger!Free(Done, current.job) /\ faults' = faults) \/ faults' = faults + 1)
  <2>1. \E a \in Begun : (~Ledger!Free(Done, a.job) /\ faults' = faults) \/ faults' = faults + 1
    BY <1>4, <1>5, <1>8
  <2> QED BY <1>1, <1>4, <1>8, <2>1
         DEF Ledger!Abandon, Ledger!Smooth, Ledger!Mishap, Known, Begun, Recorded, Done
<1> QED BY <1>6, <1>7, <1>8

\* A crash between the two strokes abandons the classification.
LEMMA CrashInLedger ==
  ASSUME IInv, Crash
  PROVE  Ledger!Abandon \/ Ledger!GoesWrong
<1>1. /\ faults' = faults + 1 /\ current' = None
      /\ UNCHANGED <<assignments, redis, classified, finished>>
  BY DEF Crash, Fault, stored
<1>2. UNCHANGED <<Known, Recorded, Done>> /\ Begun' = {}
  BY <1>1, LedgerStill DEF Longer, Begun
<1>3. CASE Begun = {}
  BY <1>1, <1>2, <1>3 DEF Ledger!GoesWrong, Ledger!Mishap, Known, Begun, Recorded, Done
<1>4. CASE Begun # {}
  <2>1. \E a \in Begun : faults' = faults + 1
    BY <1>1, <1>4
  <2> QED BY <1>2, <2>1 DEF Ledger!Abandon, Ledger!Smooth, Ledger!Mishap, Known, Begun, Recorded, Done
<1> QED BY <1>3, <1>4

LEMMA NextInLedger ==
  ASSUME IInv, [Next]_vars
  PROVE  [Ledger!LedgerNext]_(Ledger!lvars)
<1>1. CASE Aggregate
  <2>1. CASE FinishClassification
    BY <2>1, FinishClassificationInLedger DEF Ledger!LedgerNext
  <2>2. CASE AggregatorEnds
    BY <2>2, LedgerStutters DEF AggregatorEnds, outside, stored, Longer
  <2>3. ASSUME aggr_channel # <<>>, Serve(Head(aggr_channel))
        PROVE  [Ledger!LedgerNext]_(Ledger!lvars)
    <3>1. CASE FinishPow(Head(aggr_channel))
      BY <2>3, <3>1, FinishPowInLedger DEF Ledger!LedgerNext
    <3>2. CASE Classify(Head(aggr_channel))
      BY <2>3, <3>2, ClassifyInLedger DEF Ledger!LedgerNext
    <3>3. CASE Refuse(Head(aggr_channel)) \/ NoIdentifier(Head(aggr_channel))
      <4>1. UNCHANGED <<assignments, redis, current, classified, finished, faults>>
        BY <3>3 DEF Refuse, NoIdentifier, Receive, outside
      <4> QED BY <4>1, LedgerStutters DEF Longer
    <3> QED BY <2>3, <3>1, <3>2, <3>3 DEF Serve
  <2> QED BY <1>1, <2>1, <2>2, <2>3 DEF Aggregate
<1>2. CASE Listen
  <2>1. CASE HearAssign \/ HearResult
    BY <2>1, HearAssignInLedger, HearResultInLedger DEF Ledger!LedgerNext
  <2>2. CASE HearDisconnected \/ Send
    <3>1. UNCHANGED <<assignments, redis, current, classified, finished, faults>>
      BY <2>2 DEF HearDisconnected, Hear, Send, outside, stored
    <3> QED BY <3>1, LedgerStutters DEF Longer
  <2> QED BY <1>2, <2>1, <2>2 DEF Listen
<1>3. CASE Crash
  BY <1>3, CrashInLedger DEF Ledger!LedgerNext
<1>4. CASE Await \/ UNCHANGED vars
  <2>1. UNCHANGED <<assignments, redis, current, classified, finished, faults>>
    BY <1>4 DEF Await, vars, outside, stored
  <2> QED BY <2>1, LedgerStutters DEF Longer
<1>5. ASSUME NEW j \in Jobs, NEW w \in Workers, Assign(j, w)
      PROVE  UNCHANGED Ledger!lvars
  <2>1. [job |-> j, worker |-> w] \in Assignment
    BY DEF Assignment
  <2>2. Longer
    BY <1>5, <2>1 DEF Assign, Longer
  <2>3. UNCHANGED <<redis, current, classified, finished, faults>>
    BY <1>5 DEF Assign, stored
  <2> QED BY <2>2, <2>3, LedgerStutters
<1>6. CASE ClientEnds \/ \E r \in Result : Answer(r)
  <2>1. UNCHANGED <<assignments, redis, current, classified, finished, faults>>
    BY <1>6 DEF ClientEnds, Answer, outside, stored
  <2> QED BY <2>1, LedgerStutters DEF Longer
<1> QED BY <1>1, <1>2, <1>3, <1>4, <1>5, <1>6 DEF Next

\* The aggregator keeps the job ledger, whatever is duplicated, fails or crashes: each
\* job is finished once and for good by a worker that holds an assignment, and the two
\* entries of a classification are of the same RESULT event.
THEOREM AggregatorImplementsLedger == Spec => ImplementsLedger
<1> QED BY InitInv, NextInv, InitLedger, NextInLedger, PTL
       DEF Spec, ImplementsLedger, Ledger!LedgerSpec
=============================================================================
