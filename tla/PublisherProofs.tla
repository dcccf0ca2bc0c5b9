-------------------------- MODULE PublisherProofs ---------------------------
(***************************************************************************)
(* Proofs about the publishers, for all sets of jobs and runs, whatever    *)
(* the checksums are.                                                      *)
(***************************************************************************)
EXTENDS Publisher, FiniteSetTheorems, SequenceTheorems, TLAPS

\* A run that has not begun has handed nothing over, and has nothing to publish.
NothingBefore ==
    \A r \in Runs : At(r, "waiting") => handed[r] = {} /\ Elements(entries[r]) = {}

\* A job handed over is recorded, or known as missed, or about to be recorded.
Accounted ==
    \A r \in Runs : \A j \in handed[r] :
        \/ j \in missed
        \/ Key(r, j) \in records
        \/ At(r, "recording") /\ j \in Elements(batch[r])

\* What is about to be recorded has been handed over.
BatchHandedOver == \A r \in Runs : Elements(batch[r]) \subseteq handed[r]

EarlierDone == \A r \in Runs : \A q \in earlier[r] : At(q, "done")

\* A run does not hold what an earlier one has handed over and recorded.
NotHeldAgain ==
    \A r \in Runs : \A q \in earlier[r] : \A j \in handed[q] \cap Elements(entries[r]) :
        j \in missed \/ Key(q, j) # j

IInv ==
    /\ TypeOK
    /\ NothingBefore
    /\ Accounted
    /\ BatchHandedOver
    /\ EarlierDone
    /\ NotHeldAgain
    /\ PublishedOnce
    /\ RecordedWasHandedOver

-----------------------------------------------------------------------------
(* Sequences of jobs, as sets.                                             *)

LEMMA TailElements ==
  ASSUME NEW q \in Seq(Jobs), q # <<>>
  PROVE  /\ Head(q) \in Jobs /\ Head(q) \in Elements(q)
         /\ Tail(q) \in Seq(Jobs)
         /\ Elements(Tail(q)) \subseteq Elements(q)
<1>1. /\ Head(q) = q[1] /\ 1 \in DOMAIN q /\ Tail(q) \in Seq(Jobs)
      /\ Len(Tail(q)) = Len(q) - 1
      /\ \A i \in 1 .. Len(q) - 1 : Tail(q)[i] = q[i + 1]
  BY HeadTailProperties, EmptySeq, LenProperties
<1>2. Head(q) \in Jobs
  BY <1>1, ElementOfSeq, LenProperties
<1>3. ASSUME NEW i \in DOMAIN Tail(q)
      PROVE  Tail(q)[i] \in Elements(q)
  <2>1. i \in 1 .. Len(q) - 1 /\ Len(q) \in Nat /\ DOMAIN q = 1 .. Len(q)
    BY <1>1, LenProperties
  <2>2. Tail(q)[i] = q[i + 1] /\ i + 1 \in DOMAIN q
    BY <1>1, <2>1
  <2> QED BY <2>2 DEF Elements
<1>4. Elements(Tail(q)) \subseteq Elements(q)
  BY <1>3 DEF Elements
<1>5. Head(q) \in Elements(q)
  BY <1>1 DEF Elements
<1> QED BY <1>1, <1>2, <1>4, <1>5

LEMMA PartElements ==
  ASSUME NEW q \in Seq(Jobs), NEW m \in Nat \ {0}, NEW n \in Nat, n <= Len(q)
  PROVE  /\ SubSeq(q, m, n) \in Seq(Jobs)
         /\ Elements(SubSeq(q, m, n)) \subseteq Elements(q)
<1>1. DOMAIN q = 1 .. Len(q) /\ Len(q) \in Nat
  BY LenProperties
<1>2. \A i \in m .. n : i \in DOMAIN q /\ q[i] \in Jobs
  BY <1>1, ElementOfSeq
<1>3. CASE m <= n
  <2>1. m \in 1 .. n + 1
    BY <1>3
  <2>2. \A i \in m .. n : q[i] \in Jobs
    BY <1>2
  <2>3. /\ SubSeq(q, m, n) \in Seq(Jobs)
        /\ Len(SubSeq(q, m, n)) = n - m + 1
        /\ \A i \in 1 .. n - m + 1 : SubSeq(q, m, n)[i] = q[m + i - 1]
    BY <1>3, <2>2, SubSeqProperties, <1>1
  <2>4. ASSUME NEW i \in DOMAIN SubSeq(q, m, n)
        PROVE  SubSeq(q, m, n)[i] \in Elements(q)
    <3>1. i \in 1 .. n - m + 1
      BY <2>3, LenProperties
    <3>2. m + i - 1 \in m .. n
      BY <3>1, <1>3
    <3> QED BY <2>3, <3>1, <3>2, <1>2 DEF Elements
  <2> QED BY <2>3, <2>4 DEF Elements
<1>4. CASE ~(m <= n)
  <2>1. SubSeq(q, m, n) = <<>>
    BY <1>4, SubSeqProperties
  <2> QED BY <2>1, EmptySeq DEF Elements
<1> QED BY <1>3, <1>4

LEMMA ChunkElements ==
  ASSUME TypeOK, NEW r \in Runs, entries[r] # <<>>
  PROVE  /\ Chunk(r) \in Seq(Jobs)
         /\ SubSeq(entries[r], Drained(r) + 1, Len(entries[r])) \in Seq(Jobs)
         /\ Elements(Chunk(r)) \subseteq Elements(entries[r])
         /\ Elements(SubSeq(entries[r], Drained(r) + 1, Len(entries[r])))
                \subseteq Elements(entries[r])
<1>1. entries[r] \in Seq(Jobs) /\ Len(entries[r]) \in Nat
  BY LenProperties DEF TypeOK
<1>2. Drained(r) \in Nat /\ Drained(r) <= Len(entries[r])
  BY <1>1, PublisherAssumption DEF Drained, Smaller
<1>3. Drained(r) + 1 \in Nat \ {0}
  BY <1>2
<1> QED BY <1>1, <1>2, <1>3, PartElements DEF Chunk

-----------------------------------------------------------------------------
(* Types.                                                                  *)

LEMMA FetchTypes ==
  ASSUME TypeOK, NEW r \in Runs, Fetch(r)
  PROVE  entries' \in [Runs -> Seq(Jobs)] /\ pows' \in [Runs -> Nat]
<1> DEFINE found == Cardinality(LeftAntiJoin)
           n == IF ClassificationCount <= 0 THEN 0
                ELSE IF found < ClassificationCount THEN found ELSE ClassificationCount
<1>1. found \in Nat
  BY PublisherAssumption, FS_Subset, FS_CardinalityType DEF LeftAntiJoin
<1>2. ClassificationCount \in Int
  BY PublisherAssumption DEF ClassificationCount
<1>3. n \in Nat
  BY <1>1, <1>2
<1>4. /\ \E list \in [1 .. n -> LeftAntiJoin] : entries' = [entries EXCEPT ![r] = list]
      /\ pows' = [pows EXCEPT ![r] = IF Limit > n THEN Limit - n ELSE 0]
  BY DEF Fetch
<1> HIDE DEF n
<1>5. \A list \in [1 .. n -> LeftAntiJoin] : list \in Seq(Jobs)
  BY <1>3, SeqDef DEF LeftAntiJoin
<1>6. (IF Limit > n THEN Limit - n ELSE 0) \in Nat
  BY <1>3, PublisherAssumption
<1> QED BY <1>4, <1>5, <1>6 DEF TypeOK

LEMMA InitTypes == Init => TypeOK
<1>1. <<>> \in Seq(Jobs) /\ <<>> \in Seq({"OK", "other"})
  BY EmptySeq
<1> QED BY <1>1, PublisherAssumption DEF Init, TypeOK

LEMMA NextTypes ==
  ASSUME TypeOK, [Next]_vars
  PROVE  TypeOK'
<1> USE DEF TypeOK
<1>0. <<>> \in Seq(Jobs) /\ <<>> \in Seq({"OK", "other"})
  BY EmptySeq
<1>1. CASE UNCHANGED vars
  BY <1>1 DEF vars, mainVars, clientVars, listenerVars, historyVars
<1>2. ASSUME NEW r \in Runs, EnoughJobs(r) \/ Begin(r)
      PROVE  TypeOK'
  <2>1. /\ earlier' = [earlier EXCEPT ![r] = {q \in Runs : At(q, "done")}]
        /\ UNCHANGED <<entries, pows, batch, records, clientVars, inbox, handed, missed, faults>>
    BY <1>2 DEF EnoughJobs, Begin, Begins
  <2>2. pc' \in {[pc EXCEPT ![r] = "done"], [pc EXCEPT ![r] = "reading"]}
    BY <1>2 DEF EnoughJobs, Begin, GoTo
  <2>3. \A x \in BOOLEAN : /\ [listening EXCEPT ![r] = x] \in [Runs -> BOOLEAN]
                           /\ [heard EXCEPT ![r] = x] \in [Runs -> BOOLEAN]
    OBVIOUS
  <2>4. (r \in RelayRuns) \in BOOLEAN
    OBVIOUS
  <2>5. /\ listening' \in {listening, [listening EXCEPT ![r] = r \in RelayRuns]}
        /\ heard' \in {heard, [heard EXCEPT ![r] = TRUE]}
        /\ deaf' = deaf
    BY <1>2 DEF EnoughJobs, Begin, listenerVars
  <2>6. /\ listening' \in [Runs -> BOOLEAN]
        /\ heard' \in [Runs -> BOOLEAN]
        /\ deaf' \in [Runs -> BOOLEAN]
    BY <2>3, <2>4, <2>5
  <2> QED BY <2>1, <2>2, <2>6 DEF clientVars
<1>3. ASSUME NEW r \in Runs, Fetch(r)
      PROVE  TypeOK'
  <2>1. entries' \in [Runs -> Seq(Jobs)] /\ pows' \in [Runs -> Nat]
    BY <1>3, FetchTypes
  <2>2. /\ pc' = [pc EXCEPT ![r] = "publishing"]
        /\ UNCHANGED <<batch, records, clientVars, inbox, listenerVars, historyVars>>
    BY <1>3 DEF Fetch, GoTo
  <2> QED BY <2>1, <2>2 DEF clientVars, listenerVars, historyVars
<1>4. ASSUME NEW r \in Runs, PublishJob(r)
      PROVE  TypeOK'
  <2>1. entries[r] # <<>> /\ entries[r] \in Seq(Jobs)
    BY <1>4 DEF PublishJob
  <2>2. Head(entries[r]) \in Jobs /\ Tail(entries[r]) \in Seq(Jobs)
    BY <2>1, TailElements
  <2>3. <<Head(entries[r])>> \in Seq(Jobs)
    BY <2>2
  <2>4. /\ entries' = [entries EXCEPT ![r] = Tail(entries[r])]
        /\ UNCHANGED <<pows, records, client, inbox, listenerVars, earlier, missed, faults>>
    BY <1>4 DEF PublishJob
  <2>5. CASE client[r] = "ended"
    <3>1. UNCHANGED <<pc, batch, handed, queued>>
      BY <1>4, <2>5 DEF PublishJob
    <3> QED BY <2>2, <2>4, <3>1 DEF listenerVars
  <2>6. CASE client[r] # "ended"
    <3>1. /\ pc' = [pc EXCEPT ![r] = "recording"]
          /\ batch' = [batch EXCEPT ![r] = <<Head(entries[r])>>]
          /\ handed' = [handed EXCEPT ![r] = @ \cup {Head(entries[r])}]
          /\ queued' = [queued EXCEPT ![r] = @ + 1]
      BY <1>4, <2>6 DEF PublishJob, GoTo
    <3> QED BY <2>2, <2>3, <2>4, <3>1 DEF listenerVars
  <2> QED BY <2>5, <2>6
<1>5. ASSUME NEW r \in Runs, PublishPoW(r)
      PROVE  TypeOK'
  BY <1>5 DEF PublishPoW, listenerVars, historyVars
<1>6. ASSUME NEW r \in Runs, PostJobs(r)
      PROVE  TypeOK'
  <2>1. /\ Chunk(r) \in Seq(Jobs)
        /\ SubSeq(entries[r], Drained(r) + 1, Len(entries[r])) \in Seq(Jobs)
        /\ Elements(Chunk(r)) \subseteq Jobs
    BY <1>6, ChunkElements, ElementOfSeq DEF PostJobs, Elements
  <2> QED BY <1>6, <2>1 DEF PostJobs, Drain, GoTo, clientVars, listenerVars
<1>7. ASSUME NEW r \in Runs, NEW taken \in BOOLEAN, NEW place \in {"publishing", "done"},
             PostJobsFails(r, taken, place)
      PROVE  TypeOK'
  <2>1. /\ SubSeq(entries[r], Drained(r) + 1, Len(entries[r])) \in Seq(Jobs)
        /\ Elements(Chunk(r)) \subseteq Jobs
    BY <1>7, ChunkElements, ElementOfSeq DEF PostJobsFails, Elements
  <2>2. /\ handed' \in {handed, [handed EXCEPT ![r] = @ \cup Elements(Chunk(r))]}
        /\ missed' \in {missed, missed \cup Elements(Chunk(r))}
    BY <1>7 DEF PostJobsFails
  <2>3. /\ pc' = [pc EXCEPT ![r] = place]
        /\ entries' = [entries EXCEPT ![r] =
                          SubSeq(entries[r], Drained(r) + 1, Len(entries[r]))]
        /\ faults < MaxFaults /\ faults' = faults + 1
        /\ UNCHANGED <<pows, batch, records, clientVars, inbox, listenerVars, earlier>>
    BY <1>7 DEF PostJobsFails, Drain, GoTo, Fault
  <2>4. faults' \in 0 .. MaxFaults
    BY <2>3, PublisherAssumption
  <2>5. pc' \in [Runs -> {"waiting", "reading", "publishing", "recording", "awaiting", "done"}]
    BY <2>3
  <2>6. handed' \in [Runs -> SUBSET Jobs] /\ missed' \in SUBSET Jobs
    <3>1. handed[r] \cup Elements(Chunk(r)) \in SUBSET Jobs
      BY <2>1
    <3>2. [handed EXCEPT ![r] = @ \cup Elements(Chunk(r))] \in [Runs -> SUBSET Jobs]
      BY <3>1
    <3>3. missed \cup Elements(Chunk(r)) \in SUBSET Jobs
      BY <2>1
    <3> QED BY <2>2, <3>2, <3>3
  <2>7. entries' \in [Runs -> Seq(Jobs)]
    BY <2>1, <2>3
  <2> QED BY <2>3, <2>4, <2>5, <2>6, <2>7 DEF clientVars, listenerVars
<1>8. ASSUME NEW r \in Runs, PostPoW(r)
      PROVE  TypeOK'
  <2>1. pows[r] - Smaller(CHUNK, pows[r]) \in Nat
    BY PublisherAssumption DEF Smaller
  <2> QED BY <1>8, <2>1 DEF PostPoW, clientVars, listenerVars, historyVars
<1>9. ASSUME NEW r \in Runs, Record(r)
      PROVE  TypeOK'
  <2>1. \A i \in DOMAIN batch[r] : batch[r][i] \in Jobs
    BY ElementOfSeq, LenProperties
  <2>2. \A i \in DOMAIN batch[r] : Key(r, batch[r][i]) \in Keys
    BY <2>1 DEF Key, Keys
  <2> QED BY <1>9, <2>1, <2>2, <1>0
          DEF Record, Insertable, GoTo, clientVars, listenerVars
<1>10. ASSUME NEW r \in Runs, RecordFails(r)
       PROVE  TypeOK'
  <2>1. \A i \in DOMAIN batch[r] : batch[r][i] \in Jobs
    BY ElementOfSeq, LenProperties
  <2>2. \A i \in DOMAIN batch[r] : Key(r, batch[r][i]) \in Keys
    BY <2>1 DEF Key, Keys
  <2>3. records' \in SUBSET Keys
    BY <1>10, <2>2 DEF RecordFails, Insertable
  <2>4. missed' \in SUBSET Jobs
    BY <1>10, <2>1 DEF RecordFails, Elements
  <2> QED BY <1>10, <2>3, <2>4, <1>0, PublisherAssumption
          DEF RecordFails, GoTo, Fault, clientVars, listenerVars
<1>11. ASSUME NEW r \in Runs, Published(r)
       PROVE  TypeOK'
  BY <1>11 DEF Published, GoTo, clientVars, listenerVars, historyVars
<1>12. ASSUME NEW r \in Runs, Exit(r)
       PROVE  TypeOK'
  BY <1>12, <1>0 DEF Exit, End, GoTo, historyVars
<1>13. ASSUME NEW r \in Runs, Crash(r)
       PROVE  TypeOK'
  <2>1. Elements(batch[r]) \subseteq Jobs
    BY ElementOfSeq, LenProperties DEF Elements
  <2> QED BY <1>13, <2>1, <1>0, PublisherAssumption DEF Crash, End, GoTo, Fault
<1>14. ASSUME NEW r \in Runs, Greet(r) \/ Answer(r) \/ Outage(r) \/ GiveUp(r)
       PROVE  TypeOK'
  <2>1. \A q \in Seq({"OK", "other"}), x \in {"OK", "other"} :
           Append(q, x) \in Seq({"OK", "other"})
    BY AppendProperties
  <2>2. \A n \in Nat : n > 0 => n - 1 \in Nat
    OBVIOUS
  <2>3. CASE Greet(r)
    BY <2>1, <2>3 DEF Greet, Arrives, mainVars, listenerVars, historyVars
  <2>4. CASE Answer(r)
    BY <2>1, <2>2, <2>4 DEF Answer, Arrives, mainVars, listenerVars, historyVars
  <2>5. CASE Outage(r)
    <3>0. /\ client' = [client EXCEPT ![r] = "connecting"]
          /\ UNCHANGED <<mainVars, records, inbox, listenerVars, handed, earlier, missed>>
          /\ \E left \in 0 .. queued[r] : queued' = [queued EXCEPT ![r] = left]
      BY <2>5 DEF Outage
    <3>1. queued' \in [Runs -> Nat]
      <4>1. queued \in [Runs -> Nat] /\ queued[r] \in Nat
        OBVIOUS
      <4>2. PICK left \in 0 .. queued[r] : queued' = [queued EXCEPT ![r] = left]
        BY <3>0
      <4>3. left \in Nat
        BY <4>1
      <4> QED BY <4>1, <4>2, <4>3
    <3>2. faults' \in 0 .. MaxFaults
      BY <2>5, PublisherAssumption DEF Outage, Fault
    <3> QED BY <3>0, <3>1, <3>2 DEF mainVars, listenerVars
  <2>6. CASE GiveUp(r)
    BY <2>1, <2>6, PublisherAssumption DEF GiveUp, Arrives, Fault, mainVars, listenerVars
  <2> QED BY <1>14, <2>3, <2>4, <2>5, <2>6
<1>15. ASSUME NEW r \in Runs, Hear(r)
       PROVE  TypeOK'
  <2>1. \A q \in Seq({"OK", "other"}) : q # <<>> => Tail(q) \in Seq({"OK", "other"})
    BY HeadTailProperties
  <2>2. inbox' \in [Runs -> Seq({"OK", "other"})]
    <3>1. \/ inbox[r] # <<>> /\ inbox' = [inbox EXCEPT ![r] = Tail(inbox[r])]
          \/ inbox' = inbox
      BY <1>15 DEF Hear
    <3>2. inbox[r] \in Seq({"OK", "other"})
      OBVIOUS
    <3>3. inbox[r] # <<>> => Tail(inbox[r]) \in Seq({"OK", "other"})
      BY <2>1, <3>2
    <3> QED BY <3>1, <3>3
  <2>3. UNCHANGED <<mainVars, records, clientVars, listening, historyVars>>
    BY <1>15 DEF Hear
  <2>4. heard' \in [Runs -> BOOLEAN] /\ deaf' \in [Runs -> BOOLEAN]
    <3>1. \A x \in BOOLEAN : [heard EXCEPT ![r] = x] \in [Runs -> BOOLEAN]
      OBVIOUS
    <3>2. \A x \in BOOLEAN : [deaf EXCEPT ![r] = x] \in [Runs -> BOOLEAN]
      OBVIOUS
    <3>3. heard' \in {heard, [heard EXCEPT ![r] = heard[r] \/ Head(inbox[r]) = "OK"]}
      BY <1>15 DEF Hear
    <3>4. deaf' \in {[deaf EXCEPT ![r] = TRUE], [deaf EXCEPT ![r] = Head(inbox[r]) # "OK"]}
      BY <1>15 DEF Hear
    <3>5. (heard[r] \/ Head(inbox[r]) = "OK") \in BOOLEAN /\ (Head(inbox[r]) # "OK") \in BOOLEAN
      OBVIOUS
    <3> QED BY <3>1, <3>2, <3>3, <3>4, <3>5
  <2> QED BY <2>2, <2>3, <2>4 DEF mainVars, clientVars, historyVars
<1>16. ASSUME NEW r \in Runs, Tick(r)
       PROVE  TypeOK'
  BY <1>16 DEF Tick, mainVars, clientVars, historyVars
<1> QED BY <1>1, <1>2, <1>3, <1>4, <1>5, <1>6, <1>7, <1>8, <1>9, <1>10, <1>11, <1>12, <1>13,
           <1>14, <1>15, <1>16 DEF Next, Main, Trouble

\* Every variable of the publishers keeps its type.
THEOREM PublisherTypeCorrect == Spec => []TypeOK
  BY InitTypes, NextTypes, PTL DEF Spec

-----------------------------------------------------------------------------
(* The invariant.                                                          *)

LEMMA InitInv == Init => IInv
  BY InitTypes, EmptySeq
     DEF Init, IInv, NothingBefore, Accounted, BatchHandedOver, EarlierDone, NotHeldAgain,
         PublishedOnce, RecordedWasHandedOver, At, Elements

\* Steps that neither take nor record a job.
LEMMA Quiet ==
  ASSUME IInv, TypeOK',
         UNCHANGED <<entries, batch, records, handed, earlier, missed>>,
         \A q \in Runs : /\ pc[q] = "done" => pc'[q] = "done"
                         /\ pc'[q] = "waiting" => pc[q] = "waiting"
                         /\ pc[q] = "recording" => pc'[q] = "recording"
  PROVE  IInv'
<1> USE DEF IInv, At, Key, Elements
<1>1. NothingBefore'
  BY DEF NothingBefore
<1>2. Accounted'
  BY DEF Accounted
<1>3. BatchHandedOver'
  BY DEF BatchHandedOver
<1>4. EarlierDone'
  BY DEF EarlierDone, TypeOK
<1>5. NotHeldAgain' /\ PublishedOnce' /\ RecordedWasHandedOver'
  BY DEF NotHeldAgain, PublishedOnce, RecordedWasHandedOver
<1> QED BY <1>1, <1>2, <1>3, <1>4, <1>5

\* The steps of a run under way, but for the one that reads: it takes jobs that it holds,
\* and accounts for what it has taken.
LEMMA Busy ==
  ASSUME IInv, TypeOK',
         NEW r \in Runs, ~At(r, "waiting"), ~At(r, "done"),
         NEW place, place # "waiting", pc' = [pc EXCEPT ![r] = place],
         NEW taken, taken \subseteq Elements(entries[r]),
         handed' = [handed EXCEPT ![r] = @ \cup taken],
         \A q \in Runs : q # r => entries'[q] = entries[q] /\ batch'[q] = batch[q],
         Elements(entries'[r]) \subseteq Elements(entries[r]),
         Elements(batch'[r]) \subseteq handed'[r],
         earlier' = earlier, missed \subseteq missed', records \subseteq records',
         \A k \in records' \ records : \E j \in handed[r] : k = Key(r, j),
         \A j \in handed'[r] : \/ j \in missed'
                               \/ Key(r, j) \in records'
                               \/ place = "recording" /\ j \in Elements(batch'[r])
  PROVE  IInv'
<1>0. /\ TypeOK /\ NothingBefore /\ Accounted /\ BatchHandedOver /\ EarlierDone
      /\ NotHeldAgain /\ PublishedOnce /\ RecordedWasHandedOver
  BY DEF IInv
<1>1. /\ handed'[r] = handed[r] \cup taken /\ pc'[r] = place
      /\ \A q \in Runs : q # r => handed'[q] = handed[q] /\ pc'[q] = pc[q]
  BY <1>0 DEF TypeOK
<1>2. \A q, h \in Runs : q \in earlier[h] => q # r
  BY <1>0 DEF EarlierDone
<1>3. NothingBefore'
  <2> SUFFICES ASSUME NEW q \in Runs, pc'[q] = "waiting"
               PROVE  handed'[q] = {} /\ Elements(entries'[q]) = {}
    BY DEF NothingBefore, At, Elements
  <2>1. q # r
    BY <1>1
  <2>2. pc[q] = "waiting" /\ handed'[q] = handed[q] /\ entries'[q] = entries[q]
    BY <1>1, <2>1
  <2>3. handed[q] = {} /\ Elements(entries[q]) = {}
    BY <1>0, <2>2 DEF NothingBefore, At
  <2> QED BY <2>2, <2>3
<1>4. Accounted'
  <2> SUFFICES ASSUME NEW q \in Runs, NEW j \in handed'[q]
               PROVE  \/ j \in missed'
                      \/ Key(q, j) \in records'
                      \/ pc'[q] = "recording" /\ j \in Elements(batch'[q])
    BY DEF Accounted, At, Key, Elements
  <2>1. CASE q = r
    BY <1>1, <2>1
  <2>2. CASE q # r
    BY <1>0, <1>1, <2>2 DEF Accounted, At
  <2> QED BY <2>1, <2>2
<1>5. BatchHandedOver'
  BY <1>0, <1>1 DEF BatchHandedOver, Elements
<1>6. EarlierDone'
  BY <1>0, <1>1, <1>2 DEF EarlierDone, At, TypeOK
<1>7. ASSUME NEW h \in Runs, NEW q \in earlier[h]
      PROVE  q \in Runs /\ handed'[q] = handed[q]
  BY <1>0, <1>1, <1>2 DEF TypeOK
<1>8. \A h \in Runs : Elements(entries'[h]) \subseteq Elements(entries[h])
  BY DEF Elements
<1>9. NotHeldAgain'
  <2> SUFFICES ASSUME NEW h \in Runs, NEW q \in earlier[h],
                      NEW j \in handed'[q], j \in Elements(entries'[h])
               PROVE  j \in missed' \/ Key(q, j) # j
    BY DEF NotHeldAgain, Key, Elements
  <2> QED BY <1>0, <1>7, <1>8 DEF NotHeldAgain
<1>10. PublishedOnce'
  <2> SUFFICES ASSUME NEW h \in Runs, NEW q \in earlier[h],
                      NEW j \in handed'[q], j \in handed'[h]
               PROVE  j \in missed' \/ Key(q, j) # j
    BY DEF PublishedOnce, Key
  <2>1. j \in handed[q]
    BY <1>7
  <2>2. j \in handed[h] \/ j \in Elements(entries[h])
    BY <1>1
  <2> QED BY <1>0, <2>1, <2>2 DEF NotHeldAgain, PublishedOnce
<1>11. RecordedWasHandedOver'
  <2> SUFFICES ASSUME NEW k \in records'
               PROVE  \E h \in Runs, j \in Jobs : j \in handed'[h] /\ k = Key(h, j)
    BY DEF RecordedWasHandedOver, Key
  <2>1. handed[r] \subseteq Jobs
    BY <1>0 DEF TypeOK
  <2>2. \A h \in Runs : handed[h] \subseteq handed'[h]
    BY <1>1
  <2>3. CASE k \in records
    BY <1>0, <2>2, <2>3 DEF RecordedWasHandedOver
  <2>4. CASE k \notin records
    BY <2>1, <2>2, <2>4
  <2> QED BY <2>3, <2>4
<1> QED BY <1>3, <1>4, <1>5, <1>6, <1>9, <1>10, <1>11 DEF IInv


LEMMA BeginInv ==
  ASSUME IInv, TypeOK', NEW r \in Runs, EnoughJobs(r) \/ Begin(r)
  PROVE  IInv'
<1>0. /\ TypeOK /\ NothingBefore /\ Accounted /\ BatchHandedOver /\ EarlierDone
      /\ NotHeldAgain /\ PublishedOnce /\ RecordedWasHandedOver
  BY DEF IInv
<1>1. /\ pc[r] = "waiting"
      /\ earlier' = [earlier EXCEPT ![r] = {q \in Runs : At(q, "done")}]
      /\ UNCHANGED <<entries, batch, records, handed, missed>>
      /\ pc'[r] # "waiting" /\ \A q \in Runs : q # r => pc'[q] = pc[q]
  BY <1>0 DEF EnoughJobs, Begin, Begins, At, GoTo, TypeOK
<1>2. handed[r] = {} /\ Elements(entries[r]) = {}
  BY <1>0, <1>1 DEF NothingBefore, At
<1>3. \A h \in Runs : h # r => earlier'[h] = earlier[h]
  BY <1>0, <1>1 DEF TypeOK
<1>4. \A q \in earlier'[r] : q \in Runs /\ pc[q] = "done"
  BY <1>0, <1>1 DEF TypeOK, At
<1>5. NothingBefore' /\ Accounted' /\ BatchHandedOver'
  <2>1. NothingBefore'
    <3> SUFFICES ASSUME NEW q \in Runs, pc'[q] = "waiting"
                 PROVE  handed[q] = {} /\ Elements(entries[q]) = {}
      BY <1>1 DEF NothingBefore, At, Elements
    <3>1. pc[q] = "waiting"
      BY <1>1
    <3> QED BY <1>0, <3>1 DEF NothingBefore, At
  <2>2. Accounted'
    <3> SUFFICES ASSUME NEW q \in Runs, NEW j \in handed[q]
                 PROVE  \/ j \in missed
                        \/ Key(q, j) \in records
                        \/ pc'[q] = "recording" /\ j \in Elements(batch[q])
      BY <1>1 DEF Accounted, At, Key, Elements
    <3>1. q # r
      BY <1>2
    <3> QED BY <1>0, <1>1, <3>1 DEF Accounted, At
  <2>3. BatchHandedOver'
    BY <1>0, <1>1 DEF BatchHandedOver, Elements
  <2> QED BY <2>1, <2>2, <2>3
<1>6. EarlierDone'
  <2> SUFFICES ASSUME NEW h \in Runs, NEW q \in earlier'[h]
               PROVE  pc'[q] = "done"
    BY DEF EarlierDone, At
  <2>1. q \in Runs /\ pc[q] = "done"
    BY <1>0, <1>3, <1>4 DEF EarlierDone, At, TypeOK
  <2> QED BY <1>1, <2>1
<1>7. NotHeldAgain'
  <2> SUFFICES ASSUME NEW h \in Runs, NEW q \in earlier'[h],
                      NEW j \in handed[q], j \in Elements(entries[h])
               PROVE  j \in missed \/ Key(q, j) # j
    BY <1>1 DEF NotHeldAgain, Key, Elements
  <2> QED BY <1>0, <1>2, <1>3 DEF NotHeldAgain
<1>8. PublishedOnce'
  <2> SUFFICES ASSUME NEW h \in Runs, NEW q \in earlier'[h],
                      NEW j \in handed[q], j \in handed[h]
               PROVE  j \in missed \/ Key(q, j) # j
    BY <1>1 DEF PublishedOnce, Key
  <2> QED BY <1>0, <1>2, <1>3 DEF PublishedOnce
<1>9. RecordedWasHandedOver'
  BY <1>0, <1>1 DEF RecordedWasHandedOver, Key
<1> QED BY <1>5, <1>6, <1>7, <1>8, <1>9 DEF IInv

\* What is read has no entry: an earlier run that has handed it over has missed it, or has
\* recorded something else.
LEMMA FetchInv ==
  ASSUME IInv, TypeOK', NEW r \in Runs, Fetch(r)
  PROVE  IInv'
<1>0. /\ TypeOK /\ NothingBefore /\ Accounted /\ BatchHandedOver /\ EarlierDone
      /\ NotHeldAgain /\ PublishedOnce /\ RecordedWasHandedOver
  BY DEF IInv
<1>1. /\ pc[r] = "reading" /\ pc' = [pc EXCEPT ![r] = "publishing"]
      /\ UNCHANGED <<batch, records, handed, earlier, missed>>
  BY DEF Fetch, At, GoTo, historyVars
<1>2. PICK n : \E list \in [1 .. n -> LeftAntiJoin] : entries' = [entries EXCEPT ![r] = list]
  BY DEF Fetch
<1>3. /\ \A q \in Runs : q # r => entries'[q] = entries[q] /\ pc'[q] = pc[q]
      /\ pc'[r] = "publishing"
      /\ Elements(entries'[r]) \subseteq Jobs \ records
  <2>1. PICK list \in [1 .. n -> LeftAntiJoin] : entries' = [entries EXCEPT ![r] = list]
    BY <1>2
  <2>2. DOMAIN entries = Runs /\ DOMAIN pc = Runs
    BY <1>0 DEF TypeOK
  <2>3. /\ \A q \in Runs : q # r => entries'[q] = entries[q] /\ pc'[q] = pc[q]
        /\ pc'[r] = "publishing" /\ entries'[r] = list
    BY <1>1, <2>1, <2>2
  <2>4. Elements(list) \subseteq LeftAntiJoin
    BY <2>1 DEF Elements
  <2> QED BY <2>3, <2>4 DEF LeftAntiJoin
<1>4. NothingBefore'
  <2> SUFFICES ASSUME NEW q \in Runs, pc'[q] = "waiting"
               PROVE  handed'[q] = {} /\ Elements(entries'[q]) = {}
    BY DEF NothingBefore, At, Elements
  <2>1. q # r /\ pc[q] = "waiting" /\ entries'[q] = entries[q]
    BY <1>3
  <2>2. handed[q] = {} /\ Elements(entries[q]) = {}
    BY <1>0, <2>1 DEF NothingBefore, At
  <2> QED BY <1>1, <2>1, <2>2 DEF Elements
<1>5. Accounted'
  BY <1>0, <1>1, <1>3 DEF Accounted, At, Key, Elements
<1>6. BatchHandedOver' /\ PublishedOnce' /\ RecordedWasHandedOver'
  BY <1>0, <1>1 DEF BatchHandedOver, PublishedOnce, RecordedWasHandedOver, Key, Elements
<1>7. EarlierDone'
  BY <1>0, <1>1, <1>3 DEF EarlierDone, At, TypeOK
<1>8. NotHeldAgain'
  <2> SUFFICES ASSUME NEW h \in Runs, NEW q \in earlier[h],
                      NEW j \in handed[q], j \in Elements(entries'[h])
               PROVE  j \in missed \/ Key(q, j) # j
    BY <1>1 DEF NotHeldAgain, Key, Elements
  <2>1. CASE h # r
    BY <1>0, <1>3, <2>1 DEF NotHeldAgain
  <2>2. CASE h = r
    <3>1. q \in Runs /\ pc[q] = "done"
      BY <1>0 DEF EarlierDone, TypeOK, At
    <3>2. j \in missed \/ Key(q, j) \in records
      BY <1>0, <3>1 DEF Accounted, At
    <3> QED BY <1>3, <2>2, <3>2
  <2> QED BY <2>1, <2>2
<1> QED BY <1>4, <1>5, <1>6, <1>7, <1>8 DEF IInv

\* Entries are keys of jobs in the batch, and a job that gets none is missed.
LEMMA RecordInv ==
  ASSUME IInv, TypeOK', NEW r \in Runs, Record(r) \/ RecordFails(r)
  PROVE  IInv'
<1>0. TypeOK /\ Accounted /\ BatchHandedOver
  BY DEF IInv
<1>1. /\ pc[r] = "recording" /\ pc' = [pc EXCEPT ![r] = "publishing"]
      /\ batch' = [batch EXCEPT ![r] = <<>>]
      /\ UNCHANGED <<entries, handed, earlier>>
  BY DEF Record, RecordFails, At, GoTo
<1>2. \A i \in DOMAIN batch[r] : batch[r][i] \in handed[r]
  BY <1>0 DEF BatchHandedOver, Elements
<1>3. /\ missed \subseteq missed' /\ records \subseteq records'
      /\ \A k \in records' \ records : \E j \in handed[r] : k = Key(r, j)
  BY <1>2 DEF Record, RecordFails, Insertable
<1>4. \A j \in Elements(batch[r]) : j \in missed' \/ Key(r, j) \in records'
  <2>1. CASE Record(r)
    BY <2>1 DEF Record, Elements
  <2>2. CASE RecordFails(r)
    BY <2>2 DEF RecordFails
  <2> QED BY <2>1, <2>2
<1>5. \A j \in handed[r] : j \in missed' \/ Key(r, j) \in records'
  BY <1>0, <1>3, <1>4 DEF Accounted
<1>6. /\ handed' = [handed EXCEPT ![r] = @ \cup {}]
      /\ handed'[r] = handed[r]
      /\ Elements(batch'[r]) = {}
      /\ \A q \in Runs : q # r => batch'[q] = batch[q]
  BY <1>0, <1>1, EmptySeq DEF TypeOK, Elements
<1>7. ~At(r, "waiting") /\ ~At(r, "done")
  BY <1>1 DEF At
<1>8. /\ \A q \in Runs : q # r => entries'[q] = entries[q] /\ batch'[q] = batch[q]
      /\ Elements(entries'[r]) \subseteq Elements(entries[r])
      /\ Elements(batch'[r]) \subseteq handed'[r]
      /\ earlier' = earlier
  BY <1>1, <1>6 DEF Elements
<1>9. \A j \in handed'[r] : \/ j \in missed'
                            \/ Key(r, j) \in records'
                            \/ "publishing" = "recording" /\ j \in Elements(batch'[r])
  BY <1>5, <1>6
<1>10. "publishing" # "waiting" /\ {} \subseteq Elements(entries[r])
  OBVIOUS
<1> QED BY <1>1, <1>3, <1>6, <1>7, <1>8, <1>9, <1>10, Busy


LEMMA PublishJobInv ==
  ASSUME IInv, TypeOK', NEW r \in Runs, PublishJob(r)
  PROVE  IInv'
<1>0. TypeOK /\ Accounted /\ BatchHandedOver
  BY DEF IInv
<1>1. /\ pc[r] = "publishing" /\ entries[r] # <<>> /\ entries[r] \in Seq(Jobs)
      /\ entries' = [entries EXCEPT ![r] = Tail(entries[r])]
      /\ UNCHANGED <<records, earlier, missed>>
  BY <1>0 DEF PublishJob, At, TypeOK
<1>2. /\ Head(entries[r]) \in Elements(entries[r])
      /\ Elements(Tail(entries[r])) \subseteq Elements(entries[r])
  BY <1>1, TailElements
<1>3. /\ Elements(entries'[r]) \subseteq Elements(entries[r])
      /\ \A q \in Runs : q # r => entries'[q] = entries[q]
      /\ ~At(r, "waiting") /\ ~At(r, "done")
  BY <1>0, <1>1, <1>2 DEF TypeOK, At
<1>4. \A j \in handed[r] : j \in missed \/ Key(r, j) \in records
  BY <1>0, <1>1 DEF Accounted, At
<1>5. CASE client[r] = "ended"
  <2>1. UNCHANGED <<pc, batch, handed>>
    BY <1>5 DEF PublishJob
  <2> DEFINE none == {}
  <2>2. /\ pc' = [pc EXCEPT ![r] = "publishing"]
        /\ handed' = [handed EXCEPT ![r] = @ \cup none]
        /\ Elements(batch'[r]) \subseteq handed'[r]
    BY <1>0, <1>1, <2>1 DEF TypeOK, BatchHandedOver
  <2>3. /\ none \subseteq Elements(entries[r])
        /\ \A q \in Runs : q # r => batch'[q] = batch[q]
        /\ \A j \in handed'[r] : j \in missed' \/ Key(r, j) \in records'
    BY <1>1, <1>4, <2>1
  <2>4. missed \subseteq missed' /\ records \subseteq records' /\ records' \ records = {}
    BY <1>1
  <2> HIDE DEF none
  <2> QED BY <1>1, <1>3, <2>2, <2>4, <2>3, Busy
<1>6. CASE client[r] # "ended"
  <2>1. /\ pc' = [pc EXCEPT ![r] = "recording"]
        /\ batch' = [batch EXCEPT ![r] = <<Head(entries[r])>>]
        /\ handed' = [handed EXCEPT ![r] = @ \cup {Head(entries[r])}]
    BY <1>6 DEF PublishJob, GoTo
  <2>2. /\ batch'[r] = <<Head(entries[r])>>
        /\ handed'[r] = handed[r] \cup {Head(entries[r])}
        /\ \A q \in Runs : q # r => batch'[q] = batch[q]
    BY <1>0, <2>1 DEF TypeOK
  <2>3. Elements(batch'[r]) = {Head(entries[r])}
    BY <2>2 DEF Elements
  <2>4. {Head(entries[r])} \subseteq Elements(entries[r])
    BY <1>2
  <2> QED BY <1>1, <1>3, <1>4, <2>1, <2>2, <2>3, <2>4, Busy
<1> QED BY <1>5, <1>6

LEMMA PostJobsInv ==
  ASSUME IInv, TypeOK', NEW r \in Runs,
         \/ PostJobs(r)
         \/ \E taken \in BOOLEAN, place \in {"publishing", "done"} : PostJobsFails(r, taken, place)
  PROVE  IInv'
<1>0. TypeOK /\ Accounted /\ BatchHandedOver
  BY DEF IInv
<1>1. /\ pc[r] = "publishing" /\ entries[r] # <<>> /\ Drain(r)
      /\ UNCHANGED <<records, earlier>>
  BY DEF PostJobs, PostJobsFails, Posting, At
<1>2. /\ Elements(Chunk(r)) \subseteq Elements(entries[r])
      /\ Elements(SubSeq(entries[r], Drained(r) + 1, Len(entries[r])))
             \subseteq Elements(entries[r])
  BY <1>0, <1>1, ChunkElements
<1>3. /\ entries'[r] = SubSeq(entries[r], Drained(r) + 1, Len(entries[r]))
      /\ \A q \in Runs : q # r => entries'[q] = entries[q]
      /\ ~At(r, "waiting") /\ ~At(r, "done")
  BY <1>0, <1>1 DEF Drain, TypeOK, At
<1>4. Elements(entries'[r]) \subseteq Elements(entries[r])
  BY <1>2, <1>3
<1>5. \A j \in handed[r] : j \in missed \/ Key(r, j) \in records
  BY <1>0, <1>1 DEF Accounted, At
<1>6. CASE PostJobs(r)
  <2>1. /\ pc' = [pc EXCEPT ![r] = "recording"]
        /\ batch' = [batch EXCEPT ![r] = Chunk(r)]
        /\ handed' = [handed EXCEPT ![r] = @ \cup Elements(Chunk(r))]
        /\ missed' = missed
    BY <1>6 DEF PostJobs, GoTo
  <2>2. /\ batch'[r] = Chunk(r)
        /\ handed'[r] = handed[r] \cup Elements(Chunk(r))
        /\ \A q \in Runs : q # r => batch'[q] = batch[q]
    BY <1>0, <2>1 DEF TypeOK
  <2> QED BY <1>1, <1>2, <1>3, <1>4, <1>5, <2>1, <2>2, Busy
<1>7. ASSUME NEW taken \in BOOLEAN, NEW place \in {"publishing", "done"},
             PostJobsFails(r, taken, place)
      PROVE  IInv'
  <2>1. pc' = [pc EXCEPT ![r] = place] /\ batch' = batch
    BY <1>7 DEF PostJobsFails, GoTo
  <2>2. CASE taken
    <3>1. /\ handed' = [handed EXCEPT ![r] = @ \cup Elements(Chunk(r))]
          /\ missed' = missed \cup Elements(Chunk(r))
      BY <1>7, <2>2 DEF PostJobsFails
    <3>2. /\ handed'[r] = handed[r] \cup Elements(Chunk(r))
          /\ Elements(batch'[r]) \subseteq handed[r]
      BY <1>0, <2>1, <3>1 DEF TypeOK, BatchHandedOver
    <3> QED BY <1>1, <1>2, <1>3, <1>4, <1>5, <2>1, <3>1, <3>2, Busy
  <2>3. CASE ~taken
    <3> DEFINE none == {}
    <3>1. /\ handed' = [handed EXCEPT ![r] = @ \cup none]
          /\ handed' = handed /\ missed' = missed
          /\ Elements(batch'[r]) \subseteq handed[r]
      BY <1>0, <1>7, <2>1, <2>3 DEF PostJobsFails, TypeOK, BatchHandedOver
    <3>2. /\ none \subseteq Elements(entries[r])
          /\ \A q \in Runs : q # r => batch'[q] = batch[q]
          /\ \A j \in handed'[r] : j \in missed' \/ Key(r, j) \in records'
      BY <1>1, <1>5, <2>1, <3>1
    <3>3. missed \subseteq missed' /\ records \subseteq records' /\ records' \ records = {}
      BY <1>1, <3>1
    <3> HIDE DEF none
    <3> QED BY <1>1, <1>3, <1>4, <2>1, <3>1, <3>2, <3>3, Busy
  <2> QED BY <2>2, <2>3
<1> QED BY <1>6, <1>7

LEMMA EndInv ==
  ASSUME IInv, TypeOK', NEW r \in Runs, Published(r) \/ Exit(r) \/ Crash(r)
  PROVE  IInv'
<1>0. TypeOK /\ Accounted /\ BatchHandedOver
  BY DEF IInv
<1>1. CASE Published(r)
  <2>1. /\ pc[r] = "publishing" /\ \A q \in Runs : q # r => pc'[q] = pc[q]
        /\ pc'[r] \in {"awaiting", "done"}
        /\ UNCHANGED <<entries, batch, records, handed, earlier, missed>>
    BY <1>0, <1>1 DEF Published, At, GoTo, TypeOK, historyVars
  <2> QED BY <2>1, Quiet
<1>2. CASE Exit(r)
  <2>1. /\ pc[r] = "awaiting" /\ \A q \in Runs : q # r => pc'[q] = pc[q]
        /\ pc'[r] = "done"
        /\ UNCHANGED <<entries, batch, records, handed, earlier, missed>>
    BY <1>0, <1>2 DEF Exit, End, At, GoTo, TypeOK, historyVars
  <2> QED BY <2>1, Quiet
<1>3. CASE Crash(r)
  <2>1. /\ ~At(r, "waiting") /\ ~At(r, "done")
        /\ pc' = [pc EXCEPT ![r] = "done"]
        /\ missed' = missed \cup Elements(batch[r])
        /\ batch' = [batch EXCEPT ![r] = <<>>]
        /\ UNCHANGED <<entries, records, handed, earlier>>
    BY <1>3 DEF Crash, End, GoTo
  <2>2. /\ handed' = [handed EXCEPT ![r] = @ \cup {}]
        /\ handed'[r] = handed[r]
        /\ batch'[r] = <<>> /\ Elements(batch'[r]) = {}
        /\ \A q \in Runs : q # r => batch'[q] = batch[q]
    BY <1>0, <2>1, EmptySeq DEF TypeOK, Elements
  <2>3. \A j \in handed'[r] : j \in missed' \/ Key(r, j) \in records'
    BY <1>0, <2>1, <2>2 DEF Accounted
  <2> QED BY <2>1, <2>2, <2>3, Busy
<1> QED BY <1>1, <1>2, <1>3

LEMMA NextInv ==
  ASSUME IInv, [Next]_vars
  PROVE  IInv'
<1>0. TypeOK'
  BY NextTypes DEF IInv
<1>1. CASE UNCHANGED vars
  BY <1>0, <1>1, Quiet DEF vars, mainVars, historyVars
<1>2. ASSUME NEW r \in Runs, PublishPoW(r) \/ PostPoW(r)
      PROVE  IInv'
  BY <1>0, <1>2, Quiet DEF PublishPoW, PostPoW, historyVars
<1>3. ASSUME NEW r \in Runs,
             \/ Greet(r) \/ Answer(r) \/ Outage(r) \/ GiveUp(r)
             \/ Hear(r) \/ Tick(r)
      PROVE  IInv'
  BY <1>0, <1>3, Quiet
     DEF Greet, Answer, Outage, GiveUp, Hear, Tick, mainVars, historyVars
<1> QED BY <1>0, <1>1, <1>2, <1>3, BeginInv, FetchInv, RecordInv, PublishJobInv, PostJobsInv,
           EndInv DEF Next, Main, Trouble

\* Every entry of classifier_published stands for a job that a run has handed over, to its
\* client's channel or to the server.  Whether the relay has got it is another question.
THEOREM RecordedWasHandedOverHolds == Spec => []RecordedWasHandedOver
<1>1. IInv => RecordedWasHandedOver
  BY DEF IInv
<1> QED BY <1>1, InitInv, NextInv, PTL DEF Spec

\* Runs one after the other hand no job over twice that could be recorded under its _id.
THEOREM PublishedOnceHolds == Spec => []PublishedOnce
<1>1. IInv => PublishedOnce
  BY DEF IInv
<1> QED BY <1>1, InitInv, NextInv, PTL DEF Spec

=============================================================================
