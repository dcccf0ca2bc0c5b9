---------------------------- MODULE RelayProofs -----------------------------
(***************************************************************************)
(* Proofs about the relay's connections, for all sets of connections,      *)
(* subscription ids, events and filters, and any capacity of the channel.  *)
(* Which events match which filters plays no part in them.                 *)
(***************************************************************************)
EXTENDS Relay, FiniteSetTheorems, SequenceTheorems, TLAPS

\* Where a connection is in the order of events: a new one holds nothing, and what was
\* handed out lies before the place it has reached.
Placed(c) ==
    /\ status[c] = "new" <=> joined[c] = -1
    /\ status[c] = "new" => DOMAIN subscriptions[c] = {}
    /\ joined[c] < cursor[c]
    /\ \A i \in DOMAIN handed[c] : handed[c][i] < cursor[c]

\* OkBeforeEcho for one connection, and that deliveries that wait lie before its place.
InOrder(c) ==
    /\ \A i \in DOMAIN outgoing[c] :
           outgoing[c][i].type = "EVENT" => outgoing[c][i].event \in 1 .. cursor[c] - 1
    /\ \A i, j \in DOMAIN outgoing[c] :
           i < j /\ outgoing[c][i].type = "EVENT" =>
               /\ outgoing[c][j].type = "EVENT" => outgoing[c][i].event < outgoing[c][j].event
               /\ ~Is(outgoing[c][j], "OK", outgoing[c][i].event)

\* NothingMissed for one connection.
Kept(c) ==
    \A id \in DOMAIN subscriptions[c] : \A n \in since[c][id] + 1 .. cursor[c] - 1 :
        IsInterested(subscriptions[c][id], log[n].event) /\ n > Len(log) - CAPACITY
            => \E i \in DOMAIN handed[c] : handed[c][i] = n

\* SubscriptionsAsAsked for one connection; what it holds it has held since some event.
AsAsked(c) ==
    /\ DOMAIN since[c] = DOMAIN subscriptions[c]
    /\ \A id \in DOMAIN subscriptions[c] :
           id \in DOMAIN wanted[c] /\ wanted[c][id] = subscriptions[c][id]
    /\ ~overrun[c] => DOMAIN wanted[c] \subseteq DOMAIN subscriptions[c]

IInv ==
    /\ TypeOK
    /\ \A c \in Conns : Placed(c) /\ InOrder(c) /\ Kept(c) /\ AsAsked(c)

-----------------------------------------------------------------------------
(* Partial functions and notices.                                          *)

LEMMA PartialFun ==
  ASSUME NEW S, NEW T, NEW f
  PROVE  f \in PartialOn(S, T) <=> \E D \in SUBSET S : f \in [D -> T]
BY DEF PartialOn

LEMMA RemovedNotMore ==
  ASSUME NEW S, NEW x, IsFiniteSet(S)
  PROVE  Cardinality(S \ {x}) <= Cardinality(S)
<1>1. Cardinality(S) \in Nat
  BY FS_CardinalityType
<1>2. Cardinality(S \ {x}) = IF x \in S THEN Cardinality(S) - 1 ELSE Cardinality(S)
  BY FS_RemoveElement
<1> QED BY <1>1, <1>2

LEMMA WithIn ==
  ASSUME NEW S, NEW T, NEW f \in PartialOn(S, T), NEW id \in S, NEW x \in T
  PROVE  With(f, id, x) \in PartialOn(S, T)
<1>1. PICK D \in SUBSET S : f \in [D -> T]
  BY PartialFun
<1>2. With(f, id, x) \in [D \cup {id} -> T]
  BY <1>1 DEF With
<1>3. With(f, id, x) \in PartialOn(S, T)
  BY <1>2, PartialFun
<1> QED BY <1>3

LEMMA WithApply ==
  ASSUME NEW f, NEW id, NEW x
  PROVE  /\ DOMAIN With(f, id, x) = DOMAIN f \cup {id}
         /\ With(f, id, x)[id] = x
         /\ \A i \in DOMAIN f : i # id => With(f, id, x)[i] = f[i]
BY DEF With

LEMMA WithoutIn ==
  ASSUME NEW S, NEW T, NEW f \in PartialOn(S, T), NEW id
  PROVE  Without(f, id) \in PartialOn(S, T)
<1>1. PICK D \in SUBSET S : f \in [D -> T]
  BY PartialFun
<1>2. Without(f, id) \in [D \ {id} -> T]
  BY <1>1 DEF Without
<1>3. Without(f, id) \in PartialOn(S, T)
  BY <1>2, PartialFun
<1> QED BY <1>3

LEMMA WithoutApply ==
  ASSUME NEW f, NEW id
  PROVE  /\ DOMAIN Without(f, id) = DOMAIN f \ {id}
         /\ \A i \in DOMAIN f \ {id} : Without(f, id)[i] = f[i]
BY DEF Without

LEMMA EmptyIn ==
  ASSUME NEW S, NEW T
  PROVE  Empty \in PartialOn(S, T) /\ DOMAIN Empty = {}
<1>1. Empty \in [{} -> T]
  BY DEF Empty
<1>2. Empty \in PartialOn(S, T)
  BY <1>1, PartialFun
<1> QED BY <1>2 DEF Empty

LEMMA PartialWider ==
  ASSUME NEW S, NEW T, NEW U, T \subseteq U, NEW f \in PartialOn(S, T)
  PROVE  f \in PartialOn(S, U)
<1>1. PICK D \in SUBSET S : f \in [D -> T]
  BY PartialFun
<1>2. f \in [D -> U]
  BY <1>1
<1> QED BY <1>2, PartialFun

LEMMA PartialDomain ==
  ASSUME NEW S, NEW T, NEW f \in PartialOn(S, T)
  PROVE  DOMAIN f \subseteq S /\ \A i \in DOMAIN f : f[i] \in T
<1>1. PICK D \in SUBSET S : f \in [D -> T]
  BY PartialFun
<1> QED BY <1>1

LEMMA NoticesIn ==
  /\ Auth \in Notices /\ Auth.type = "AUTH"
  /\ Refused \in Notices /\ Refused.type = "OK" /\ Refused.event = 0
  /\ \A n \in Nat : Saved(n) \in Notices /\ Saved(n).type = "OK" /\ Saved(n).event = n
  /\ \A n \in Nat, id \in SubIds :
        /\ Delivery(id, n) \in Notices
        /\ Delivery(id, n).type = "EVENT" /\ Delivery(id, n).event = n
BY DEF Notices, Auth, Refused, Saved, Delivery

\* The last place of a longer sequence is the new one.
LEMMA Appended ==
  ASSUME NEW S, NEW q \in Seq(S), NEW x \in S
  PROVE  /\ Append(q, x) \in Seq(S) /\ Len(Append(q, x)) = Len(q) + 1
         /\ DOMAIN Append(q, x) = 1 .. Len(q) + 1 /\ DOMAIN q = 1 .. Len(q)
         /\ Len(q) \in Nat
         /\ \A i \in 1 .. Len(q) : Append(q, x)[i] = q[i]
         /\ Append(q, x)[Len(q) + 1] = x
BY AppendProperties, LenProperties

-----------------------------------------------------------------------------
(* Types.                                                                  *)

LogEntries == [event : {Parsed(ev) : ev \in WireEvents}, from : Conns]

LEMMA InitTypes == Init => TypeOK
<1> SUFFICES ASSUME Init PROVE TypeOK
  OBVIOUS
<1>1. /\ Empty \in PartialOn(SubIds \ LongIds, FilterLists)
      /\ Empty \in PartialOn(SubIds, 0 .. Len(log))
      /\ Empty \in PartialOn(SubIds, FilterLists) /\ DOMAIN Empty = {}
  BY EmptyIn
<1>2. Cardinality({}) = 0
  BY FS_EmptySet
<1>3. <<>> \in Seq(LogEntries) /\ <<>> \in Seq(Notices) /\ <<>> \in Seq(1 .. Len(log))
      /\ Len(<<>>) = 0
  BY EmptySeq
<1>4. \A c \in Conns : Cardinality(DOMAIN subscriptions[c]) <= MAX_SUBS
  BY <1>1, <1>2, RelayAssumption DEF Init
<1>5. Len(log) = 0
  BY <1>3 DEF Init
<1>6. /\ status \in [Conns -> {"new", "open", "closed"}]
      /\ subscriptions \in [Conns -> PartialOn(SubIds \ LongIds, FilterLists)]
      /\ log \in Seq(LogEntries)
      /\ outgoing \in [Conns -> Seq(Notices)]
      /\ handed \in [Conns -> Seq(1 .. Len(log))]
      /\ since \in [Conns -> PartialOn(SubIds, 0 .. Len(log))]
      /\ wanted \in [Conns -> PartialOn(SubIds, FilterLists)]
      /\ overrun \in [Conns -> BOOLEAN]
  BY <1>1, <1>3 DEF Init
<1>8. cursor \in [Conns -> 1 .. Len(log) + 1] /\ joined \in [Conns -> -1 .. Len(log)]
  BY <1>5 DEF Init
<1>7. frames \in 0 .. MaxFrames
  BY RelayAssumption DEF Init
<1> QED BY <1>4, <1>6, <1>7, <1>8 DEF TypeOK, LogEntries

\* Whatever counts events keeps its type when there is one more.
LEMMA LongerLog ==
  ASSUME TypeOK, NEW e \in LogEntries, log' = Append(log, e)
  PROVE  /\ log' \in Seq(LogEntries) /\ Len(log) \in Nat /\ Len(log') = Len(log) + 1
         /\ \A n \in 1 .. Len(log) : log'[n] = log[n]
         /\ cursor \in [Conns -> 1 .. Len(log') + 1]
         /\ joined \in [Conns -> -1 .. Len(log')]
         /\ handed \in [Conns -> Seq(1 .. Len(log'))]
         /\ since \in [Conns -> PartialOn(SubIds, 0 .. Len(log'))]
<1>1. log \in Seq(LogEntries)
  BY DEF TypeOK, LogEntries
<1>2. /\ log' \in Seq(LogEntries) /\ Len(log) \in Nat /\ Len(log') = Len(log) + 1
      /\ \A n \in 1 .. Len(log) : log'[n] = log[n]
  BY <1>1, Appended
<1>3. /\ 1 .. Len(log) \subseteq 1 .. Len(log')
      /\ 0 .. Len(log) \subseteq 0 .. Len(log')
  BY <1>2
<1>4. \A q \in Seq(1 .. Len(log)) : q \in Seq(1 .. Len(log'))
  BY <1>3, SeqMonotonic
<1>5. \A f \in PartialOn(SubIds, 0 .. Len(log)) : f \in PartialOn(SubIds, 0 .. Len(log'))
  BY <1>3, PartialWider
<1>6. handed \in [Conns -> Seq(1 .. Len(log'))]
  BY <1>4 DEF TypeOK
<1>7. since \in [Conns -> PartialOn(SubIds, 0 .. Len(log'))]
  BY <1>5 DEF TypeOK
<1>8. cursor \in [Conns -> 1 .. Len(log') + 1] /\ joined \in [Conns -> -1 .. Len(log')]
  BY <1>2 DEF TypeOK
<1> QED BY <1>2, <1>6, <1>7, <1>8

\* A held id is replaced; a new one needs room.
LEMMA Room ==
  ASSUME TypeOK, NEW c \in Conns, NEW id \in SubIds,
         id \in DOMAIN subscriptions[c] \/ Cardinality(DOMAIN subscriptions[c]) < MAX_SUBS
  PROVE  Cardinality(DOMAIN subscriptions[c] \cup {id}) <= MAX_SUBS
<1>1. DOMAIN subscriptions[c] \subseteq SubIds
  BY PartialDomain DEF TypeOK
<1>2. IsFiniteSet(DOMAIN subscriptions[c]) /\ Cardinality(DOMAIN subscriptions[c]) \in Nat
  BY <1>1, RelayAssumption, FS_Subset, FS_CardinalityType
<1>3. Cardinality(DOMAIN subscriptions[c] \cup {id}) =
         IF id \in DOMAIN subscriptions[c] THEN Cardinality(DOMAIN subscriptions[c])
         ELSE Cardinality(DOMAIN subscriptions[c]) + 1
  BY <1>2, FS_AddElement
<1>4. Cardinality(DOMAIN subscriptions[c]) <= MAX_SUBS
  BY DEF TypeOK
<1> QED BY <1>2, <1>3, <1>4, RelayAssumption

LEMMA NextTypes ==
  ASSUME TypeOK, [Next]_vars
  PROVE  TypeOK'
<1>0. /\ status \in [Conns -> {"new", "open", "closed"}]
      /\ subscriptions \in [Conns -> PartialOn(SubIds \ LongIds, FilterLists)]
      /\ \A c \in Conns : Cardinality(DOMAIN subscriptions[c]) <= MAX_SUBS
      /\ log \in Seq(LogEntries) /\ Len(log) \in Nat
      /\ cursor \in [Conns -> 1 .. Len(log) + 1]
      /\ outgoing \in [Conns -> Seq(Notices)]
      /\ joined \in [Conns -> -1 .. Len(log)]
      /\ handed \in [Conns -> Seq(1 .. Len(log))]
      /\ since \in [Conns -> PartialOn(SubIds, 0 .. Len(log))]
      /\ wanted \in [Conns -> PartialOn(SubIds, FilterLists)]
      /\ overrun \in [Conns -> BOOLEAN]
      /\ frames \in 0 .. MaxFrames
  BY LenProperties DEF TypeOK, LogEntries
<1>1. CASE UNCHANGED vars
  BY <1>0, <1>1 DEF TypeOK, vars, LogEntries
<1>2. ASSUME NEW c \in Conns, Connect(c)
      PROVE  TypeOK'
  <2>1. <<Auth>> \in Seq(Notices)
    BY NoticesIn
  <2>2. /\ status' \in [Conns -> {"new", "open", "closed"}]
        /\ cursor' \in [Conns -> 1 .. Len(log) + 1]
        /\ outgoing' \in [Conns -> Seq(Notices)]
        /\ joined' \in [Conns -> -1 .. Len(log)]
    BY <1>0, <1>2, <2>1 DEF Connect
  <2>3. UNCHANGED <<subscriptions, log, handed, since, wanted, overrun, frames>>
    BY <1>2 DEF Connect
  <2> QED BY <1>0, <2>2, <2>3 DEF TypeOK, LogEntries
<1>3. ASSUME NEW c \in Conns, Leave(c)
      PROVE  TypeOK'
  <2>1. /\ Empty \in PartialOn(SubIds \ LongIds, FilterLists)
        /\ Empty \in PartialOn(SubIds, 0 .. Len(log)) /\ Empty \in PartialOn(SubIds, FilterLists)
        /\ DOMAIN Empty = {} /\ Cardinality({}) = 0
    BY EmptyIn, FS_EmptySet
  <2>2. /\ status' \in [Conns -> {"new", "open", "closed"}]
        /\ subscriptions' \in [Conns -> PartialOn(SubIds \ LongIds, FilterLists)]
        /\ since' \in [Conns -> PartialOn(SubIds, 0 .. Len(log))]
        /\ wanted' \in [Conns -> PartialOn(SubIds, FilterLists)]
    BY <1>0, <1>3, <2>1 DEF Leave
  <2>3. \A d \in Conns : subscriptions'[d] = IF d = c THEN Empty ELSE subscriptions[d]
    BY <1>0, <1>3 DEF Leave
  <2>4. \A d \in Conns : Cardinality(DOMAIN subscriptions'[d]) <= MAX_SUBS
    <3>1. Cardinality(DOMAIN Empty) <= MAX_SUBS
      BY <2>1, RelayAssumption
    <3> QED BY <1>0, <2>3, <3>1
  <2>5. UNCHANGED <<log, cursor, outgoing, joined, handed, overrun, frames>>
    BY <1>3 DEF Leave
  <2> QED BY <1>0, <2>2, <2>4, <2>5 DEF TypeOK, LogEntries
<1>4. ASSUME NEW c \in Conns, Reads(c)
      PROVE  frames' \in 0 .. MaxFrames /\ UNCHANGED <<status, cursor, joined, handed>>
  BY <1>0, <1>4, RelayAssumption DEF Reads
<1>5. ASSUME NEW c \in Conns, NEW notice \in Notices, Queue(c, notice)
      PROVE  outgoing' \in [Conns -> Seq(Notices)]
  <2>1. Append(outgoing[c], notice) \in Seq(Notices)
    BY <1>0, AppendProperties
  <2> QED BY <1>0, <1>5, <2>1 DEF Queue
<1>6. ASSUME NEW c \in Conns, NEW ev \in WireEvents, ReadEvent(c, ev)
      PROVE  TypeOK'
  <2>1. /\ frames' \in 0 .. MaxFrames
        /\ UNCHANGED <<status, cursor, joined, handed, subscriptions, since, wanted, overrun>>
    BY <1>4, <1>6 DEF ReadEvent
  <2>2. CASE Announce(c, ev)
    <3> DEFINE e == [event |-> Parsed(ev), from |-> c]
    <3>1. e \in LogEntries /\ log' = Append(log, e)
      BY <2>2 DEF Announce, LogEntries
    <3> HIDE DEF e
    <3>2. /\ log' \in Seq(LogEntries) /\ Len(log') \in Nat
          /\ cursor \in [Conns -> 1 .. Len(log') + 1]
          /\ joined \in [Conns -> -1 .. Len(log')]
          /\ handed \in [Conns -> Seq(1 .. Len(log'))]
          /\ since \in [Conns -> PartialOn(SubIds, 0 .. Len(log'))]
      BY <3>1, LongerLog
    <3>3. outgoing' \in [Conns -> Seq(Notices)]
      BY <2>2, <3>2, <1>5, NoticesIn DEF Announce
    <3> QED BY <1>0, <2>1, <3>2, <3>3 DEF TypeOK, LogEntries
  <2>3. CASE Queue(c, Refused) /\ log' = log
    <3>1. outgoing' \in [Conns -> Seq(Notices)]
      BY <2>3, <1>5, NoticesIn
    <3> QED BY <1>0, <2>1, <2>3, <3>1 DEF TypeOK, LogEntries
  <2> QED BY <1>6, <2>2, <2>3 DEF ReadEvent
<1>7. ASSUME NEW c \in Conns, NEW id \in SubIds, NEW filters \in FilterLists,
             ReadReq(c, id, filters)
      PROVE  TypeOK'
  <2>1. /\ frames' \in 0 .. MaxFrames
        /\ UNCHANGED <<status, cursor, joined, handed, log, outgoing>>
    BY <1>4, <1>7 DEF ReadReq
  <2>2. CASE id \in LongIds
    <3>1. UNCHANGED <<subscriptions, since, wanted, overrun>>
      BY <1>7, <2>2 DEF ReadReq
    <3> QED BY <1>0, <2>1, <3>1 DEF TypeOK, LogEntries
  <2>3. CASE id \notin LongIds
    <3>1. Subscribe(c, id, filters) /\ Want(c, id, filters)
      BY <1>7, <2>3 DEF ReadReq
    <3>2. /\ With(wanted[c], id, filters) \in PartialOn(SubIds, FilterLists)
          /\ With(since[c], id, Len(log)) \in PartialOn(SubIds, 0 .. Len(log))
          /\ With(subscriptions[c], id, filters) \in PartialOn(SubIds \ LongIds, FilterLists)
          /\ DOMAIN With(subscriptions[c], id, filters) = DOMAIN subscriptions[c] \cup {id}
      <4>1. /\ wanted[c] \in PartialOn(SubIds, FilterLists)
            /\ since[c] \in PartialOn(SubIds, 0 .. Len(log))
            /\ subscriptions[c] \in PartialOn(SubIds \ LongIds, FilterLists)
            /\ Len(log) \in 0 .. Len(log) /\ id \in SubIds \ LongIds
        <5>1. Len(log) \in 0 .. Len(log)
          BY <1>0
        <5> QED BY <1>0, <2>3, <5>1
      <4>2. With(wanted[c], id, filters) \in PartialOn(SubIds, FilterLists)
        BY <4>1, WithIn
      <4>3. With(since[c], id, Len(log)) \in PartialOn(SubIds, 0 .. Len(log))
        BY <4>1, WithIn
      <4>4. /\ With(subscriptions[c], id, filters) \in PartialOn(SubIds \ LongIds, FilterLists)
            /\ DOMAIN With(subscriptions[c], id, filters) = DOMAIN subscriptions[c] \cup {id}
        <5>1. With(subscriptions[c], id, filters) \in PartialOn(SubIds \ LongIds, FilterLists)
          BY <4>1, WithIn
        <5> QED BY <5>1, WithApply
      <4> QED BY <4>2, <4>3, <4>4
    <3>3. wanted' \in [Conns -> PartialOn(SubIds, FilterLists)]
      BY <1>0, <3>1, <3>2 DEF Want
    <3>4. overrun' \in [Conns -> BOOLEAN]
      <4>1. \A b \in BOOLEAN : [overrun EXCEPT ![c] = b] \in [Conns -> BOOLEAN]
        BY <1>0
      <4> QED BY <3>1, <4>1 DEF Want
    <3>5. CASE Hold(c, id, filters)
             /\ (id \in DOMAIN subscriptions[c] \/ Cardinality(DOMAIN subscriptions[c]) < MAX_SUBS)
      <4>1. /\ subscriptions' \in [Conns -> PartialOn(SubIds \ LongIds, FilterLists)]
            /\ since' \in [Conns -> PartialOn(SubIds, 0 .. Len(log))]
            /\ \A d \in Conns : subscriptions'[d] = IF d = c THEN With(subscriptions[c], id, filters)
                                                    ELSE subscriptions[d]
        BY <1>0, <3>2, <3>5 DEF Hold
      <4>2. Cardinality(DOMAIN subscriptions[c] \cup {id}) <= MAX_SUBS
        BY <3>5, Room
      <4>3. \A d \in Conns : Cardinality(DOMAIN subscriptions'[d]) <= MAX_SUBS
        BY <1>0, <3>2, <4>1, <4>2
      <4> QED BY <1>0, <2>1, <3>3, <3>4, <4>1, <4>3 DEF TypeOK, LogEntries
    <3>6. CASE UNCHANGED <<subscriptions, since>>
      BY <1>0, <2>1, <3>3, <3>4, <3>6 DEF TypeOK, LogEntries
    <3> QED BY <3>1, <3>5, <3>6 DEF Subscribe
  <2> QED BY <2>2, <2>3
<1>8. ASSUME NEW c \in Conns, NEW id \in SubIds, ReadClose(c, id)
      PROVE  TypeOK'
  <2>1. /\ frames' \in 0 .. MaxFrames
        /\ UNCHANGED <<status, cursor, joined, handed, log, outgoing, overrun>>
    BY <1>4, <1>8 DEF ReadClose
  <2>2. /\ Without(wanted[c], id) \in PartialOn(SubIds, FilterLists)
        /\ Without(since[c], id) \in PartialOn(SubIds, 0 .. Len(log))
        /\ Without(subscriptions[c], id) \in PartialOn(SubIds \ LongIds, FilterLists)
        /\ DOMAIN Without(subscriptions[c], id) = DOMAIN subscriptions[c] \ {id}
    <3>1. /\ wanted[c] \in PartialOn(SubIds, FilterLists)
          /\ since[c] \in PartialOn(SubIds, 0 .. Len(log))
          /\ subscriptions[c] \in PartialOn(SubIds \ LongIds, FilterLists)
      BY <1>0
    <3>2. Without(wanted[c], id) \in PartialOn(SubIds, FilterLists)
      BY <3>1, WithoutIn
    <3>3. Without(since[c], id) \in PartialOn(SubIds, 0 .. Len(log))
      BY <3>1, WithoutIn
    <3>4. /\ Without(subscriptions[c], id) \in PartialOn(SubIds \ LongIds, FilterLists)
          /\ DOMAIN Without(subscriptions[c], id) = DOMAIN subscriptions[c] \ {id}
      <4>1. Without(subscriptions[c], id) \in PartialOn(SubIds \ LongIds, FilterLists)
        BY <3>1, WithoutIn
      <4> QED BY <4>1, WithoutApply
    <3> QED BY <3>2, <3>3, <3>4
  <2>3. /\ subscriptions' \in [Conns -> PartialOn(SubIds \ LongIds, FilterLists)]
        /\ since' \in [Conns -> PartialOn(SubIds, 0 .. Len(log))]
        /\ wanted' \in [Conns -> PartialOn(SubIds, FilterLists)]
        /\ \A d \in Conns : subscriptions'[d] = IF d = c THEN Without(subscriptions[c], id)
                                                ELSE subscriptions[d]
    BY <1>0, <1>8, <2>2 DEF ReadClose
  <2>4. DOMAIN subscriptions[c] \subseteq SubIds
    BY <1>0, PartialDomain
  <2>5. IsFiniteSet(DOMAIN subscriptions[c]) /\ Cardinality(DOMAIN subscriptions[c]) \in Nat
    BY <2>4, RelayAssumption, FS_Subset, FS_CardinalityType
  <2>6. Cardinality(DOMAIN subscriptions[c] \ {id}) <= Cardinality(DOMAIN subscriptions[c])
    BY <2>5, RemovedNotMore
  <2>7. Cardinality(DOMAIN subscriptions[c] \ {id}) \in Nat
    BY <2>5, FS_RemoveElement, FS_CardinalityType
  <2>8. \A d \in Conns : Cardinality(DOMAIN subscriptions'[d]) <= MAX_SUBS
    <3>1. Cardinality(DOMAIN Without(subscriptions[c], id)) <= MAX_SUBS
      BY <1>0, <2>2, <2>5, <2>6, <2>7, RelayAssumption
    <3> QED BY <1>0, <2>3, <3>1
  <2> QED BY <1>0, <2>1, <2>3, <2>8 DEF TypeOK, LogEntries
<1>9. ASSUME NEW c \in Conns, Receive(c)
      PROVE  TypeOK'
  <2>1. /\ UNCHANGED <<status, subscriptions, log, joined, since, wanted, overrun, frames>>
        /\ Behind(c) > 0 /\ cursor' = [cursor EXCEPT ![c] = @ + 1]
        /\ Deliver(c, cursor[c])
    BY <1>9 DEF Receive, Receives
  <2>2. cursor[c] \in 1 .. Len(log)
    BY <1>0, <2>1 DEF Behind
  <2>3. cursor' \in [Conns -> 1 .. Len(log) + 1]
    BY <1>0, <2>1, <2>2
  <2>4. CASE UNCHANGED <<outgoing, handed>>
    BY <1>0, <2>1, <2>3, <2>4 DEF TypeOK, LogEntries
  <2>5. ASSUME NEW id \in Interested(c, log[cursor[c]].event), HandOver(c, id, cursor[c])
        PROVE  TypeOK'
    <3>1. id \in SubIds
      BY <1>0, PartialDomain DEF Interested
    <3>2. Delivery(id, cursor[c]) \in Notices
      BY <2>2, <3>1, NoticesIn
    <3>3. outgoing' \in [Conns -> Seq(Notices)]
      BY <2>5, <3>2, <1>5 DEF HandOver
    <3>4. Append(handed[c], cursor[c]) \in Seq(1 .. Len(log))
      BY <1>0, <2>2, AppendProperties
    <3>5. handed' \in [Conns -> Seq(1 .. Len(log))]
      BY <1>0, <2>5, <3>4 DEF HandOver
    <3> QED BY <1>0, <2>1, <2>3, <3>3, <3>5 DEF TypeOK, LogEntries
  <2> QED BY <2>1, <2>4, <2>5 DEF Deliver
<1>10. ASSUME NEW c \in Conns, SkipLost(c)
       PROVE  TypeOK'
  <2>1. /\ UNCHANGED <<status, subscriptions, log, joined, since, wanted, overrun, frames,
                       outgoing, handed>>
        /\ Behind(c) > CAPACITY /\ cursor' = [cursor EXCEPT ![c] = Len(log) + 1 - CAPACITY]
    BY <1>10 DEF SkipLost, Receives
  <2>2. Len(log) + 1 - CAPACITY \in 1 .. Len(log) + 1
    BY <1>0, <2>1, RelayAssumption DEF Behind
  <2>3. cursor' \in [Conns -> 1 .. Len(log) + 1]
    BY <1>0, <2>1, <2>2
  <2> QED BY <1>0, <2>1, <2>3 DEF TypeOK, LogEntries
<1>11. ASSUME NEW c \in Conns, Write(c)
       PROVE  TypeOK'
  <2>1. /\ UNCHANGED <<status, subscriptions, log, cursor, joined, handed, since, wanted, overrun,
                       frames>>
        /\ outgoing[c] # <<>> /\ outgoing' = [outgoing EXCEPT ![c] = Tail(@)]
    BY <1>11 DEF Write
  <2>2. Tail(outgoing[c]) \in Seq(Notices)
    BY <1>0, <2>1, HeadTailProperties
  <2>3. outgoing' \in [Conns -> Seq(Notices)]
    BY <1>0, <2>1, <2>2
  <2> QED BY <1>0, <2>1, <2>3 DEF TypeOK, LogEntries
<1> QED BY <1>1, <1>2, <1>3, <1>6, <1>7, <1>8, <1>9, <1>10, <1>11 DEF Next, Read

\* Every variable of the relay's connections keeps its type, and none of them ever
\* holds more than MAX_SUBS subscriptions.
THEOREM RelayTypeCorrect == Spec => []TypeOK
  BY InitTypes, NextTypes, PTL DEF Spec

-----------------------------------------------------------------------------
(* The invariant.                                                          *)

LEMMA Types ==
  ASSUME TypeOK, NEW c \in Conns
  PROVE  /\ log \in Seq(LogEntries) /\ Len(log) \in Nat
         /\ cursor[c] \in 1 .. Len(log) + 1 /\ joined[c] \in -1 .. Len(log)
         /\ outgoing[c] \in Seq(Notices) /\ handed[c] \in Seq(1 .. Len(log))
         /\ DOMAIN outgoing[c] = 1 .. Len(outgoing[c]) /\ Len(outgoing[c]) \in Nat
         /\ DOMAIN handed[c] = 1 .. Len(handed[c]) /\ Len(handed[c]) \in Nat
         /\ \A i \in DOMAIN handed[c] : handed[c][i] \in 1 .. Len(log)
         /\ DOMAIN subscriptions[c] \subseteq SubIds
         /\ since[c] \in PartialOn(SubIds, 0 .. Len(log))
         /\ \A id \in DOMAIN since[c] : since[c][id] \in 0 .. Len(log)
<1>1. /\ log \in Seq(LogEntries)
      /\ cursor[c] \in 1 .. Len(log) + 1 /\ joined[c] \in -1 .. Len(log)
      /\ outgoing[c] \in Seq(Notices) /\ handed[c] \in Seq(1 .. Len(log))
      /\ since[c] \in PartialOn(SubIds, 0 .. Len(log))
      /\ subscriptions[c] \in PartialOn(SubIds \ LongIds, FilterLists)
  BY DEF TypeOK, LogEntries
<1>2. /\ Len(log) \in Nat
      /\ DOMAIN outgoing[c] = 1 .. Len(outgoing[c]) /\ Len(outgoing[c]) \in Nat
      /\ DOMAIN handed[c] = 1 .. Len(handed[c]) /\ Len(handed[c]) \in Nat
  BY <1>1, LenProperties
<1>3. \A i \in DOMAIN handed[c] : handed[c][i] \in 1 .. Len(log)
  BY <1>1, <1>2, ElementOfSeq
<1>4. DOMAIN subscriptions[c] \subseteq SubIds
  BY <1>1, PartialDomain
<1>5. \A id \in DOMAIN since[c] : since[c][id] \in 0 .. Len(log)
  BY <1>1, PartialDomain
<1> QED BY <1>1, <1>2, <1>3, <1>4, <1>5

LEMMA InitInv == Init => IInv
<1>1. \A c \in Conns : Init => Placed(c) /\ InOrder(c) /\ Kept(c) /\ AsAsked(c)
  <2> SUFFICES ASSUME NEW c \in Conns, Init
               PROVE  Placed(c) /\ InOrder(c) /\ Kept(c) /\ AsAsked(c)
    OBVIOUS
  <2>1. DOMAIN subscriptions[c] = {} /\ DOMAIN since[c] = {} /\ DOMAIN wanted[c] = {}
    BY DEF Init, Empty
  <2>2. DOMAIN outgoing[c] = {} /\ DOMAIN handed[c] = {}
    BY EmptySeq DEF Init
  <2>3. status[c] = "new" /\ joined[c] = -1 /\ cursor[c] = 1
    BY DEF Init
  <2> QED BY <2>1, <2>2, <2>3 DEF Placed, InOrder, Kept, AsAsked
<1> QED BY <1>1, InitTypes DEF IInv

\* One event more takes nothing away from what a connection has.
LEMMA KeptWhenLonger ==
  ASSUME TypeOK, NEW d \in Conns, Kept(d), AsAsked(d),
         log' = log \/ \E e \in LogEntries : log' = Append(log, e),
         subscriptions'[d] = subscriptions[d], since'[d] = since[d],
         cursor'[d] = cursor[d], handed'[d] = handed[d]
  PROVE  Kept(d)'
<1>1. CASE log' = log
  BY <1>1 DEF Kept
<1>2. ASSUME NEW e \in LogEntries, log' = Append(log, e)
      PROVE  Kept(d)'
  <2>1. /\ Len(log) \in Nat /\ Len(log') = Len(log) + 1
        /\ \A n \in 1 .. Len(log) : log'[n] = log[n]
    BY <1>2, LongerLog
  <2>2. cursor[d] \in 1 .. Len(log) + 1 /\ \A id \in DOMAIN since[d] : since[d][id] \in 0 .. Len(log)
    BY Types
  <2> SUFFICES ASSUME NEW id \in DOMAIN subscriptions[d],
                      NEW n \in since[d][id] + 1 .. cursor[d] - 1,
                      IsInterested(subscriptions[d][id], log'[n].event),
                      n > Len(log') - CAPACITY
               PROVE  \E i \in DOMAIN handed[d] : handed[d][i] = n
    BY DEF Kept
  <2>3. since[d][id] \in 0 .. Len(log)
    BY <2>2 DEF AsAsked
  <2>4. n \in 1 .. Len(log) /\ n > Len(log) - CAPACITY
    BY <2>1, <2>2, <2>3, RelayAssumption
  <2> QED BY <2>1, <2>4 DEF Kept
<1> QED BY <1>1, <1>2

\* Another connection's step.
LEMMA Unmoved ==
  ASSUME TypeOK, NEW d \in Conns, Placed(d), InOrder(d), Kept(d), AsAsked(d),
         log' = log \/ \E e \in LogEntries : log' = Append(log, e),
         status'[d] = status[d], subscriptions'[d] = subscriptions[d],
         cursor'[d] = cursor[d], outgoing'[d] = outgoing[d], joined'[d] = joined[d],
         handed'[d] = handed[d], since'[d] = since[d], wanted'[d] = wanted[d],
         overrun'[d] = overrun[d]
  PROVE  Placed(d)' /\ InOrder(d)' /\ Kept(d)' /\ AsAsked(d)'
<1>1. Placed(d)'
  BY DEF Placed
<1>2. InOrder(d)'
  BY DEF InOrder, Is
<1>3. AsAsked(d)'
  BY DEF AsAsked
<1>4. Kept(d)'
  BY KeptWhenLonger
<1> QED BY <1>1, <1>2, <1>3, <1>4

\* A notice at the end of the queue: an answer to an event that is not waiting in it,
\* or a delivery from the place the connection is at.
LEMMA QueueInOrder ==
  ASSUME TypeOK, NEW c \in Conns, InOrder(c), NEW notice \in Notices, Queue(c, notice),
         \/ /\ notice.type = "OK" /\ cursor'[c] = cursor[c]
            /\ notice.event = 0 \/ notice.event = Len(log) + 1
         \/ /\ notice.type = "EVENT" /\ notice.event = cursor[c]
            /\ cursor'[c] = cursor[c] + 1
  PROVE  InOrder(c)'
<1> DEFINE last == Len(outgoing[c]) + 1
<1>1. /\ outgoing[c] \in Seq(Notices) /\ Len(outgoing[c]) \in Nat
      /\ DOMAIN outgoing[c] = 1 .. Len(outgoing[c])
      /\ cursor[c] \in 1 .. Len(log) + 1 /\ Len(log) \in Nat
  BY Types
<1>2. outgoing'[c] = Append(outgoing[c], notice)
  BY DEF Queue, TypeOK
<1>3. /\ DOMAIN outgoing'[c] = 1 .. last
      /\ \A i \in 1 .. Len(outgoing[c]) : outgoing'[c][i] = outgoing[c][i]
      /\ outgoing'[c][last] = notice
  BY <1>1, <1>2, Appended
<1>4. \A i \in 1 .. last : i # last => i \in DOMAIN outgoing[c] /\ outgoing'[c][i] = outgoing[c][i]
  BY <1>1, <1>3
<1>5. \A i \in 1 .. last : i # last /\ outgoing'[c][i].type = "EVENT"
          => outgoing'[c][i].event \in 1 .. cursor[c] - 1
  BY <1>4 DEF InOrder
<1>6. ASSUME NEW i \in 1 .. last, outgoing'[c][i].type = "EVENT"
      PROVE  outgoing'[c][i].event \in 1 .. cursor'[c] - 1
  <2>1. cursor'[c] \in {cursor[c], cursor[c] + 1}
    OBVIOUS
  <2>2. CASE i # last
    <3>1. outgoing'[c][i].event \in 1 .. cursor[c] - 1
      BY <1>5, <1>6, <2>2
    <3> QED BY <1>1, <2>1, <3>1
  <2>3. CASE i = last
    <3>1. outgoing'[c][i] = notice
      BY <1>3, <2>3
    <3>2. notice.type # "OK"
      BY <1>6, <3>1
    <3>3. notice.event = cursor[c] /\ cursor'[c] = cursor[c] + 1
      BY <3>2
    <3> QED BY <1>1, <3>1, <3>3
  <2> QED BY <2>2, <2>3
<1>7. ASSUME NEW i \in 1 .. last, NEW j \in 1 .. last, i < j, outgoing'[c][i].type = "EVENT"
      PROVE  /\ outgoing'[c][j].type = "EVENT" => outgoing'[c][i].event < outgoing'[c][j].event
             /\ ~Is(outgoing'[c][j], "OK", outgoing'[c][i].event)
  <2>1. i # last
    BY <1>1, <1>7
  <2>2. CASE j # last
    BY <1>4, <1>7, <2>1, <2>2 DEF InOrder
  <2>3. CASE j = last
    <3>1. outgoing'[c][i].event \in 1 .. cursor[c] - 1
      BY <1>5, <1>7, <2>1
    <3>2. outgoing'[c][j] = notice
      BY <1>3, <2>3
    <3>3. notice.type = "EVENT" => outgoing'[c][i].event < notice.event
      BY <1>1, <3>1
    <3>4. notice.type = "OK" => notice.event # outgoing'[c][i].event
      BY <1>1, <3>1
    <3> QED BY <3>2, <3>3, <3>4 DEF Is
  <2> QED BY <2>2, <2>3
<1> HIDE DEF last
<1> QED BY <1>3, <1>6, <1>7 DEF InOrder, Is

LEMMA ConnectInv ==
  ASSUME IInv, TypeOK', NEW c \in Conns, Connect(c)
  PROVE  IInv'
<1>0. TypeOK /\ \A d \in Conns : Placed(d) /\ InOrder(d) /\ Kept(d) /\ AsAsked(d)
  BY DEF IInv
<1>1. ASSUME NEW d \in Conns, d # c
      PROVE  Placed(d)' /\ InOrder(d)' /\ Kept(d)' /\ AsAsked(d)'
  BY <1>0, <1>1, Unmoved DEF Connect, TypeOK
<1>2. /\ status[c] = "new" /\ status'[c] = "open" /\ cursor'[c] = Len(log) + 1
      /\ joined'[c] = Len(log) /\ outgoing'[c] = <<Auth>>
      /\ UNCHANGED <<subscriptions, log, handed, since, wanted, overrun>>
  BY <1>0 DEF Connect, TypeOK
<1>3. /\ Len(log) \in Nat /\ DOMAIN subscriptions[c] = {}
      /\ \A i \in DOMAIN handed[c] : handed[c][i] \in 1 .. Len(log)
  BY <1>0, <1>2, Types DEF Placed
<1>4. Placed(c)'
  BY <1>2, <1>3 DEF Placed
<1>5. InOrder(c)'
  <2>1. DOMAIN <<Auth>> = 1 .. 1 /\ \A i \in 1 .. 1 : <<Auth>>[i].type = "AUTH"
    BY NoticesIn
  <2>2. "AUTH" # "EVENT"
    OBVIOUS
  <2> QED BY <1>2, <2>1, <2>2 DEF InOrder
<1>6. Kept(c)' /\ AsAsked(c)'
  BY <1>0, <1>2, <1>3 DEF Kept, AsAsked
<1> QED BY <1>1, <1>4, <1>5, <1>6 DEF IInv

LEMMA LeaveInv ==
  ASSUME IInv, TypeOK', NEW c \in Conns, Leave(c)
  PROVE  IInv'
<1>0. TypeOK /\ \A d \in Conns : Placed(d) /\ InOrder(d) /\ Kept(d) /\ AsAsked(d)
  BY DEF IInv
<1>1. ASSUME NEW d \in Conns, d # c
      PROVE  Placed(d)' /\ InOrder(d)' /\ Kept(d)' /\ AsAsked(d)'
  BY <1>0, <1>1, Unmoved DEF Leave, TypeOK
<1>2. /\ status[c] = "open" /\ status'[c] = "closed"
      /\ subscriptions'[c] = Empty /\ since'[c] = Empty /\ wanted'[c] = Empty
      /\ UNCHANGED <<log, cursor, outgoing, joined, handed, overrun>>
  BY <1>0 DEF Leave, TypeOK
<1>3. DOMAIN Empty = {}
  BY DEF Empty
<1>4. Placed(c)' /\ InOrder(c)' /\ Kept(c)' /\ AsAsked(c)'
  BY <1>0, <1>2, <1>3 DEF Placed, InOrder, Kept, AsAsked, Is
<1> QED BY <1>1, <1>4 DEF IInv

LEMMA ReadEventInv ==
  ASSUME IInv, TypeOK', NEW c \in Conns, NEW ev \in WireEvents, ReadEvent(c, ev)
  PROVE  IInv'
<1>0. TypeOK /\ \A d \in Conns : Placed(d) /\ InOrder(d) /\ Kept(d) /\ AsAsked(d)
  BY DEF IInv
<1>1. UNCHANGED <<status, cursor, joined, handed, subscriptions, since, wanted, overrun>>
  BY DEF ReadEvent, Reads
<1>2. /\ log' = log \/ \E e \in LogEntries : log' = Append(log, e)
      /\ \/ Queue(c, Saved(Len(log) + 1))
         \/ Queue(c, Refused)
  <2>1. CASE Announce(c, ev)
    <3> DEFINE e == [event |-> Parsed(ev), from |-> c]
    <3>1. e \in LogEntries /\ log' = Append(log, e) /\ Queue(c, Saved(Len(log')))
      BY <2>1 DEF Announce, LogEntries
    <3> HIDE DEF e
    <3>2. Len(log') = Len(log) + 1
      BY <1>0, <3>1, LongerLog
    <3> QED BY <3>1, <3>2
  <2>2. CASE Queue(c, Refused) /\ log' = log
    BY <2>2
  <2> QED BY <2>1, <2>2 DEF ReadEvent
<1>3. \A d \in Conns : d # c => outgoing'[d] = outgoing[d]
  BY <1>0, <1>2 DEF Queue, TypeOK
<1>4. ASSUME NEW d \in Conns, d # c
      PROVE  Placed(d)' /\ InOrder(d)' /\ Kept(d)' /\ AsAsked(d)'
  BY <1>0, <1>1, <1>2, <1>3, <1>4, Unmoved
<1>5. Len(log) + 1 \in Nat
  BY <1>0, Types
<1>6. InOrder(c)'
  <2>1. CASE Queue(c, Saved(Len(log) + 1))
    BY <1>0, <1>1, <1>5, <2>1, QueueInOrder, NoticesIn
  <2>2. CASE Queue(c, Refused)
    BY <1>0, <1>1, <2>2, QueueInOrder, NoticesIn
  <2> QED BY <1>2, <2>1, <2>2
<1>7. Kept(c)'
  BY <1>0, <1>1, <1>2, KeptWhenLonger
<1>8. Placed(c)' /\ AsAsked(c)'
  BY <1>0, <1>1 DEF Placed, AsAsked
<1> QED BY <1>4, <1>6, <1>7, <1>8 DEF IInv

\* A refused REQ means that more than MAX_SUBS ids are wanted.
LEMMA ReadReqInv ==
  ASSUME IInv, TypeOK', NEW c \in Conns, NEW id \in SubIds, NEW filters \in FilterLists,
         ReadReq(c, id, filters)
  PROVE  IInv'
<1>0. TypeOK /\ \A d \in Conns : Placed(d) /\ InOrder(d) /\ Kept(d) /\ AsAsked(d)
  BY DEF IInv
<1>1. /\ UNCHANGED <<status, cursor, joined, handed, log, outgoing>>
      /\ status[c] = "open"
  BY DEF ReadReq, Reads
<1>2. CASE id \in LongIds
  <2>1. UNCHANGED <<subscriptions, since, wanted, overrun>>
    BY <1>2 DEF ReadReq
  <2> QED BY <1>0, <1>1, <2>1, Unmoved DEF IInv
<1>3. CASE id \notin LongIds
  <2>1. Subscribe(c, id, filters) /\ Want(c, id, filters)
    BY <1>3 DEF ReadReq
  <2>2. \A d \in Conns : d # c => /\ wanted'[d] = wanted[d] /\ overrun'[d] = overrun[d]
                                  /\ subscriptions'[d] = subscriptions[d]
                                  /\ since'[d] = since[d]
    <3>1. \A d \in Conns : d # c => wanted'[d] = wanted[d] /\ overrun'[d] = overrun[d]
      BY <1>0, <2>1 DEF Want, TypeOK
    <3>2. Hold(c, id, filters) \/ UNCHANGED <<subscriptions, since>>
      BY <2>1 DEF Subscribe
    <3>3. \A d \in Conns : d # c => subscriptions'[d] = subscriptions[d] /\ since'[d] = since[d]
      BY <1>0, <3>2 DEF Hold, TypeOK
    <3> QED BY <3>1, <3>3
  <2>3. ASSUME NEW d \in Conns, d # c
        PROVE  Placed(d)' /\ InOrder(d)' /\ Kept(d)' /\ AsAsked(d)'
    BY <1>0, <1>1, <2>2, <2>3, Unmoved
  <2>4. /\ wanted'[c] = With(wanted[c], id, filters)
        /\ overrun'[c] = (overrun[c] \/ Cardinality(DOMAIN wanted'[c]) > MAX_SUBS)
    <3>1. wanted'[c] = With(wanted[c], id, filters)
      BY <1>0, <2>1 DEF Want, TypeOK
    <3>2. overrun'[c] = (overrun[c] \/ Cardinality(DOMAIN wanted'[c]) > MAX_SUBS)
      <4>1. overrun' = [overrun EXCEPT ![c] = @ \/ Cardinality(DOMAIN wanted'[c]) > MAX_SUBS]
        BY <2>1 DEF Want
      <4>2. overrun \in [Conns -> BOOLEAN]
        BY <1>0 DEF TypeOK
      <4> QED BY <4>1, <4>2
    <3> QED BY <3>1, <3>2
  <2>5. /\ DOMAIN wanted'[c] = DOMAIN wanted[c] \cup {id}
        /\ wanted'[c][id] = filters
        /\ \A i \in DOMAIN wanted[c] : i # id => wanted'[c][i] = wanted[c][i]
    BY <2>4 DEF With
  <2>6. InOrder(c)'
    BY <1>0, <1>1 DEF InOrder, Is
  <2>7. CASE Hold(c, id, filters)
    <3>1. /\ subscriptions'[c] = With(subscriptions[c], id, filters)
          /\ since'[c] = With(since[c], id, Len(log))
      BY <1>0, <2>7 DEF Hold, TypeOK
    <3>2. /\ DOMAIN subscriptions'[c] = DOMAIN subscriptions[c] \cup {id}
          /\ subscriptions'[c][id] = filters
          /\ \A i \in DOMAIN subscriptions[c] : i # id => subscriptions'[c][i] = subscriptions[c][i]
      BY <3>1 DEF With
    <3>3. /\ DOMAIN since'[c] = DOMAIN since[c] \cup {id}
          /\ since'[c][id] = Len(log)
          /\ \A i \in DOMAIN since[c] : i # id => since'[c][i] = since[c][i]
      BY <3>1 DEF With
    <3>4. AsAsked(c)'
      <4>1. DOMAIN since'[c] = DOMAIN subscriptions'[c]
        BY <1>0, <3>2, <3>3 DEF AsAsked
      <4>2. \A i \in DOMAIN subscriptions'[c] :
               i \in DOMAIN wanted'[c] /\ wanted'[c][i] = subscriptions'[c][i]
        BY <1>0, <2>5, <3>2 DEF AsAsked
      <4>3. ~overrun'[c] => DOMAIN wanted'[c] \subseteq DOMAIN subscriptions'[c]
        BY <1>0, <2>4, <2>5, <3>2 DEF AsAsked
      <4> QED BY <4>1, <4>2, <4>3 DEF AsAsked
    <3>5. Kept(c)'
      <4> SUFFICES ASSUME NEW i \in DOMAIN subscriptions'[c],
                          NEW n \in since'[c][i] + 1 .. cursor[c] - 1,
                          IsInterested(subscriptions'[c][i], log[n].event),
                          n > Len(log) - CAPACITY
                   PROVE  \E k \in DOMAIN handed[c] : handed[c][k] = n
        BY <1>1 DEF Kept
      <4>1. cursor[c] \in 1 .. Len(log) + 1 /\ Len(log) \in Nat
        BY <1>0, Types
      <4>2. i # id
        BY <3>3, <4>1
      <4>3. i \in DOMAIN subscriptions[c] /\ i \in DOMAIN since[c]
        BY <1>0, <3>2, <4>2 DEF AsAsked
      <4> QED BY <1>0, <3>2, <3>3, <4>2, <4>3 DEF Kept
    <3>6. status'[c] # "new"
      BY <1>1
    <3>7. Placed(c)'
      BY <1>0, <1>1, <3>6 DEF Placed
    <3> QED BY <2>3, <2>6, <3>4, <3>5, <3>7 DEF IInv
  <2>8. CASE /\ UNCHANGED <<subscriptions, since>>
             /\ id \notin DOMAIN subscriptions[c]
             /\ ~(Cardinality(DOMAIN subscriptions[c]) < MAX_SUBS)
    <3>1. Kept(c)'
      BY <1>0, <1>1, <2>8 DEF Kept
    <3>2. overrun'[c]
      <4> SUFFICES ASSUME ~overrun[c]
                   PROVE  Cardinality(DOMAIN wanted'[c]) > MAX_SUBS
        BY <2>4
      <4>1. DOMAIN wanted[c] = DOMAIN subscriptions[c]
        BY <1>0 DEF AsAsked
      <4>2. DOMAIN subscriptions[c] \subseteq SubIds
        BY <1>0, Types
      <4>3. IsFiniteSet(DOMAIN subscriptions[c]) /\ Cardinality(DOMAIN subscriptions[c]) \in Nat
        BY <4>2, RelayAssumption, FS_Subset, FS_CardinalityType
      <4>4. Cardinality(DOMAIN subscriptions[c] \cup {id}) = Cardinality(DOMAIN subscriptions[c]) + 1
        BY <2>8, <4>3, FS_AddElement
      <4>5. Cardinality(DOMAIN wanted'[c]) = Cardinality(DOMAIN subscriptions[c]) + 1
        BY <2>5, <4>1, <4>4
      <4> QED BY <2>8, <4>3, <4>5, RelayAssumption
    <3>3. AsAsked(c)'
      <4>1. DOMAIN since'[c] = DOMAIN subscriptions'[c]
        BY <1>0, <2>8 DEF AsAsked
      <4>2. \A i \in DOMAIN subscriptions[c] :
               i \in DOMAIN wanted'[c] /\ wanted'[c][i] = subscriptions[c][i]
        BY <1>0, <2>5, <2>8 DEF AsAsked
      <4> QED BY <2>8, <3>2, <4>1, <4>2 DEF AsAsked
    <3>4. Placed(c)'
      BY <1>0, <1>1, <2>8 DEF Placed
    <3> QED BY <2>3, <2>6, <3>1, <3>3, <3>4 DEF IInv
  <2> QED BY <2>1, <2>7, <2>8 DEF Subscribe
<1> QED BY <1>2, <1>3

LEMMA ReadCloseInv ==
  ASSUME IInv, TypeOK', NEW c \in Conns, NEW id \in SubIds, ReadClose(c, id)
  PROVE  IInv'
<1>0. TypeOK /\ \A d \in Conns : Placed(d) /\ InOrder(d) /\ Kept(d) /\ AsAsked(d)
  BY DEF IInv
<1>1. UNCHANGED <<status, cursor, joined, handed, log, outgoing, overrun>> /\ status[c] = "open"
  BY DEF ReadClose, Reads
<1>2. /\ subscriptions'[c] = Without(subscriptions[c], id)
      /\ since'[c] = Without(since[c], id)
      /\ wanted'[c] = Without(wanted[c], id)
      /\ \A d \in Conns : d # c => /\ subscriptions'[d] = subscriptions[d]
                                   /\ since'[d] = since[d] /\ wanted'[d] = wanted[d]
  BY <1>0 DEF ReadClose, TypeOK
<1>3. ASSUME NEW d \in Conns, d # c
      PROVE  Placed(d)' /\ InOrder(d)' /\ Kept(d)' /\ AsAsked(d)'
  BY <1>0, <1>1, <1>2, <1>3, Unmoved
<1>4. /\ DOMAIN subscriptions'[c] = DOMAIN subscriptions[c] \ {id}
      /\ \A i \in DOMAIN subscriptions[c] \ {id} : subscriptions'[c][i] = subscriptions[c][i]
  BY <1>2 DEF Without
<1>5. /\ DOMAIN since'[c] = DOMAIN since[c] \ {id}
      /\ \A i \in DOMAIN since[c] \ {id} : since'[c][i] = since[c][i]
  BY <1>2 DEF Without
<1>6. /\ DOMAIN wanted'[c] = DOMAIN wanted[c] \ {id}
      /\ \A i \in DOMAIN wanted[c] \ {id} : wanted'[c][i] = wanted[c][i]
  BY <1>2 DEF Without
<1>7. InOrder(c)' /\ Placed(c)'
  BY <1>0, <1>1 DEF InOrder, Placed, Is
<1>8. AsAsked(c)'
  <2>1. DOMAIN since'[c] = DOMAIN subscriptions'[c]
    BY <1>0, <1>4, <1>5 DEF AsAsked
  <2>2. \A i \in DOMAIN subscriptions'[c] :
           i \in DOMAIN wanted'[c] /\ wanted'[c][i] = subscriptions'[c][i]
    BY <1>0, <1>4, <1>6 DEF AsAsked
  <2>3. ~overrun'[c] => DOMAIN wanted'[c] \subseteq DOMAIN subscriptions'[c]
    BY <1>0, <1>1, <1>4, <1>6 DEF AsAsked
  <2> QED BY <2>1, <2>2, <2>3 DEF AsAsked
<1>9. Kept(c)'
  <2> SUFFICES ASSUME NEW i \in DOMAIN subscriptions'[c],
                      NEW n \in since'[c][i] + 1 .. cursor[c] - 1,
                      IsInterested(subscriptions'[c][i], log[n].event),
                      n > Len(log) - CAPACITY
               PROVE  \E k \in DOMAIN handed[c] : handed[c][k] = n
    BY <1>1 DEF Kept
  <2>1. i \in DOMAIN subscriptions[c] \ {id} /\ i \in DOMAIN since[c] \ {id}
    BY <1>0, <1>4 DEF AsAsked
  <2> QED BY <1>0, <1>4, <1>5, <2>1 DEF Kept
<1> QED BY <1>3, <1>7, <1>8, <1>9 DEF IInv

\* What Deliver does: a subscription that is interested, if there is one, gets the event.
LEMMA DeliverSteps ==
  ASSUME TypeOK, NEW c \in Conns, Receive(c)
  PROVE  /\ UNCHANGED <<status, subscriptions, log, joined, since, wanted, overrun>>
         /\ status[c] = "open" /\ cursor[c] \in 1 .. Len(log) /\ Len(log) \in Nat
         /\ cursor' = [cursor EXCEPT ![c] = @ + 1]
         /\ \/ Interested(c, log[cursor[c]].event) = {} /\ UNCHANGED <<outgoing, handed>>
            \/ \E id \in SubIds : HandOver(c, id, cursor[c])
<1>1. /\ UNCHANGED <<status, subscriptions, log, joined, since, wanted, overrun>>
      /\ status[c] = "open" /\ Behind(c) > 0
      /\ cursor' = [cursor EXCEPT ![c] = @ + 1]
      /\ Deliver(c, cursor[c])
  BY DEF Receive, Receives
<1>2. cursor[c] \in 1 .. Len(log) /\ Len(log) \in Nat
  BY <1>1, Types DEF Behind
<1>3. Interested(c, log[cursor[c]].event) \subseteq SubIds
  BY Types DEF Interested
<1> QED BY <1>1, <1>2, <1>3 DEF Deliver

LEMMA ReceiveInv ==
  ASSUME IInv, TypeOK', NEW c \in Conns, Receive(c)
  PROVE  IInv'
<1>0. TypeOK /\ \A d \in Conns : Placed(d) /\ InOrder(d) /\ Kept(d) /\ AsAsked(d)
  BY DEF IInv
<1>1. /\ UNCHANGED <<status, subscriptions, log, joined, since, wanted, overrun>>
      /\ status[c] = "open" /\ cursor[c] \in 1 .. Len(log) /\ Len(log) \in Nat
      /\ cursor' = [cursor EXCEPT ![c] = @ + 1]
      /\ \/ Interested(c, log[cursor[c]].event) = {} /\ UNCHANGED <<outgoing, handed>>
         \/ \E id \in SubIds : HandOver(c, id, cursor[c])
  BY <1>0, DeliverSteps
<1>2. /\ cursor'[c] = cursor[c] + 1
      /\ \A d \in Conns : d # c => cursor'[d] = cursor[d]
  BY <1>0, <1>1 DEF TypeOK
<1>3. AsAsked(c)'
  BY <1>0, <1>1 DEF AsAsked
<1>4. handed[c] \in Seq(1 .. Len(log)) /\ DOMAIN handed[c] = 1 .. Len(handed[c])
      /\ Len(handed[c]) \in Nat
      /\ joined[c] \in -1 .. Len(log)
      /\ \A i \in DOMAIN handed[c] : handed[c][i] \in 1 .. Len(log)
  BY <1>0, Types
<1>5. \A i \in DOMAIN since[c] : since[c][i] \in 0 .. Len(log)
  BY <1>0, Types
<1>6. CASE Interested(c, log[cursor[c]].event) = {} /\ UNCHANGED <<outgoing, handed>>
  <2>1. ASSUME NEW d \in Conns, d # c
        PROVE  Placed(d)' /\ InOrder(d)' /\ Kept(d)' /\ AsAsked(d)'
    BY <1>0, <1>1, <1>2, <1>6, <2>1, Unmoved
  <2>2. Placed(c)'
    <3>1. joined[c] < cursor[c] + 1
      BY <1>0, <1>1, <1>4 DEF Placed
    <3>2. \A i \in DOMAIN handed[c] : handed[c][i] < cursor[c] + 1
      BY <1>0, <1>1, <1>4 DEF Placed
    <3> QED BY <1>0, <1>1, <1>2, <1>6, <3>1, <3>2 DEF Placed
  <2>3. InOrder(c)'
    <3>1. 1 .. cursor[c] - 1 \subseteq 1 .. cursor'[c] - 1
      BY <1>1, <1>2
    <3> QED BY <1>0, <1>6, <3>1 DEF InOrder, Is
  <2>4. Kept(c)'
    <3> SUFFICES ASSUME NEW id \in DOMAIN subscriptions[c],
                        NEW n \in since[c][id] + 1 .. cursor'[c] - 1,
                        IsInterested(subscriptions[c][id], log[n].event),
                        n > Len(log) - CAPACITY
                 PROVE  \E i \in DOMAIN handed[c] : handed[c][i] = n
      BY <1>1, <1>6 DEF Kept
    <3>1. since[c][id] \in 0 .. Len(log)
      BY <1>0, <1>5 DEF AsAsked
    <3>2. n # cursor[c]
      BY <1>6 DEF Interested
    <3>3. n \in since[c][id] + 1 .. cursor[c] - 1
      BY <1>1, <1>2, <3>1, <3>2
    <3> QED BY <1>0, <3>3 DEF Kept
  <2> QED BY <1>3, <2>1, <2>2, <2>3, <2>4 DEF IInv
<1>7. ASSUME NEW id \in SubIds, HandOver(c, id, cursor[c])
      PROVE  IInv'
  <2>1. /\ Queue(c, Delivery(id, cursor[c]))
        /\ handed'[c] = Append(handed[c], cursor[c])
        /\ \A d \in Conns : d # c => handed'[d] = handed[d] /\ outgoing'[d] = outgoing[d]
    BY <1>0, <1>7 DEF HandOver, Queue, TypeOK
  <2>2. ASSUME NEW d \in Conns, d # c
        PROVE  Placed(d)' /\ InOrder(d)' /\ Kept(d)' /\ AsAsked(d)'
    BY <1>0, <1>1, <1>2, <2>1, <2>2, Unmoved
  <2>3. /\ DOMAIN handed'[c] = 1 .. Len(handed[c]) + 1
        /\ \A i \in 1 .. Len(handed[c]) : handed'[c][i] = handed[c][i]
        /\ handed'[c][Len(handed[c]) + 1] = cursor[c]
    BY <1>1, <1>4, <2>1, Appended
  <2>4. Placed(c)'
    <3>1. joined[c] < cursor[c] + 1
      BY <1>0, <1>1, <1>4 DEF Placed
    <3>2. \A i \in DOMAIN handed'[c] : handed'[c][i] < cursor[c] + 1
      <4> SUFFICES ASSUME NEW i \in DOMAIN handed'[c]
                   PROVE  handed'[c][i] < cursor[c] + 1
        OBVIOUS
      <4>1. CASE i = Len(handed[c]) + 1
        BY <1>1, <2>3, <4>1
      <4>2. CASE i # Len(handed[c]) + 1
        <5>1. i \in DOMAIN handed[c] /\ handed'[c][i] = handed[c][i]
          BY <1>4, <2>3, <4>2
        <5> QED BY <1>0, <1>1, <1>4, <5>1 DEF Placed
      <4> QED BY <4>1, <4>2
    <3> QED BY <1>0, <1>1, <1>2, <3>1, <3>2 DEF Placed
  <2>5. InOrder(c)'
    <3>1. Delivery(id, cursor[c]) \in Notices /\ Delivery(id, cursor[c]).type = "EVENT"
          /\ Delivery(id, cursor[c]).event = cursor[c]
      BY <1>1, NoticesIn
    <3> QED BY <1>0, <1>2, <2>1, <3>1, QueueInOrder
  <2>6. Kept(c)'
    <3> SUFFICES ASSUME NEW k \in DOMAIN subscriptions[c],
                        NEW n \in since[c][k] + 1 .. cursor'[c] - 1,
                        IsInterested(subscriptions[c][k], log[n].event),
                        n > Len(log) - CAPACITY
                 PROVE  \E i \in DOMAIN handed'[c] : handed'[c][i] = n
      BY <1>1 DEF Kept
    <3>1. since[c][k] \in 0 .. Len(log)
      BY <1>0, <1>5 DEF AsAsked
    <3>2. CASE n = cursor[c]
      <4>1. Len(handed[c]) + 1 \in DOMAIN handed'[c]
        BY <1>4, <2>3
      <4> QED BY <2>3, <3>2, <4>1
    <3>3. CASE n # cursor[c]
      <4>1. n \in since[c][k] + 1 .. cursor[c] - 1
        BY <1>1, <1>2, <3>1, <3>3
      <4>2. PICK i \in DOMAIN handed[c] : handed[c][i] = n
        BY <1>0, <4>1 DEF Kept
      <4>3. i \in DOMAIN handed'[c] /\ handed'[c][i] = n
        BY <1>4, <2>3, <4>2
      <4> QED BY <4>3
    <3> QED BY <3>2, <3>3
  <2> QED BY <1>3, <2>2, <2>4, <2>5, <2>6 DEF IInv
<1> QED BY <1>1, <1>6, <1>7

\* What is skipped is older than the CAPACITY newest.
LEMMA SkipLostInv ==
  ASSUME IInv, TypeOK', NEW c \in Conns, SkipLost(c)
  PROVE  IInv'
<1>0. TypeOK /\ \A d \in Conns : Placed(d) /\ InOrder(d) /\ Kept(d) /\ AsAsked(d)
  BY DEF IInv
<1>1. /\ UNCHANGED <<status, subscriptions, log, joined, since, wanted, overrun, outgoing, handed>>
      /\ Behind(c) > CAPACITY /\ cursor' = [cursor EXCEPT ![c] = Len(log) + 1 - CAPACITY]
  BY DEF SkipLost, Receives
<1>2. /\ cursor'[c] = Len(log) + 1 - CAPACITY
      /\ \A d \in Conns : d # c => cursor'[d] = cursor[d]
  BY <1>0, <1>1 DEF TypeOK
<1>3. ASSUME NEW d \in Conns, d # c
      PROVE  Placed(d)' /\ InOrder(d)' /\ Kept(d)' /\ AsAsked(d)'
  BY <1>0, <1>1, <1>2, <1>3, Unmoved
<1>4. /\ Len(log) \in Nat /\ cursor[c] \in 1 .. Len(log) + 1 /\ joined[c] \in -1 .. Len(log)
      /\ \A i \in DOMAIN handed[c] : handed[c][i] \in 1 .. Len(log)
      /\ \A id \in DOMAIN since[c] : since[c][id] \in 0 .. Len(log)
  BY <1>0, Types
<1>5. cursor[c] < cursor'[c] /\ cursor'[c] \in Int
  BY <1>1, <1>2, <1>4, RelayAssumption DEF Behind
<1>6. Placed(c)'
  <2>1. joined[c] < cursor'[c]
    BY <1>0, <1>4, <1>5 DEF Placed
  <2>2. \A i \in DOMAIN handed[c] : handed[c][i] < cursor'[c]
    BY <1>0, <1>4, <1>5 DEF Placed
  <2> QED BY <1>0, <1>1, <2>1, <2>2 DEF Placed
<1>7. InOrder(c)'
  <2>1. 1 .. cursor[c] - 1 \subseteq 1 .. cursor'[c] - 1
    BY <1>4, <1>5
  <2> QED BY <1>0, <1>1, <2>1 DEF InOrder, Is
<1>8. Kept(c)'
  <2> SUFFICES ASSUME NEW id \in DOMAIN subscriptions[c],
                      NEW n \in since[c][id] + 1 .. cursor'[c] - 1,
                      n > Len(log) - CAPACITY
               PROVE  FALSE
    BY <1>1 DEF Kept
  <2>1. since[c][id] \in 0 .. Len(log)
    BY <1>0, <1>4 DEF AsAsked
  <2> QED BY <1>2, <1>4, <2>1, RelayAssumption
<1>9. AsAsked(c)'
  BY <1>0, <1>1 DEF AsAsked
<1> QED BY <1>3, <1>6, <1>7, <1>8, <1>9 DEF IInv

LEMMA WriteInv ==
  ASSUME IInv, TypeOK', NEW c \in Conns, Write(c)
  PROVE  IInv'
<1>0. TypeOK /\ \A d \in Conns : Placed(d) /\ InOrder(d) /\ Kept(d) /\ AsAsked(d)
  BY DEF IInv
<1>1. /\ UNCHANGED <<status, subscriptions, log, cursor, joined, handed, since, wanted, overrun>>
      /\ outgoing[c] # <<>> /\ outgoing'[c] = Tail(outgoing[c])
      /\ \A d \in Conns : d # c => outgoing'[d] = outgoing[d]
  BY <1>0 DEF Write, TypeOK
<1>2. ASSUME NEW d \in Conns, d # c
      PROVE  Placed(d)' /\ InOrder(d)' /\ Kept(d)' /\ AsAsked(d)'
  BY <1>0, <1>1, <1>2, Unmoved
<1>3. /\ outgoing[c] \in Seq(Notices) /\ Len(outgoing[c]) \in Nat
      /\ DOMAIN outgoing[c] = 1 .. Len(outgoing[c])
  BY <1>0, Types
<1>4. /\ Tail(outgoing[c]) \in Seq(Notices)
      /\ Len(Tail(outgoing[c])) = Len(outgoing[c]) - 1
      /\ \A i \in 1 .. Len(Tail(outgoing[c])) : Tail(outgoing[c])[i] = outgoing[c][i + 1]
  BY <1>1, <1>3, HeadTailProperties
<1>5. DOMAIN Tail(outgoing[c]) = 1 .. Len(outgoing[c]) - 1
  BY <1>4, LenProperties
<1>6. ASSUME NEW i \in DOMAIN outgoing'[c]
      PROVE  /\ i + 1 \in DOMAIN outgoing[c] /\ i \in Int
             /\ outgoing'[c][i] = outgoing[c][i + 1]
  BY <1>1, <1>3, <1>4, <1>5
<1>7. InOrder(c)'
  <2>1. ASSUME NEW i \in DOMAIN outgoing'[c], outgoing'[c][i].type = "EVENT"
        PROVE  outgoing'[c][i].event \in 1 .. cursor'[c] - 1
    <3>1. i + 1 \in DOMAIN outgoing[c] /\ outgoing'[c][i] = outgoing[c][i + 1]
      BY <1>6
    <3> QED BY <1>0, <1>1, <2>1, <3>1 DEF InOrder
  <2>2. ASSUME NEW i \in DOMAIN outgoing'[c], NEW j \in DOMAIN outgoing'[c],
               i < j, outgoing'[c][i].type = "EVENT"
        PROVE  /\ outgoing'[c][j].type = "EVENT" => outgoing'[c][i].event < outgoing'[c][j].event
               /\ ~Is(outgoing'[c][j], "OK", outgoing'[c][i].event)
    <3>1. i + 1 \in DOMAIN outgoing[c] /\ outgoing'[c][i] = outgoing[c][i + 1]
      BY <1>6
    <3>2. j + 1 \in DOMAIN outgoing[c] /\ outgoing'[c][j] = outgoing[c][j + 1]
      BY <1>6
    <3>3. i + 1 < j + 1
      BY <1>6, <2>2
    <3> QED BY <1>0, <2>2, <3>1, <3>2, <3>3 DEF InOrder
  <2> QED BY <2>1, <2>2 DEF InOrder, Is
<1>8. Placed(c)' /\ Kept(c)' /\ AsAsked(c)'
  BY <1>0, <1>1 DEF Placed, Kept, AsAsked
<1> QED BY <1>2, <1>7, <1>8 DEF IInv

LEMMA NextInv ==
  ASSUME IInv, [Next]_vars
  PROVE  IInv'
<1>0. TypeOK'
  BY NextTypes DEF IInv
<1>1. CASE UNCHANGED vars
  <2>1. UNCHANGED <<status, subscriptions, log, cursor, outgoing, joined, handed, since, wanted,
                    overrun>>
    BY <1>1 DEF vars
  <2> QED BY <1>0, <2>1, Unmoved DEF IInv
<1>2. CASE Next
  BY <1>0, <1>2, ConnectInv, LeaveInv, ReadEventInv, ReadReqInv, ReadCloseInv, ReceiveInv,
     SkipLostInv, WriteInv DEF Next, Read
<1> QED BY <1>1, <1>2

\* No event queued for a peer is out of order or before the OK its sender is owed.
THEOREM OkBeforeEchoHolds == Spec => []OkBeforeEcho
<1>1. IInv => OkBeforeEcho
  BY DEF IInv, InOrder, OkBeforeEcho
<1> QED BY <1>1, InitInv, NextInv, PTL DEF Spec

\* No event gets past a connection that asked for it and is not too far behind.
THEOREM NothingMissedHolds == Spec => []NothingMissed
<1>1. IInv => NothingMissed
  BY DEF IInv, Kept, NothingMissed
<1> QED BY <1>1, InitInv, NextInv, PTL DEF Spec

\* A connection holds what its peer asked for.
THEOREM SubscriptionsAsAskedHolds == Spec => []SubscriptionsAsAsked
<1>1. IInv => SubscriptionsAsAsked
  BY DEF IInv, AsAsked, SubscriptionsAsAsked
<1> QED BY <1>1, InitInv, NextInv, PTL DEF Spec

-----------------------------------------------------------------------------
(* The relay is a fanout.                                                  *)

LEMMA InitImplements == Init => F!FanoutInit
<1>1. Init => Len(log) = 0
  BY EmptySeq DEF Init
<1> QED BY <1>1 DEF Init, F!FanoutInit, F!Away

LEMMA StepImplements ==
  ASSUME IInv, [Next]_vars
  PROVE  [F!FanoutNext]_F!fvars
<1>0. TypeOK /\ \A d \in Conns : Placed(d)
  BY DEF IInv
<1>1. ASSUME UNCHANGED <<log, joined, handed>>
      PROVE  UNCHANGED F!fvars
  BY <1>1 DEF F!fvars
<1>2. CASE UNCHANGED vars
  BY <1>1, <1>2 DEF vars
<1>3. ASSUME NEW c \in Conns, Connect(c)
      PROVE  F!FanoutNext
  <2>1. joined[c] = -1
    BY <1>0, <1>3 DEF Placed, Connect
  <2>2. F!Join(c)
    BY <1>3, <2>1 DEF Connect, F!Join, F!Away
  <2> QED BY <2>2 DEF F!FanoutNext
<1>4. ASSUME NEW c \in Conns, NEW ev \in WireEvents, ReadEvent(c, ev)
      PROVE  [F!FanoutNext]_F!fvars
  <2>1. UNCHANGED <<joined, handed>>
    BY <1>4 DEF ReadEvent, Reads
  <2>2. CASE Announce(c, ev)
    <3> DEFINE e == [event |-> Parsed(ev), from |-> c]
    <3>1. e \in LogEntries /\ log' = Append(log, e)
      BY <2>2 DEF Announce, LogEntries
    <3> HIDE DEF e
    <3>2. Len(log') = Len(log) + 1
      BY <1>0, <3>1, LongerLog
    <3>3. F!Accept
      BY <2>1, <3>2 DEF F!Accept
    <3> QED BY <3>3 DEF F!FanoutNext
  <2>3. CASE log' = log
    BY <1>1, <2>1, <2>3
  <2> QED BY <1>4, <2>2, <2>3 DEF ReadEvent
<1>5. ASSUME NEW c \in Conns, Receive(c)
      PROVE  [F!FanoutNext]_F!fvars
  <2>1. /\ UNCHANGED <<log, joined>> /\ status[c] = "open"
        /\ cursor[c] \in 1 .. Len(log) /\ Len(log) \in Nat
        /\ \/ UNCHANGED handed
           \/ \E id \in SubIds : HandOver(c, id, cursor[c])
    BY <1>0, <1>5, DeliverSteps
  <2>2. CASE UNCHANGED handed
    BY <1>1, <2>1, <2>2
  <2>3. ASSUME NEW id \in SubIds, HandOver(c, id, cursor[c])
        PROVE  F!FanoutNext
    <3>1. handed' = [handed EXCEPT ![c] = Append(@, cursor[c])]
      BY <2>3 DEF HandOver
    <3>2. /\ joined[c] # -1 /\ joined[c] < cursor[c]
          /\ \A i \in DOMAIN handed[c] : handed[c][i] < cursor[c]
      BY <1>0, <2>1 DEF Placed
    <3>3. F!HandOver(c)
      BY <2>1, <3>1, <3>2 DEF F!HandOver, F!Away
    <3> QED BY <3>3 DEF F!FanoutNext
  <2> QED BY <2>1, <2>2, <2>3
<1>6. ASSUME NEW c \in Conns,
             \/ Leave(c) \/ SkipLost(c) \/ Write(c)
             \/ \E id \in SubIds, filters \in FilterLists : ReadReq(c, id, filters)
             \/ \E id \in SubIds : ReadClose(c, id)
      PROVE  UNCHANGED F!fvars
  <2>1. UNCHANGED <<log, joined, handed>>
    BY <1>6 DEF Leave, SkipLost, Receives, Write, ReadReq, ReadClose, Reads
  <2> QED BY <1>1, <2>1
<1> QED BY <1>2, <1>3, <1>4, <1>5, <1>6 DEF Next, Read

\* The connections, with their subscriptions and queues, implement the fanout.
THEOREM RelayImplementsFanout == Spec => ImplementsFanout
<1>1. Init => F!FanoutInit
  BY InitImplements
<1>2. IInv /\ [Next]_vars => [F!FanoutNext]_F!fvars
  BY StepImplements
<1> QED BY <1>1, <1>2, InitInv, NextInv, PTL DEF Spec, ImplementsFanout, F!FanoutSpec
=============================================================================
