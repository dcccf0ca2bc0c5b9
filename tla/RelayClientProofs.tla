------------------------- MODULE RelayClientProofs --------------------------
(***************************************************************************)
(* Proofs about the client library, for any set of subscription ids and    *)
(* any number of calls, connections and attempts.                          *)
(***************************************************************************)
EXTENDS RelayClient, MaxLemmas, SequenceTheorems, FiniteSetTheorems, TLAPS

-----------------------------------------------------------------------------
(* The last command of a sequence that names an id.                        *)

LEMMA CommandFacts ==
  /\ \A s \in Subs, v \in Vers : Req(s, v) \in Command
  /\ \A s \in Subs : Close(s) \in Command
  /\ \A e \in Events : Event(e) \in Command
  BY DEF Req, Close, Event, Command, None

LEMMA NamesFacts ==
  /\ \A s, t \in Subs, v \in Vers : Names(Req(s, v), t) <=> t = s
  /\ \A s, t \in Subs : Names(Close(s), t) <=> t = s
  /\ \A e \in Events, t \in Subs : ~Names(Event(e), t)
  BY DEF Req, Close, Event, Names

\* A command that names an id asks for a request, if it is a Req, or for none.
LEMMA NamedVersion ==
  ASSUME NEW c \in Command, NEW s \in Subs, Names(c, s)
  PROVE  c.ver \in Vers \cup {None} /\ (c.op = "Req" <=> c.ver # None)
  BY DEF Command, Names, Vers, None

\* No command of q names s: what was held for it still is.
LEMMA AfterNone ==
  ASSUME NEW q \in Seq(Command), NEW held, NEW s \in Subs,
         \A j \in 1 .. Len(q) : ~Names(q[j], s)
  PROVE  About(q, s) = {} /\ After(held, q, s) = held[s]
  BY LenProperties DEF About, After

\* The last command that names s, the k-th, says what is held for it.
LEMMA AfterLast ==
  ASSUME NEW q \in Seq(Command), NEW held, NEW s \in Subs, NEW k \in 1 .. Len(q),
         Names(q[k], s), \A j \in 1 .. Len(q) : j > k => ~Names(q[j], s)
  PROVE  About(q, s) # {} /\ After(held, q, s) = q[k].ver
<1> DEFINE A == About(q, s)
<1>1. Len(q) \in Nat /\ DOMAIN q = 1 .. Len(q)
  BY LenProperties
<1>2. A \in SUBSET (1 .. Len(q)) /\ k \in A /\ \A j \in A : j <= k
  BY <1>1 DEF About
<1>3. Max(A) \in A /\ \A j \in A : Max(A) >= j
  <2>1. 1 \in Int /\ Len(q) \in Int /\ A # {}
    BY <1>1, <1>2
  <2> HIDE DEF A
  <2> QED BY <1>2, <2>1, MaxExists
<1>4. Max(A) = k
  BY <1>1, <1>2, <1>3
<1> QED BY <1>2, <1>4 DEF After

\* One of the two cases above holds.
LEMMA AfterCases ==
  ASSUME NEW q \in Seq(Command), NEW s \in Subs
  PROVE  \/ \A j \in 1 .. Len(q) : ~Names(q[j], s)
         \/ \E k \in 1 .. Len(q) :
              Names(q[k], s) /\ \A j \in 1 .. Len(q) : j > k => ~Names(q[j], s)
<1> DEFINE A == {j \in 1 .. Len(q) : Names(q[j], s)}
<1>1. CASE A = {}
  BY <1>1
<1>2. CASE A # {}
  <2>1. Len(q) \in Nat
    BY LenProperties
  <2>2. Max(A) \in A /\ \A j \in A : Max(A) >= j
    <3>1. A \in SUBSET (1 .. Len(q)) /\ 1 \in Int /\ Len(q) \in Int
      BY <2>1
    <3> HIDE DEF A
    <3> QED BY <1>2, <3>1, MaxExists
  <2> QED BY <2>1, <2>2
<1> QED BY <1>1, <1>2

\* A command at the end decides for the id it names.
LEMMA AfterAppend ==
  ASSUME NEW q \in Seq(Command), NEW c \in Command, NEW held, NEW s \in Subs
  PROVE  After(held, Append(q, c), s) = IF Names(c, s) THEN c.ver ELSE After(held, q, s)
<1> DEFINE r == Append(q, c)
<1>1. /\ r \in Seq(Command) /\ Len(r) = Len(q) + 1 /\ Len(q) \in Nat
      /\ \A i \in 1 .. Len(q) : r[i] = q[i]
      /\ r[Len(q) + 1] = c
  BY AppendProperties, LenProperties
<1> HIDE DEF r
<1>2. CASE Names(c, s)
  <2>1. Len(q) + 1 \in 1 .. Len(r) /\ \A j \in 1 .. Len(r) : j > Len(q) + 1 => ~Names(r[j], s)
    BY <1>1
  <2>2. Names(r[Len(q) + 1], s)
    BY <1>1, <1>2
  <2>3. After(held, r, s) = r[Len(q) + 1].ver
    BY <1>1, <2>1, <2>2, AfterLast
  <2> QED BY <1>1, <1>2, <2>3 DEF r
<1>3. CASE ~Names(c, s)
  <2>1. CASE \A j \in 1 .. Len(q) : ~Names(q[j], s)
    <3>1. \A j \in 1 .. Len(r) : ~Names(r[j], s)
      BY <1>1, <1>3, <2>1
    <3>2. After(held, r, s) = held[s]
      BY <1>1, <3>1, AfterNone
    <3>3. After(held, q, s) = held[s]
      BY <2>1, AfterNone
    <3> QED BY <1>3, <3>2, <3>3 DEF r
  <2>2. CASE \E k \in 1 .. Len(q) :
               Names(q[k], s) /\ \A j \in 1 .. Len(q) : j > k => ~Names(q[j], s)
    <3>1. PICK k \in 1 .. Len(q) :
            Names(q[k], s) /\ \A j \in 1 .. Len(q) : j > k => ~Names(q[j], s)
      BY <2>2
    <3>2. /\ k \in 1 .. Len(r) /\ Names(r[k], s) /\ r[k] = q[k]
          /\ \A j \in 1 .. Len(r) : j > k => ~Names(r[j], s)
      BY <1>1, <1>3, <3>1
    <3>3. After(held, r, s) = r[k].ver
      BY <1>1, <3>2, AfterLast
    <3>4. After(held, q, s) = q[k].ver
      BY <3>1, AfterLast
    <3> QED BY <1>3, <3>2, <3>3, <3>4 DEF r
  <2> QED BY <2>1, <2>2, AfterCases
<1> QED BY <1>2, <1>3

\* The first command has its effect on what is held before the others.
LEMMA AfterTail ==
  ASSUME NEW q \in Seq(Command), q # <<>>, NEW held, NEW next, NEW s \in Subs,
         next[s] = IF Names(Head(q), s) THEN Head(q).ver ELSE held[s]
  PROVE  After(next, Tail(q), s) = After(held, q, s)
<1> DEFINE r == Tail(q)
<1>1. /\ r \in Seq(Command) /\ Len(r) = Len(q) - 1 /\ Len(q) \in Nat \ {0}
      /\ \A i \in 1 .. Len(r) : r[i] = q[i + 1]
      /\ Head(q) = q[1]
  BY HeadTailProperties, LenProperties, EmptySeq
<1> HIDE DEF r
<1>2. CASE \A j \in 1 .. Len(r) : ~Names(r[j], s)
  <2>1. \A j \in 1 .. Len(q) : j > 1 => ~Names(q[j], s)
    <3> SUFFICES ASSUME NEW j \in 1 .. Len(q), j > 1 PROVE ~Names(q[j], s)
      OBVIOUS
    <3>1. j - 1 \in 1 .. Len(r) /\ (j - 1) + 1 = j
      BY <1>1
    <3> QED BY <1>1, <1>2, <3>1
  <2>2. After(next, r, s) = next[s]
    BY <1>1, <1>2, AfterNone
  <2>3. CASE Names(q[1], s)
    BY <1>1, <2>1, <2>2, <2>3, AfterLast DEF r
  <2>4. CASE ~Names(q[1], s)
    <3>1. \A j \in 1 .. Len(q) : ~Names(q[j], s)
      BY <1>1, <2>1, <2>4
    <3> QED BY <1>1, <2>2, <2>4, <3>1, AfterNone DEF r
  <2> QED BY <2>3, <2>4
<1>3. CASE \E k \in 1 .. Len(r) :
             Names(r[k], s) /\ \A j \in 1 .. Len(r) : j > k => ~Names(r[j], s)
  <2>1. PICK k \in 1 .. Len(r) :
          Names(r[k], s) /\ \A j \in 1 .. Len(r) : j > k => ~Names(r[j], s)
    BY <1>3
  <2>2. k + 1 \in 1 .. Len(q) /\ q[k + 1] = r[k]
    BY <1>1, <2>1
  <2>3. \A j \in 1 .. Len(q) : j > k + 1 => ~Names(q[j], s)
    <3> SUFFICES ASSUME NEW j \in 1 .. Len(q), j > k + 1 PROVE ~Names(q[j], s)
      OBVIOUS
    <3>1. j - 1 \in 1 .. Len(r) /\ (j - 1) + 1 = j /\ j - 1 > k
      BY <1>1, <2>1
    <3> QED BY <1>1, <2>1, <3>1
  <2>4. After(next, r, s) = r[k].ver
    BY <1>1, <2>1, AfterLast
  <2>5. After(held, q, s) = q[k + 1].ver
    <3>1. Names(q[k + 1], s)
      BY <2>1, <2>2
    <3> QED BY <2>2, <2>3, <3>1, AfterLast
  <2> QED BY <2>2, <2>4, <2>5 DEF r
<1> QED BY <1>1, <1>2, <1>3, AfterCases

-----------------------------------------------------------------------------
(* Requests waiting in a sequence of commands.                             *)

LEMMA PendingMeans ==
  ASSUME NEW q \in Seq(Command), NEW s
  PROVE  PendingReq(q, s) <=> \E i \in 1 .. Len(q) : Names(q[i], s) /\ q[i].op = "Req"
  BY LenProperties DEF PendingReq, About

LEMMA PendingAppend ==
  ASSUME NEW q \in Seq(Command), NEW c \in Command, NEW s
  PROVE  PendingReq(q, s) => PendingReq(Append(q, c), s)
<1> DEFINE r == Append(q, c)
<1>1. /\ r \in Seq(Command) /\ Len(r) = Len(q) + 1 /\ Len(q) \in Nat
      /\ \A i \in 1 .. Len(q) : r[i] = q[i]
  BY AppendProperties, LenProperties
<1> HIDE DEF r
<1>2. ASSUME NEW i \in 1 .. Len(q), Names(q[i], s) /\ q[i].op = "Req"
      PROVE  \E j \in 1 .. Len(r) : Names(r[j], s) /\ r[j].op = "Req"
  <2>1. i \in 1 .. Len(r) /\ r[i] = q[i]
    BY <1>1
  <2> QED BY <1>2, <2>1
<1>3. PendingReq(q, s) => PendingReq(r, s)
  BY <1>1, <1>2, PendingMeans
<1> QED BY <1>3 DEF r

LEMMA PendingTail ==
  ASSUME NEW q \in Seq(Command), q # <<>>, NEW s, PendingReq(q, s), ~Names(Head(q), s)
  PROVE  PendingReq(Tail(q), s)
<1> DEFINE r == Tail(q)
<1>1. /\ r \in Seq(Command) /\ Len(r) = Len(q) - 1 /\ Len(q) \in Nat \ {0}
      /\ \A i \in 1 .. Len(r) : r[i] = q[i + 1]
      /\ Head(q) = q[1]
  BY HeadTailProperties, LenProperties, EmptySeq
<1> HIDE DEF r
<1>2. PICK i \in 1 .. Len(q) : Names(q[i], s) /\ q[i].op = "Req"
  BY PendingMeans
<1>3. i # 1
  BY <1>1, <1>2
<1>4. i - 1 \in 1 .. Len(r) /\ (i - 1) + 1 = i
  BY <1>1, <1>3
<1>5. r[i - 1] = q[i]
  BY <1>1, <1>4
<1>6. PendingReq(r, s)
  BY <1>1, <1>2, <1>4, <1>5, PendingMeans
<1> QED BY <1>6 DEF r

LEMMA PendingConcat ==
  ASSUME NEW q \in Seq(Command), NEW r \in Seq(Command), NEW s
  PROVE  PendingReq(q, s) \/ PendingReq(r, s) => PendingReq(q \o r, s)
<1> DEFINE z == q \o r
<1>1. /\ z \in Seq(Command) /\ Len(z) = Len(q) + Len(r)
      /\ Len(q) \in Nat /\ Len(r) \in Nat
      /\ \A i \in 1 .. Len(q) + Len(r) : z[i] = IF i <= Len(q) THEN q[i] ELSE r[i - Len(q)]
  BY ConcatProperties, LenProperties
<1> HIDE DEF z
<1>2. ASSUME NEW i \in 1 .. Len(q), Names(q[i], s) /\ q[i].op = "Req"
      PROVE  PendingReq(z, s)
  <2>1. i \in 1 .. Len(z) /\ z[i] = q[i]
    BY <1>1
  <2> QED BY <1>1, <1>2, <2>1, PendingMeans
<1>3. ASSUME NEW i \in 1 .. Len(r), Names(r[i], s) /\ r[i].op = "Req"
      PROVE  PendingReq(z, s)
  <2>1. Len(q) + i \in 1 .. Len(z) /\ ~(Len(q) + i <= Len(q)) /\ (Len(q) + i) - Len(q) = i
    BY <1>1
  <2>2. z[Len(q) + i] = r[i]
    BY <1>1, <2>1
  <2> QED BY <1>1, <1>3, <2>1, <2>2, PendingMeans
<1>4. PendingReq(q, s) \/ PendingReq(r, s) => PendingReq(z, s)
  BY <1>2, <1>3, PendingMeans
<1> QED BY <1>4 DEF z

\* What follows the commands of q does not matter to an id that some command of q
\* names: so what is held before q does not matter either.
LEMMA AfterHeld ==
  ASSUME NEW q \in Seq(Command), NEW held, NEW next, NEW s \in Subs,
         After(next, q, s) # next[s]
  PROVE  After(held, q, s) = After(next, q, s)
<1>1. CASE \A j \in 1 .. Len(q) : ~Names(q[j], s)
  BY <1>1, AfterNone
<1>2. CASE \E k \in 1 .. Len(q) :
             Names(q[k], s) /\ \A j \in 1 .. Len(q) : j > k => ~Names(q[j], s)
  <2>1. PICK k \in 1 .. Len(q) :
          Names(q[k], s) /\ \A j \in 1 .. Len(q) : j > k => ~Names(q[j], s)
    BY <1>2
  <2>2. After(held, q, s) = q[k].ver
    BY <2>1, AfterLast
  <2>3. After(next, q, s) = q[k].ver
    BY <2>1, AfterLast
  <2> QED BY <2>2, <2>3
<1> QED BY <1>1, <1>2, AfterCases

\* Only requests for something follow: an id that holds a request after q still does.
LEMMA AfterMoreReqs ==
  ASSUME NEW q \in Seq(Command), NEW r \in Seq(Command), NEW held, NEW s \in Subs,
         \A i \in 1 .. Len(r) : r[i].op = "Req",
         After(held, q, s) # None
  PROVE  After(held, q \o r, s) # None
<1> DEFINE z == q \o r
<1>1. /\ z \in Seq(Command) /\ Len(z) = Len(q) + Len(r)
      /\ Len(q) \in Nat /\ Len(r) \in Nat
      /\ \A i \in 1 .. Len(q) + Len(r) : z[i] = IF i <= Len(q) THEN q[i] ELSE r[i - Len(q)]
  BY ConcatProperties, LenProperties
<1> HIDE DEF z
<1>2. CASE \A j \in 1 .. Len(z) : ~Names(z[j], s)
  <2>1. \A j \in 1 .. Len(q) : j \in 1 .. Len(z) /\ z[j] = q[j]
    BY <1>1
  <2>2. \A j \in 1 .. Len(q) : ~Names(q[j], s)
    BY <1>2, <2>1
  <2>3. After(held, z, s) = held[s]
    BY <1>1, <1>2, AfterNone
  <2>4. After(held, q, s) = held[s]
    BY <2>2, AfterNone
  <2> QED BY <2>3, <2>4 DEF z
<1>3. CASE \E k \in 1 .. Len(z) :
             Names(z[k], s) /\ \A j \in 1 .. Len(z) : j > k => ~Names(z[j], s)
  <2>1. PICK k \in 1 .. Len(z) :
          Names(z[k], s) /\ \A j \in 1 .. Len(z) : j > k => ~Names(z[j], s)
    BY <1>3
  <2>2. After(held, z, s) = z[k].ver
    BY <1>1, <2>1, AfterLast
  <2>3. CASE k <= Len(q)
    <3>1. k \in 1 .. Len(q) /\ z[k] = q[k]
      BY <1>1, <2>1, <2>3
    <3>2. \A j \in 1 .. Len(q) : j \in 1 .. Len(z) /\ z[j] = q[j]
      BY <1>1
    <3>3. \A j \in 1 .. Len(q) : j > k => ~Names(q[j], s)
      BY <2>1, <3>2
    <3>4. Names(q[k], s)
      BY <2>1, <3>1
    <3>5. After(held, q, s) = q[k].ver
      BY <3>1, <3>3, <3>4, AfterLast
    <3> QED BY <2>2, <3>1, <3>5 DEF z
  <2>4. CASE ~(k <= Len(q))
    <3>1. k - Len(q) \in 1 .. Len(r) /\ z[k] = r[k - Len(q)]
      BY <1>1, <2>1, <2>4
    <3>2. z[k].op = "Req"
      BY <3>1
    <3>3. z[k] \in Command
      BY <1>1, <2>1, ElementOfSeq
    <3>4. z[k].ver # None
      BY <2>1, <3>2, <3>3, NamedVersion
    <3> QED BY <2>2, <3>4 DEF z
  <2> QED BY <2>3, <2>4
<1> QED BY <1>1, <1>2, <1>3, AfterCases

-----------------------------------------------------------------------------
(* The inductive invariant.                                                *)

\* A connection not made yet has carried nothing.
FutureUnused ==
    \A c \in Conns : c > conn => /\ wires[c] = <<>> /\ relaySubs[c] = Nothing
                                 /\ read[c] = {}

\* The last command for an id the user wants, in the map or the channel, is a request:
\* behind a Close that is still to be served waits another Req.
WantedInTheEnd ==
    \A s \in Subs : called[s] # None => After(subscriptions, cmds, s) # None

AttemptsLeft == task = "reconnecting" => counter < RETRIES

IInv ==
    /\ TypeOK
    /\ AttemptsLeft
    /\ FutureUnused
    /\ InSync
    /\ WantedInTheEnd
    /\ LastCallWinsAtFirst

LEMMA InitIInv == Init => IInv
<1> SUFFICES ASSUME Init PROVE IInv
  OBVIOUS
<1> USE DEF Init
<1>0. <<>> \in Seq(Command) /\ Len(<<>>) = 0 /\ Nothing \in Requests
  BY EmptySeq DEF Nothing, Requests
<1>1. TypeOK
  <2>1. /\ 1 \in Conns /\ RETRIES \in Nat \ {0} /\ MaxCalls \in Nat /\ MaxEvents \in Nat
        /\ 0 \in 0 .. MaxConns
    BY RelayClientAssumption DEF Conns
  <2>2. sent \in [Events -> 0 .. MaxConns] /\ read \in [Conns -> SUBSET Events]
    BY <2>1
  <2>3. /\ cmds \in Seq(Command) /\ wires \in [Conns -> Seq(Command)]
        /\ subscriptions \in Requests /\ called \in Requests
        /\ relaySubs \in [Conns -> Requests]
    BY <1>0
  <2>4. /\ counter \in 0 .. RETRIES /\ published \in 0 .. MaxEvents /\ calls \in 0 .. MaxCalls
        /\ conn \in Conns /\ task \in {"serving", "reconnecting", "ended"}
        /\ dropped \in SUBSET Events
    BY <2>1
  <2>5. up \in [Conns -> BOOLEAN]
    OBVIOUS
  <2>6. told \in BOOLEAN
    BY Zenon
  <2> QED BY <2>2, <2>3, <2>4, <2>5, <2>6 DEF TypeOK
<1>2. \A s \in Subs : After(Nothing, <<>>, s) = Nothing[s]
  <2> SUFFICES ASSUME NEW s \in Subs PROVE After(Nothing, <<>>, s) = Nothing[s]
    OBVIOUS
  <2>1. \A j \in 1 .. Len(<<>>) : ~Names(<<>>[j], s)
    BY <1>0
  <2> QED BY <1>0, <2>1, AfterNone
<1>3. \A s \in Subs : Nothing[s] = None
  BY DEF Nothing
<1>4. 1 \in Conns /\ wires[1] = <<>> /\ relaySubs[1] = Nothing
  BY RelayClientAssumption DEF Conns
<1>5. InSync
  BY <1>2, <1>4 DEF InSync
<1>6. WantedInTheEnd /\ LastCallWinsAtFirst
  BY <1>2, <1>3 DEF WantedInTheEnd, LastCallWinsAtFirst
<1>7. FutureUnused /\ AttemptsLeft
  BY DEF FutureUnused, AttemptsLeft
<1> QED BY <1>1, <1>5, <1>6, <1>7 DEF IInv

LEMMA TypeFacts ==
  ASSUME TypeOK
  PROVE  /\ conn \in Conns /\ conn \in Nat \ {0} /\ MaxConns \in Nat \ {0}
         /\ RETRIES \in Nat \ {0} /\ counter \in 0 .. RETRIES
         /\ cmds \in Seq(Command)
         /\ \A c \in Conns : wires[c] \in Seq(Command) /\ relaySubs[c] \in Requests
<1>1. conn \in Nat \ {0} /\ MaxConns \in Nat \ {0} /\ RETRIES \in Nat \ {0}
  BY RelayClientAssumption DEF TypeOK, Conns
<1> QED BY <1>1 DEF TypeOK

-----------------------------------------------------------------------------
(* The calls of the user.                                                  *)

\* A command of the user goes to the back of the channel.
LEMMA SubscribeStep ==
  ASSUME IInv, NEW s \in Subs, Subscribe(s)
  PROVE  IInv'
<1> DEFINE c == Req(s, calls')
<1>0. /\ calls' \in Vers /\ calls' \in 0 .. MaxCalls /\ calls' # None
      /\ called' = [called EXCEPT ![s] = calls'] /\ cmds' = Append(cmds, c)
  BY RelayClientAssumption DEF IInv, TypeOK, Subscribe, Vers, None
<1>1. UNCHANGED <<subscriptions, task, counter, conn, up, told, wires, relaySubs,
                  dropped, sent, read, published>>
  BY DEF Subscribe
<1>2. /\ c \in Command /\ c.ver = calls'
      /\ \A t \in Subs : Names(c, t) <=> t = s
  BY <1>0, CommandFacts, NamesFacts DEF Req
<1>3. cmds \in Seq(Command) /\ called \in Requests
  BY DEF IInv, TypeOK
<1>4. cmds' \in Seq(Command) /\ called' \in Requests
  <2>1. cmds' \in Seq(Command)
    BY <1>0, <1>2, <1>3, AppendProperties
  <2>2. called' \in Requests
    BY <1>0, <1>3 DEF Requests
  <2> QED BY <2>1, <2>2
<1> HIDE DEF c
<1>5. TypeOK'
  BY <1>0, <1>1, <1>4 DEF IInv, TypeOK
<1>6. \A t \in Subs : After(subscriptions, cmds', t)
                       = IF t = s THEN calls' ELSE After(subscriptions, cmds, t)
  BY <1>0, <1>2, <1>3, AfterAppend
<1>7. \A t \in Subs : called'[t] = IF t = s THEN calls' ELSE called[t]
  BY <1>0, <1>3 DEF Requests
<1>8. WantedInTheEnd' /\ LastCallWinsAtFirst'
  BY <1>0, <1>1, <1>6, <1>7 DEF IInv, WantedInTheEnd, LastCallWinsAtFirst
<1>9. InSync'
  BY <1>0, <1>1, <1>2, <1>3, PendingAppend DEF IInv, InSync
<1>10. (AttemptsLeft /\ FutureUnused)'
  BY <1>1 DEF IInv, AttemptsLeft, FutureUnused
<1> QED BY <1>5, <1>8, <1>9, <1>10 DEF IInv

LEMMA CloseSubscriptionStep ==
  ASSUME IInv, NEW s \in Subs, CloseSubscription(s)
  PROVE  IInv'
<1> DEFINE c == Close(s)
<1>0. /\ calls' \in 0 .. MaxCalls
      /\ called' = [called EXCEPT ![s] = None] /\ cmds' = Append(cmds, c)
  BY RelayClientAssumption DEF IInv, TypeOK, CloseSubscription
<1>1. UNCHANGED <<subscriptions, task, counter, conn, up, told, wires, relaySubs,
                  dropped, sent, read, published>>
  BY DEF CloseSubscription
<1>2. /\ c \in Command /\ c.ver = None
      /\ \A t \in Subs : Names(c, t) <=> t = s
  BY CommandFacts, NamesFacts DEF Close
<1>3. cmds \in Seq(Command) /\ called \in Requests
  BY DEF IInv, TypeOK
<1>4. cmds' \in Seq(Command) /\ called' \in Requests
  <2>1. cmds' \in Seq(Command)
    BY <1>0, <1>2, <1>3, AppendProperties
  <2>2. called' \in Requests
    BY <1>0, <1>3 DEF Requests
  <2> QED BY <2>1, <2>2
<1> HIDE DEF c
<1>5. TypeOK'
  BY <1>0, <1>1, <1>4 DEF IInv, TypeOK
<1>6. \A t \in Subs : After(subscriptions, cmds', t)
                       = IF t = s THEN None ELSE After(subscriptions, cmds, t)
  BY <1>0, <1>2, <1>3, AfterAppend
<1>7. \A t \in Subs : called'[t] = IF t = s THEN None ELSE called[t]
  BY <1>0, <1>3 DEF Requests
<1>8. WantedInTheEnd' /\ LastCallWinsAtFirst'
  BY <1>1, <1>6, <1>7 DEF IInv, WantedInTheEnd, LastCallWinsAtFirst
<1>9. InSync'
  BY <1>0, <1>1, <1>2, <1>3, PendingAppend DEF IInv, InSync
<1>10. (AttemptsLeft /\ FutureUnused)'
  BY <1>1 DEF IInv, AttemptsLeft, FutureUnused
<1> QED BY <1>5, <1>8, <1>9, <1>10 DEF IInv

LEMMA PublishStep ==
  ASSUME IInv, Publish
  PROVE  IInv'
<1> DEFINE c == Event(published')
<1>0. /\ published' \in Events /\ published' \in 0 .. MaxEvents /\ cmds' = Append(cmds, c)
  BY RelayClientAssumption DEF IInv, TypeOK, Publish, Events
<1>1. UNCHANGED <<subscriptions, task, counter, conn, up, told, wires, relaySubs,
                  dropped, sent, read, calls, called>>
  BY DEF Publish
<1>2. c \in Command /\ \A t \in Subs : ~Names(c, t)
  BY <1>0, CommandFacts, NamesFacts
<1>3. cmds \in Seq(Command)
  BY DEF IInv, TypeOK
<1>4. cmds' \in Seq(Command)
  BY <1>0, <1>2, <1>3, AppendProperties
<1> HIDE DEF c
<1>5. TypeOK'
  BY <1>0, <1>1, <1>4 DEF IInv, TypeOK
<1>6. \A t \in Subs : After(subscriptions, cmds', t) = After(subscriptions, cmds, t)
  BY <1>0, <1>2, <1>3, AfterAppend
<1>8. WantedInTheEnd' /\ LastCallWinsAtFirst'
  BY <1>1, <1>6 DEF IInv, WantedInTheEnd, LastCallWinsAtFirst
<1>9. InSync'
  BY <1>0, <1>1, <1>2, <1>3, PendingAppend DEF IInv, InSync
<1>10. (AttemptsLeft /\ FutureUnused)'
  BY <1>1 DEF IInv, AttemptsLeft, FutureUnused
<1> QED BY <1>5, <1>8, <1>9, <1>10 DEF IInv

-----------------------------------------------------------------------------
(* The task serves a command.                                              *)

LEMMA TakeFacts ==
  ASSUME TypeOK, NEW c \in Command, Take(c)
  PROVE  /\ task = "serving" /\ cmds # <<>> /\ Head(cmds) = c /\ cmds' = Tail(cmds)
         /\ cmds' \in Seq(Command)
  BY HeadTailProperties, EmptySeq DEF Take, TypeOK

LEMMA TransmitFacts ==
  ASSUME TypeOK, task = "serving", NEW c \in Command, NEW ok \in BOOLEAN, Transmit(c, ok)
  PROVE  /\ wires' \in [Conns -> Seq(Command)]
         /\ \A d \in Conns : d # conn => wires'[d] = wires[d]
         /\ up[conn] => ok /\ wires'[conn] = Append(wires[conn], c)
         /\ task' = IF ok THEN "serving" ELSE "reconnecting"
         /\ counter' \in 0 .. RETRIES
         /\ ~ok => counter' = 0
<1>1. wires \in [Conns -> Seq(Command)] /\ conn \in Conns /\ counter \in 0 .. RETRIES
  BY DEF TypeOK
<1>2. Append(wires[conn], c) \in Seq(Command)
  BY <1>1, AppendProperties
<1>3. 0 \in 0 .. RETRIES
  BY RelayClientAssumption
<1> QED BY <1>1, <1>2, <1>3 DEF Transmit

\* What holds after any command has been served, given what it did to the map: when
\* the send worked, the map took the effect of the command.
LEMMA ServedCommand ==
  ASSUME IInv, NEW c \in Command, NEW ok \in BOOLEAN, Take(c), Transmit(c, ok),
         UNCHANGED <<conn, up, told, relaySubs, read, published, calls, called>>,
         subscriptions' \in Requests, dropped' \in SUBSET Events,
         sent' \in [Events -> 0 .. MaxConns],
         \A t \in Subs : subscriptions'[t] = IF Names(c, t) /\ (ok \/ c.op = "Req")
                                             THEN c.ver ELSE subscriptions[t]
  PROVE  IInv'
<1>0. TypeOK
  BY DEF IInv
<1>1. /\ task = "serving" /\ cmds # <<>> /\ Head(cmds) = c /\ cmds' = Tail(cmds)
      /\ cmds' \in Seq(Command) /\ cmds \in Seq(Command)
  BY <1>0, TakeFacts DEF TypeOK
<1>2. /\ wires' \in [Conns -> Seq(Command)]
      /\ \A d \in Conns : d # conn => wires'[d] = wires[d]
      /\ up[conn] => ok /\ wires'[conn] = Append(wires[conn], c)
      /\ task' = IF ok THEN "serving" ELSE "reconnecting"
      /\ counter' \in 0 .. RETRIES
      /\ ~ok => counter' = 0
  BY <1>0, <1>1, TransmitFacts
<1>3. /\ conn \in Conns /\ conn \in Nat \ {0} /\ RETRIES \in Nat \ {0}
      /\ wires[conn] \in Seq(Command)
  BY <1>0, TypeFacts
<1>4. TypeOK'
  <2>1. task' \in {"serving", "reconnecting", "ended"}
    BY <1>2
  <2> QED BY <1>0, <1>1, <1>2, <2>1 DEF TypeOK
<1>5. AttemptsLeft'
  BY <1>2, <1>3 DEF AttemptsLeft
<1>6. FutureUnused'
  <2>1. \A d \in Conns : d > conn => d # conn
    BY <1>3
  <2> QED BY <1>2, <2>1 DEF IInv, FutureUnused
<1>7. ASSUME NEW s \in Subs, called[s] # None
      PROVE  After(subscriptions', cmds', s) # None
  <2> DEFINE next == [subscriptions EXCEPT ![s] = IF Names(c, s) THEN c.ver
                                                  ELSE subscriptions[s]]
  <2>1. next[s] = IF Names(c, s) THEN c.ver ELSE subscriptions[s]
    BY <1>0 DEF TypeOK, Requests
  <2> HIDE DEF next
  <2>2. After(next, cmds', s) = After(subscriptions, cmds, s)
    BY <1>1, <2>1, AfterTail
  <2>3. After(subscriptions, cmds, s) # None
    BY <1>7 DEF IInv, WantedInTheEnd
  <2>4. CASE next[s] = subscriptions'[s]
    <3>1. After(subscriptions', cmds', s) = After(subscriptions, cmds, s)
      <4>1. subscriptions'[s] = IF Names(Head(cmds), s) THEN Head(cmds).ver
                                                        ELSE subscriptions[s]
        BY <1>1, <2>1, <2>4
      <4>2. After(subscriptions', Tail(cmds), s) = After(subscriptions, cmds, s)
        BY <1>1, <4>1, AfterTail
      <4> QED BY <1>1, <4>2
    <3> QED BY <2>3, <3>1
  <2>5. CASE next[s] # subscriptions'[s]
    <3>1. Names(c, s) /\ c.op # "Req"
      BY <2>1, <2>5
    <3>2. next[s] = None
      BY <2>1, <3>1, NamedVersion
    <3>3. After(subscriptions', cmds', s) = After(next, cmds', s)
      BY <1>1, <2>2, <2>3, <3>2, AfterHeld
    <3> QED BY <2>2, <2>3, <3>3
  <2> QED BY <2>4, <2>5
<1>8. WantedInTheEnd'
  BY <1>7 DEF WantedInTheEnd
<1>9. LastCallWinsAtFirst'
  <2> SUFFICES ASSUME conn = 1, ok, NEW s \in Subs
               PROVE  After(subscriptions', cmds', s) = called[s]
    BY <1>2 DEF LastCallWinsAtFirst
  <2>1. subscriptions'[s] = IF Names(c, s) THEN c.ver ELSE subscriptions[s]
    OBVIOUS
  <2>2. After(subscriptions', cmds', s) = After(subscriptions, cmds, s)
    <3>1. subscriptions'[s] = IF Names(Head(cmds), s) THEN Head(cmds).ver
                                                      ELSE subscriptions[s]
      BY <1>1, <2>1
    <3>2. After(subscriptions', Tail(cmds), s) = After(subscriptions, cmds, s)
      BY <1>1, <3>1, AfterTail
    <3> QED BY <1>1, <3>2
  <2> QED BY <1>1, <2>2 DEF IInv, LastCallWinsAtFirst
<1>10. InSync'
  <2> SUFFICES ASSUME ok, up[conn], NEW s \in Subs
               PROVE  \/ After(relaySubs[conn], wires'[conn], s) = subscriptions'[s]
                      \/ PendingReq(cmds', s)
    BY <1>2 DEF InSync
  <2>1. After(relaySubs[conn], wires'[conn], s)
          = IF Names(c, s) THEN c.ver ELSE After(relaySubs[conn], wires[conn], s)
    <3>1. wires'[conn] = Append(wires[conn], c)
      BY <1>2
    <3>2. After(relaySubs[conn], Append(wires[conn], c), s)
            = IF Names(c, s) THEN c.ver ELSE After(relaySubs[conn], wires[conn], s)
      BY <1>3, AfterAppend
    <3> QED BY <3>1, <3>2
  <2>2. subscriptions'[s] = IF Names(c, s) THEN c.ver ELSE subscriptions[s]
    OBVIOUS
  <2>3. CASE Names(c, s)
    BY <2>1, <2>2, <2>3
  <2>4. CASE ~Names(c, s)
    <3>1. \/ After(relaySubs[conn], wires[conn], s) = subscriptions[s]
          \/ PendingReq(cmds, s)
      BY <1>1 DEF IInv, InSync
    <3>2. PendingReq(cmds, s) => PendingReq(cmds', s)
      BY <1>1, <2>4, PendingTail
    <3> QED BY <2>1, <2>2, <2>4, <3>1, <3>2
  <2> QED BY <2>3, <2>4
<1> QED BY <1>4, <1>5, <1>6, <1>8, <1>9, <1>10 DEF IInv

LEMMA ServeStep ==
  ASSUME IInv, Serve
  PROVE  IInv'
<1>0. TypeOK
  BY DEF IInv
<1>1. /\ subscriptions \in Requests /\ dropped \in SUBSET Events
      /\ sent \in [Events -> 0 .. MaxConns] /\ conn \in 0 .. MaxConns
  BY <1>0 DEF TypeOK, Conns
<1>2. ASSUME NEW ok \in BOOLEAN, NEW s \in Subs, NEW v \in Vers, TakeReq(s, v, ok)
      PROVE  IInv'
  <2> DEFINE c == Req(s, v)
  <2>1. /\ c \in Command /\ c.ver = v /\ c.op = "Req"
        /\ \A t \in Subs : Names(c, t) <=> t = s
    BY CommandFacts, NamesFacts DEF Req
  <2> HIDE DEF c
  <2>2. /\ Take(c) /\ Transmit(c, ok)
        /\ UNCHANGED <<conn, up, told, relaySubs, dropped, sent, read, published, calls,
                       called>>
        /\ subscriptions' = [subscriptions EXCEPT ![s] = v]
    BY <1>2 DEF TakeReq, history, c
  <2>3. subscriptions' \in Requests
    BY <1>1, <2>2 DEF Requests
  <2>4. \A t \in Subs : subscriptions'[t] = IF Names(c, t) /\ (ok \/ c.op = "Req")
                                            THEN c.ver ELSE subscriptions[t]
    BY <1>1, <2>1, <2>2 DEF Requests
  <2> QED BY <1>1, <2>1, <2>2, <2>3, <2>4, ServedCommand
<1>3. ASSUME NEW ok \in BOOLEAN, NEW s \in Subs, TakeClose(s, ok)
      PROVE  IInv'
  <2> DEFINE c == Close(s)
  <2>1. /\ c \in Command /\ c.ver = None /\ c.op = "Close"
        /\ \A t \in Subs : Names(c, t) <=> t = s
    BY CommandFacts, NamesFacts DEF Close
  <2> HIDE DEF c
  <2>2. /\ Take(c) /\ Transmit(c, ok)
        /\ UNCHANGED <<conn, up, told, relaySubs, dropped, sent, read, published, calls,
                       called>>
        /\ subscriptions' = IF ok THEN [subscriptions EXCEPT ![s] = None] ELSE subscriptions
    BY <1>3 DEF TakeClose, history, c
  <2>3. subscriptions' \in Requests
    BY <1>1, <2>2 DEF Requests
  <2>4. \A t \in Subs : subscriptions'[t] = IF Names(c, t) /\ (ok \/ c.op = "Req")
                                            THEN c.ver ELSE subscriptions[t]
    BY <1>1, <2>1, <2>2 DEF Requests
  <2> QED BY <1>1, <2>1, <2>2, <2>3, <2>4, ServedCommand
<1>4. ASSUME NEW ok \in BOOLEAN, NEW e \in Events, TakeEvent(e, ok)
      PROVE  IInv'
  <2> DEFINE c == Event(e)
  <2>1. c \in Command /\ \A t \in Subs : ~Names(c, t)
    BY CommandFacts, NamesFacts
  <2> HIDE DEF c
  <2>2. /\ Take(c) /\ Transmit(c, ok)
        /\ UNCHANGED <<conn, up, told, relaySubs, subscriptions, read, published, calls,
                       called>>
        /\ dropped' = IF ok THEN dropped ELSE dropped \cup {e}
        /\ sent' = [sent EXCEPT ![e] = conn]
    BY <1>4 DEF TakeEvent, c
  <2>3. /\ subscriptions' \in Requests /\ dropped' \in SUBSET Events
        /\ sent' \in [Events -> 0 .. MaxConns]
    BY <1>1, <2>2
  <2>4. \A t \in Subs : subscriptions'[t] = IF Names(c, t) /\ (ok \/ c.op = "Req")
                                            THEN c.ver ELSE subscriptions[t]
    BY <2>1, <2>2
  <2> QED BY <1>1, <2>1, <2>2, <2>3, <2>4, ServedCommand
<1> QED BY <1>2, <1>3, <1>4 DEF Serve

-----------------------------------------------------------------------------
(* The outages and the reconnections.                                      *)

LEMMA NoticeClosedStep ==
  ASSUME IInv, NoticeClosed
  PROVE  IInv'
<1>1. /\ task = "serving" /\ task' = "reconnecting" /\ counter' = 0
      /\ UNCHANGED <<cmds, subscriptions, conn, up, told, wires, relaySubs, dropped,
                     sent, read, published, calls, called>>
  BY DEF NoticeClosed, history
<1>2. RETRIES \in Nat \ {0}
  BY TypeFacts DEF IInv
<1>3. TypeOK' /\ AttemptsLeft'
  BY <1>1, <1>2 DEF IInv, TypeOK, AttemptsLeft
<1>4. InSync' /\ LastCallWinsAtFirst'
  BY <1>1 DEF InSync, LastCallWinsAtFirst
<1>5. FutureUnused' /\ WantedInTheEnd'
  BY <1>1 DEF IInv, FutureUnused, WantedInTheEnd
<1> QED BY <1>3, <1>4, <1>5 DEF IInv

\* What is put back into the channel: a Req for each id the map keeps, and no more.
LEMMA ResubscriptionFacts ==
  ASSUME TypeOK, NEW reqs \in Resubscriptions
  PROVE  /\ reqs \in Seq(Command)
         /\ \A i \in 1 .. Len(reqs) : reqs[i].op = "Req"
         /\ \A s \in Subs : subscriptions[s] # None => PendingReq(reqs, s)
<1> DEFINE n == Cardinality(Kept)
<1>1. PICK order \in Bijection(1 .. n, Kept) :
        reqs = [i \in DOMAIN order |-> Req(order[i], subscriptions[order[i]])]
  BY DEF Resubscriptions
<1>2. n \in Nat
  <2>1. IsFiniteSet(Kept)
    BY RelayClientAssumption, FS_Subset DEF Kept
  <2> QED BY <2>1, FS_CardinalityType
<1>3. order \in [1 .. n -> Kept] /\ \A s \in Kept : \E i \in 1 .. n : order[i] = s
  BY DEF Bijection, Injection, Surjection
<1> HIDE DEF n
<1>4. \A s \in Kept : s \in Subs /\ subscriptions[s] \in Vers
  BY DEF TypeOK, Requests, Kept
<1>5. DOMAIN order = 1 .. n
  BY <1>3
<1>6. \A i \in 1 .. n : reqs[i] = Req(order[i], subscriptions[order[i]])
  BY <1>1, <1>5
<1>7. \A i \in 1 .. n : reqs[i] \in Command /\ reqs[i].op = "Req"
  <2> SUFFICES ASSUME NEW i \in 1 .. n PROVE reqs[i] \in Command /\ reqs[i].op = "Req"
    OBVIOUS
  <2>1. order[i] \in Subs /\ subscriptions[order[i]] \in Vers
    BY <1>3, <1>4
  <2>2. Req(order[i], subscriptions[order[i]]) \in Command
    BY <2>1, CommandFacts
  <2> QED BY <1>6, <2>2 DEF Req
<1>8. reqs \in [1 .. n -> Command]
  BY <1>1, <1>5, <1>7
<1>9. reqs \in Seq(Command) /\ Len(reqs) = n
  BY <1>2, <1>8, SeqDef, LenProperties
<1>10. ASSUME NEW s \in Subs, subscriptions[s] # None
       PROVE  PendingReq(reqs, s)
  <2>1. PICK i \in 1 .. n : order[i] = s
    BY <1>3, <1>10 DEF Kept
  <2>2. subscriptions[s] \in Vers
    BY <1>4, <1>10 DEF Kept
  <2>3. reqs[i] = Req(s, subscriptions[s])
    BY <1>6, <2>1
  <2>4. Names(reqs[i], s) /\ reqs[i].op = "Req"
    BY <2>2, <2>3 DEF Names, Req
  <2> QED BY <1>9, <2>4, PendingMeans
<1> QED BY <1>7, <1>9, <1>10

LEMMA ReconnectStep ==
  ASSUME IInv, Reconnect
  PROVE  IInv'
<1>1. PICK reqs \in Resubscriptions : cmds' = cmds \o reqs
  BY DEF Reconnect
<1>2. /\ task = "reconnecting" /\ conn < MaxConns /\ task' = "serving" /\ conn' = conn + 1
      /\ told' = FALSE
      /\ UNCHANGED <<subscriptions, counter, up, wires, relaySubs, dropped, sent, read,
                     published, calls, called>>
  BY DEF Reconnect, history
<1>3. /\ reqs \in Seq(Command)
      /\ \A i \in 1 .. Len(reqs) : reqs[i].op = "Req"
      /\ \A s \in Subs : subscriptions[s] # None => PendingReq(reqs, s)
  BY ResubscriptionFacts DEF IInv
<1>4. conn \in Nat \ {0} /\ MaxConns \in Nat \ {0} /\ cmds \in Seq(Command)
  BY TypeFacts DEF IInv
<1>5. conn' \in Conns /\ conn' > conn /\ conn' # 1
  BY <1>2, <1>4 DEF Conns
<1>6. cmds' \in Seq(Command)
  BY <1>1, <1>3, <1>4, ConcatProperties
<1>7. TypeOK' /\ AttemptsLeft'
  BY <1>2, <1>5, <1>6 DEF IInv, TypeOK, AttemptsLeft
<1>8. FutureUnused'
  <2>1. \A c \in Conns : c > conn' => c > conn
    BY <1>2, <1>4 DEF Conns
  <2> QED BY <1>2, <2>1 DEF IInv, FutureUnused
<1>9. InSync'
  <2> SUFFICES ASSUME NEW s \in Subs
               PROVE  \/ After(relaySubs[conn'], wires[conn'], s) = subscriptions[s]
                      \/ PendingReq(cmds', s)
    BY <1>2 DEF InSync
  <2>1. CASE subscriptions[s] # None
    BY <1>1, <1>3, <1>4, <2>1, PendingConcat
  <2>2. CASE subscriptions[s] = None
    <3>1. wires[conn'] = <<>> /\ relaySubs[conn'] = Nothing
      BY <1>5 DEF IInv, FutureUnused
    <3>2. \A j \in 1 .. Len(<<>>) : ~Names(<<>>[j], s)
      BY EmptySeq
    <3>3. After(relaySubs[conn'], <<>>, s) = relaySubs[conn'][s]
      BY <3>2, EmptySeq, AfterNone
    <3>4. Nothing[s] = None
      BY DEF Nothing
    <3> QED BY <2>2, <3>1, <3>3, <3>4
  <2> QED BY <2>1, <2>2
<1>10. WantedInTheEnd'
  <2> SUFFICES ASSUME NEW s \in Subs, called[s] # None
               PROVE  After(subscriptions, cmds \o reqs, s) # None
    BY <1>1, <1>2 DEF WantedInTheEnd
  <2>1. After(subscriptions, cmds, s) # None
    BY DEF IInv, WantedInTheEnd
  <2> QED BY <1>3, <1>4, <2>1, AfterMoreReqs
<1>11. LastCallWinsAtFirst'
  BY <1>5 DEF LastCallWinsAtFirst
<1> QED BY <1>7, <1>8, <1>9, <1>10, <1>11 DEF IInv

LEMMA ReconnectFailsStep ==
  ASSUME IInv, ReconnectFails
  PROVE  IInv'
<1>1. /\ task = "reconnecting" /\ counter' = counter + 1
      /\ task' = IF counter' < RETRIES THEN "reconnecting" ELSE "ended"
      /\ UNCHANGED <<cmds, subscriptions, conn, up, told, wires, relaySubs, dropped,
                     sent, read, published, calls, called>>
  BY DEF ReconnectFails, history
<1>2. RETRIES \in Nat \ {0} /\ counter \in 0 .. RETRIES /\ counter < RETRIES
  BY <1>1, TypeFacts DEF IInv, AttemptsLeft
<1>3. counter' \in 0 .. RETRIES /\ AttemptsLeft'
  BY <1>1, <1>2 DEF AttemptsLeft
<1>4. task' # "serving" /\ task' \in {"serving", "reconnecting", "ended"}
  BY <1>1
<1>5. TypeOK'
  BY <1>1, <1>3, <1>4 DEF IInv, TypeOK
<1>6. InSync' /\ LastCallWinsAtFirst'
  BY <1>4 DEF InSync, LastCallWinsAtFirst
<1>7. FutureUnused' /\ WantedInTheEnd'
  BY <1>1 DEF IInv, FutureUnused, WantedInTheEnd
<1> QED BY <1>3, <1>5, <1>6, <1>7 DEF IInv

-----------------------------------------------------------------------------
(* The relay and the network.                                              *)

LEMMA RelayReadsStep ==
  ASSUME IInv, NEW c \in Conns, RelayReads(c)
  PROVE  IInv'
<1> DEFINE m == Head(wires[c])
<1>0. TypeOK
  BY DEF IInv
<1>1. /\ wires[c] # <<>> /\ wires[c] \in Seq(Command)
      /\ wires \in [Conns -> Seq(Command)] /\ relaySubs \in [Conns -> Requests]
      /\ read \in [Conns -> SUBSET Events]
  BY <1>0 DEF RelayReads, TypeOK
<1>2. /\ wires' = [wires EXCEPT ![c] = Tail(@)]
      /\ relaySubs' = IF m.op = "Event" THEN relaySubs
                      ELSE [relaySubs EXCEPT ![c][m.sub] = m.ver]
      /\ read' = IF m.op = "Event" THEN [read EXCEPT ![c] = @ \cup {m.event}] ELSE read
      /\ UNCHANGED <<cmds, subscriptions, task, counter, conn, up, told, dropped, sent,
                     published, calls, called>>
  BY DEF RelayReads
<1>3. m \in Command /\ Tail(wires[c]) \in Seq(Command)
  BY <1>1, HeadTailProperties, EmptySeq
<1> HIDE DEF m
<1>4. /\ m.op # "Event" => m.sub \in Subs /\ m.ver \in Vers \cup {None}
      /\ m.op = "Event" => m.event \in Events
  BY <1>3 DEF Command
<1>5. wires' \in [Conns -> Seq(Command)] /\ relaySubs' \in [Conns -> Requests]
  <2>1. wires' \in [Conns -> Seq(Command)]
    BY <1>1, <1>2, <1>3
  <2>2. CASE m.op = "Event"
    BY <1>1, <1>2, <2>1, <2>2
  <2>3. CASE m.op # "Event"
    <3>1. [relaySubs[c] EXCEPT ![m.sub] = m.ver] \in Requests
      BY <1>1, <1>4, <2>3 DEF Requests
    <3>2. relaySubs' = [relaySubs EXCEPT ![c] = [relaySubs[c] EXCEPT ![m.sub] = m.ver]]
      BY <1>2, <2>3
    <3> QED BY <1>1, <2>1, <3>1, <3>2
  <2> QED BY <2>2, <2>3
<1>6. /\ wires'[c] = Tail(wires[c])
      /\ \A d \in Conns : d # c => /\ wires'[d] = wires[d] /\ relaySubs'[d] = relaySubs[d]
                                   /\ read'[d] = read[d]
  BY <1>1, <1>2
<1>7. \A s \in Subs : relaySubs'[c][s] = IF Names(m, s) THEN m.ver ELSE relaySubs[c][s]
  <2>1. CASE m.op = "Event"
    BY <1>2, <2>1 DEF Names
  <2>2. CASE m.op # "Event"
    <3>1. relaySubs[c] \in Requests
      BY <1>1
    <3>2. relaySubs'[c] = [relaySubs[c] EXCEPT ![m.sub] = m.ver]
      BY <1>1, <1>2, <2>2
    <3> QED BY <1>4, <2>2, <3>1, <3>2 DEF Names, Requests
  <2> QED BY <2>1, <2>2
<1>8. TypeOK' /\ AttemptsLeft'
  <2>1. read' \in [Conns -> SUBSET Events]
    BY <1>1, <1>2, <1>4
  <2> QED BY <1>0, <1>2, <1>5, <2>1 DEF IInv, TypeOK, AttemptsLeft
<1>9. FutureUnused'
  <2>1. ~(c > conn)
    BY <1>1 DEF IInv, FutureUnused
  <2> QED BY <1>2, <1>6, <2>1 DEF IInv, FutureUnused
<1>10. \A s \in Subs : After(relaySubs'[c], Tail(wires[c]), s)
                        = After(relaySubs[c], wires[c], s)
  BY <1>1, <1>7, AfterTail DEF m
<1>11. conn \in Conns
  BY <1>0, TypeFacts
<1>12. InSync'
  <2>1. CASE conn = c
    <3>1. SUFFICES ASSUME task = "serving", up[conn], NEW s \in Subs
                   PROVE  \/ After(relaySubs'[conn], wires'[conn], s) = subscriptions[s]
                          \/ PendingReq(cmds, s)
      BY <1>2 DEF InSync
    <3>2. \/ After(relaySubs[conn], wires[conn], s) = subscriptions[s]
          \/ PendingReq(cmds, s)
      BY <3>1 DEF IInv, InSync
    <3>3. After(relaySubs'[conn], wires'[conn], s) = After(relaySubs[conn], wires[conn], s)
      BY <1>6, <1>10, <2>1
    <3> QED BY <3>2, <3>3
  <2>2. CASE conn # c
    BY <1>2, <1>6, <1>11, <2>2 DEF IInv, InSync
  <2> QED BY <2>1, <2>2
<1>13. (WantedInTheEnd /\ LastCallWinsAtFirst)'
  BY <1>2 DEF IInv, WantedInTheEnd, LastCallWinsAtFirst
<1> QED BY <1>8, <1>9, <1>12, <1>13 DEF IInv

LEMMA RelayClosesStep ==
  ASSUME IInv, NEW c \in Conns, RelayCloses(c)
  PROVE  IInv'
<1>1. /\ up' = [up EXCEPT ![c] = FALSE]
      /\ wires' = [wires EXCEPT ![c] = <<>>]
      /\ relaySubs' = [relaySubs EXCEPT ![c] = Nothing]
      /\ UNCHANGED <<cmds, subscriptions, task, counter, conn, told, dropped, sent, read,
                     published, calls, called>>
  BY DEF RelayCloses, history
<1>2. /\ up \in [Conns -> BOOLEAN] /\ wires \in [Conns -> Seq(Command)]
      /\ relaySubs \in [Conns -> Requests] /\ conn \in Conns
  BY DEF IInv, TypeOK
<1>3. Nothing \in Requests /\ <<>> \in Seq(Command)
  BY EmptySeq DEF Nothing, Requests
<1>4. TypeOK' /\ AttemptsLeft'
  <2>1. up' \in [Conns -> BOOLEAN]
    BY <1>1, <1>2
  <2>2. wires' \in [Conns -> Seq(Command)] /\ relaySubs' \in [Conns -> Requests]
    BY <1>1, <1>2, <1>3
  <2> QED BY <1>1, <2>1, <2>2 DEF IInv, TypeOK, AttemptsLeft
<1>5. /\ up'[c] = FALSE /\ wires'[c] = <<>> /\ relaySubs'[c] = Nothing
      /\ \A d \in Conns : d # c => /\ up'[d] = up[d] /\ wires'[d] = wires[d]
                                   /\ relaySubs'[d] = relaySubs[d]
  BY <1>1, <1>2
<1>6. FutureUnused'
  BY <1>1, <1>5 DEF IInv, FutureUnused
<1>7. InSync'
  BY <1>1, <1>2, <1>5 DEF IInv, InSync
<1>8. (WantedInTheEnd /\ LastCallWinsAtFirst)'
  BY <1>1 DEF IInv, WantedInTheEnd, LastCallWinsAtFirst
<1> QED BY <1>4, <1>6, <1>7, <1>8 DEF IInv

LEMMA BreakStep ==
  ASSUME IInv, Break
  PROVE  IInv'
<1>1. /\ up' = [up EXCEPT ![conn] = FALSE]
      /\ UNCHANGED <<cmds, subscriptions, task, counter, conn, told, wires, relaySubs,
                     dropped, sent, read, published, calls, called>>
  BY DEF Break, history
<1>2. up \in [Conns -> BOOLEAN] /\ conn \in Conns
  BY DEF IInv, TypeOK
<1>3. up' \in [Conns -> BOOLEAN] /\ up'[conn] = FALSE
  BY <1>1, <1>2
<1>4. TypeOK' /\ AttemptsLeft'
  BY <1>1, <1>3 DEF IInv, TypeOK, AttemptsLeft
<1>5. InSync'
  BY <1>1, <1>3 DEF InSync
<1>6. (FutureUnused /\ WantedInTheEnd /\ LastCallWinsAtFirst)'
  BY <1>1 DEF IInv, FutureUnused, WantedInTheEnd, LastCallWinsAtFirst
<1> QED BY <1>4, <1>5, <1>6 DEF IInv

LEMMA SocketReportsStep ==
  ASSUME IInv, SocketReports
  PROVE  IInv'
<1>1. /\ told' = TRUE
      /\ UNCHANGED <<cmds, subscriptions, task, counter, conn, up, wires, relaySubs,
                     dropped, sent, read, published, calls, called>>
  BY DEF SocketReports, history
<1>2. TypeOK' /\ AttemptsLeft'
  BY <1>1 DEF IInv, TypeOK, AttemptsLeft
<1>3. (FutureUnused /\ InSync /\ WantedInTheEnd /\ LastCallWinsAtFirst)'
  BY <1>1 DEF IInv, FutureUnused, InSync, WantedInTheEnd, LastCallWinsAtFirst
<1> QED BY <1>2, <1>3 DEF IInv

-----------------------------------------------------------------------------
(* The theorems.                                                           *)

LEMMA NextIInv == IInv /\ [Next]_vars => IInv'
<1> SUFFICES ASSUME IInv, [Next]_vars PROVE IInv'
  OBVIOUS
<1>1. CASE UNCHANGED vars
  BY <1>1 DEF vars, IInv, TypeOK, AttemptsLeft, FutureUnused, InSync, WantedInTheEnd,
              LastCallWinsAtFirst
<1>2. ASSUME NEW s \in Subs, Subscribe(s) \/ CloseSubscription(s) PROVE IInv'
  BY <1>2, SubscribeStep, CloseSubscriptionStep
<1>3. CASE Publish
  BY <1>3, PublishStep
<1>4. CASE Serve
  BY <1>4, ServeStep
<1>5. CASE NoticeClosed
  BY <1>5, NoticeClosedStep
<1>6. CASE Reconnect \/ ReconnectFails
  BY <1>6, ReconnectStep, ReconnectFailsStep
<1>7. ASSUME NEW c \in Conns, RelayReads(c) \/ RelayCloses(c) PROVE IInv'
  BY <1>7, RelayReadsStep, RelayClosesStep
<1>8. CASE Break \/ SocketReports
  BY <1>8, BreakStep, SocketReportsStep
<1> QED BY <1>1, <1>2, <1>3, <1>4, <1>5, <1>6, <1>7, <1>8 DEF Next

\* The inductive invariant holds in every state the client can reach.
THEOREM ClientInvariant == Spec => []IInv
<1>1. Init => IInv
  BY InitIInv
<1>2. IInv /\ [Next]_vars => IInv'
  BY NextIInv
<1> QED BY <1>1, <1>2, PTL DEF Spec

\* The variables of the client keep their types: above all the channel and what is
\* on its way over each connection hold commands about known ids only.
THEOREM ClientTypeCorrect == Spec => []TypeOK
<1>1. IInv => TypeOK
  BY DEF IInv
<1> QED BY <1>1, ClientInvariant, PTL

\* Whatever fails, the map of the task (client.rs: subscriptions) and what the relay
\* holds for the connection in use agree on every id without a waiting request.
THEOREM ClientInSync == Spec => []InSync
<1>1. IInv => InSync
  BY DEF IInv
<1> QED BY <1>1, ClientInvariant, PTL

\* A subscription the user wants is never in neither the map nor the channel.
THEOREM ClientNothingForgotten == Spec => []NothingForgotten
<1>1. IInv => NothingForgotten
  <2> SUFFICES ASSUME IInv, NEW s \in Subs, called[s] # None
               PROVE  subscriptions[s] # None \/ PendingReq(cmds, s)
    BY DEF NothingForgotten
  <2>1. cmds \in Seq(Command) /\ After(subscriptions, cmds, s) # None
    BY DEF IInv, TypeOK, WantedInTheEnd
  <2>2. CASE \A j \in 1 .. Len(cmds) : ~Names(cmds[j], s)
    BY <2>1, <2>2, AfterNone
  <2>3. CASE \E k \in 1 .. Len(cmds) :
               Names(cmds[k], s) /\ \A j \in 1 .. Len(cmds) : j > k => ~Names(cmds[j], s)
    <3>1. PICK k \in 1 .. Len(cmds) :
            Names(cmds[k], s) /\ \A j \in 1 .. Len(cmds) : j > k => ~Names(cmds[j], s)
      BY <2>3
    <3>2. cmds[k].ver # None /\ cmds[k] \in Command
      BY <2>1, <3>1, AfterLast, ElementOfSeq
    <3>3. cmds[k].op = "Req"
      BY <3>1, <3>2, NamedVersion
    <3> QED BY <2>1, <3>1, <3>3, PendingMeans
  <2> QED BY <2>1, <2>2, <2>3, AfterCases
<1> QED BY <1>1, ClientInvariant, PTL

\* Before the first outage commands are served in the order of the calls, so the last
\* call for an id decides.
THEOREM ClientLastCallWinsAtFirst == Spec => []LastCallWinsAtFirst
<1>1. IInv => LastCallWinsAtFirst
  BY DEF IInv
<1> QED BY <1>1, ClientInvariant, PTL

\* When all is served and read, the relay holds exactly the map, and in it every
\* subscription the user wants: an outage leaves no subscription lost for good (though
\* it may leave one too many, which is why LastCallWins fails).
QuietIsActive ==
    Quiet => \A s \in Subs : /\ relaySubs[conn][s] = subscriptions[s]
                             /\ called[s] # None => relaySubs[conn][s] # None

\* The state in which BecomesActive must end: where nothing is left to do, it has.
THEOREM ClientQuietIsActive == Spec => []QuietIsActive
<1>1. ASSUME IInv, Quiet, NEW s \in Subs
      PROVE  /\ relaySubs[conn][s] = subscriptions[s]
             /\ called[s] # None => relaySubs[conn][s] # None
  <2> DEFINE q == wires[conn]
             held == relaySubs[conn]
  <2>1. task = "serving" /\ up[conn] /\ cmds = <<>> /\ q = <<>>
    BY <1>1 DEF Quiet
  <2>2. /\ cmds \in Seq(Command) /\ q \in Seq(Command)
        /\ 1 .. Len(cmds) = {} /\ 1 .. Len(q) = {}
    BY <2>1, EmptySeq
  <2>3. /\ After(held, q, s) = subscriptions[s] \/ PendingReq(cmds, s)
        /\ called[s] # None => After(subscriptions, cmds, s) # None
    BY <1>1, <2>1 DEF IInv, InSync, WantedInTheEnd
  <2> HIDE DEF q, held
  <2>4. ~PendingReq(cmds, s)
    BY <2>2, PendingMeans
  <2>5. After(held, q, s) = held[s] /\ After(subscriptions, cmds, s) = subscriptions[s]
    BY <2>2, AfterNone
  <2>6. held[s] = subscriptions[s] /\ (called[s] # None => held[s] # None)
    BY <2>3, <2>4, <2>5
  <2> QED BY <2>6 DEF held
<1>2. IInv => QuietIsActive
  BY <1>1 DEF QuietIsActive
<1> QED BY <1>2, ClientInvariant, PTL

-----------------------------------------------------------------------------
(* The way of the events: through the channel and over the connections.    *)

\* Events are numbered as they are published.
Numbered ==
    /\ \A e \in EventsIn(cmds) \cup dropped : e <= published
    /\ \A c \in Conns : \A e \in Carried(c) : e <= published

EventsInv == EventsOnceInOrder /\ Numbered

EventOf(c) == IF c.op = "Event" THEN {c.event} ELSE {}

LEMMA EventOfCommand ==
  ASSUME NEW c \in Command
  PROVE  EventOf(c) \in SUBSET Events
BY DEF EventOf, Command

LEMMA EventsInFacts ==
  ASSUME NEW q \in Seq(Command)
  PROVE  /\ EventsIn(q) = {q[i].event : i \in {k \in 1 .. Len(q) : q[k].op = "Event"}}
         /\ EventsIn(q) \in SUBSET Events
<1>1. DOMAIN q = 1 .. Len(q) /\ \A i \in 1 .. Len(q) : q[i] \in Command
  BY LenProperties, ElementOfSeq
<1>2. \A i \in 1 .. Len(q) : q[i].op = "Event" => q[i].event \in Events
  BY <1>1 DEF Command
<1> QED BY <1>1, <1>2 DEF EventsIn

LEMMA EventsInNothing == EventsIn(<<>>) = {} /\ InOrder(<<>>)
BY DEF EventsIn, InOrder

LEMMA EventsAppend ==
  ASSUME NEW q \in Seq(Command), NEW c \in Command
  PROVE  /\ EventsIn(Append(q, c)) = EventsIn(q) \cup EventOf(c)
         /\ InOrder(q) /\ Before(EventsIn(q), EventOf(c)) => InOrder(Append(q, c))
<1> DEFINE r == Append(q, c)
<1>1. /\ r \in Seq(Command) /\ Len(q) \in Nat /\ Len(r) = Len(q) + 1
      /\ \A i \in 1 .. Len(q) : r[i] = q[i]
      /\ r[Len(q) + 1] = c
      /\ DOMAIN q = 1 .. Len(q) /\ DOMAIN r = 1 .. Len(r)
  BY AppendProperties, LenProperties
<1> HIDE DEF r
<1>2. /\ EventsIn(q) = {q[i].event : i \in {k \in 1 .. Len(q) : q[k].op = "Event"}}
      /\ EventsIn(r) = {r[i].event : i \in {k \in 1 .. Len(r) : r[k].op = "Event"}}
  BY <1>1, EventsInFacts
<1>3. 1 .. Len(r) = (1 .. Len(q)) \cup {Len(q) + 1}
  BY <1>1
<1>4. EventsIn(r) = EventsIn(q) \cup EventOf(c)
  BY <1>1, <1>2, <1>3 DEF EventOf
<1>5. ASSUME InOrder(q), Before(EventsIn(q), EventOf(c))
      PROVE  InOrder(r)
  <2> SUFFICES ASSUME NEW i \in 1 .. Len(r), NEW j \in 1 .. Len(r),
                      i < j, r[i].op = "Event", r[j].op = "Event"
               PROVE  r[i].event < r[j].event
    BY <1>1 DEF InOrder
  <2>1. i \in 1 .. Len(q)
    BY <1>1
  <2>2. CASE j \in 1 .. Len(q)
    BY <1>1, <1>5, <2>1, <2>2 DEF InOrder
  <2>3. CASE j = Len(q) + 1
    <3>1. r[i].event \in EventsIn(q) /\ r[j].event \in EventOf(c)
      BY <1>1, <1>2, <2>1, <2>3 DEF EventOf
    <3> QED BY <1>5, <3>1 DEF Before
  <2> QED BY <1>1, <2>2, <2>3
<1> QED BY <1>4, <1>5 DEF r

LEMMA EventsTail ==
  ASSUME NEW q \in Seq(Command), q # <<>>
  PROVE  /\ EventsIn(q) = EventOf(Head(q)) \cup EventsIn(Tail(q))
         /\ InOrder(q) => InOrder(Tail(q)) /\ Before(EventOf(Head(q)), EventsIn(Tail(q)))
<1> DEFINE r == Tail(q)
<1>1. /\ r \in Seq(Command) /\ Len(r) = Len(q) - 1 /\ Len(q) \in Nat \ {0}
      /\ \A i \in 1 .. Len(r) : r[i] = q[i + 1]
      /\ Head(q) = q[1]
      /\ DOMAIN q = 1 .. Len(q) /\ DOMAIN r = 1 .. Len(r)
  BY HeadTailProperties, LenProperties, EmptySeq
<1> HIDE DEF r
<1>2. /\ EventsIn(q) = {q[i].event : i \in {k \in 1 .. Len(q) : q[k].op = "Event"}}
      /\ EventsIn(r) = {r[i].event : i \in {k \in 1 .. Len(r) : r[k].op = "Event"}}
  BY <1>1, EventsInFacts
<1>3. EventsIn(q) \subseteq EventOf(Head(q)) \cup EventsIn(r)
  <2> SUFFICES ASSUME NEW i \in 1 .. Len(q), q[i].op = "Event"
               PROVE  q[i].event \in EventOf(Head(q)) \cup EventsIn(r)
    BY <1>2
  <2>1. CASE i = 1
    BY <1>1, <2>1 DEF EventOf
  <2>2. CASE i # 1
    <3>1. i - 1 \in 1 .. Len(r) /\ r[i - 1] = q[i]
      BY <1>1, <2>2
    <3> QED BY <1>2, <3>1
  <2> QED BY <2>1, <2>2
<1>4. EventOf(Head(q)) \subseteq EventsIn(q)
  <2>1. 1 \in 1 .. Len(q)
    BY <1>1
  <2> QED BY <1>1, <1>2, <2>1 DEF EventOf
<1>5. EventsIn(r) \subseteq EventsIn(q)
  <2> SUFFICES ASSUME NEW i \in 1 .. Len(r), r[i].op = "Event"
               PROVE  r[i].event \in EventsIn(q)
    BY <1>2
  <2>1. i + 1 \in 1 .. Len(q) /\ r[i] = q[i + 1]
    BY <1>1
  <2> QED BY <1>2, <2>1
<1>6. ASSUME InOrder(q)
      PROVE  InOrder(r) /\ Before(EventOf(Head(q)), EventsIn(r))
  <2>1. \A i \in 1 .. Len(r) : i + 1 \in 1 .. Len(q) /\ 1 < i + 1
    BY <1>1
  <2>2. \A i, j \in 1 .. Len(r) : i < j => i + 1 < j + 1
    BY <1>1
  <2>3. InOrder(r)
    <3> SUFFICES ASSUME NEW i \in 1 .. Len(r), NEW j \in 1 .. Len(r),
                        i < j, r[i].op = "Event", r[j].op = "Event"
                 PROVE  r[i].event < r[j].event
      BY <1>1 DEF InOrder
    <3>1. /\ i + 1 \in DOMAIN q /\ j + 1 \in DOMAIN q /\ i + 1 < j + 1
          /\ r[i] = q[i + 1] /\ r[j] = q[j + 1]
      BY <1>1, <2>1, <2>2
    <3> QED BY <1>6, <3>1 DEF InOrder
  <2>4. 1 \in 1 .. Len(q)
    BY <1>1
  <2>5. ASSUME NEW i \in 1 .. Len(r), r[i].op = "Event", q[1].op = "Event"
        PROVE  q[1].event < r[i].event
    BY <1>1, <1>6, <2>1, <2>4, <2>5 DEF InOrder
  <2>6. Before(EventOf(Head(q)), EventsIn(r))
    BY <1>1, <1>2, <2>5 DEF Before, EventOf
  <2> QED BY <2>3, <2>6
<1> QED BY <1>3, <1>4, <1>5, <1>6 DEF r

\* Requests put behind a list change nothing for the events in it.
LEMMA EventsBeforeReqs ==
  ASSUME NEW q \in Seq(Command), NEW reqs \in Seq(Command),
         \A i \in 1 .. Len(reqs) : reqs[i].op = "Req"
  PROVE  /\ EventsIn(q \o reqs) = EventsIn(q)
         /\ InOrder(q) => InOrder(q \o reqs)
<1> DEFINE z == q \o reqs
<1>1. /\ z \in Seq(Command) /\ Len(z) = Len(q) + Len(reqs)
      /\ Len(q) \in Nat /\ Len(reqs) \in Nat
      /\ \A i \in 1 .. Len(q) + Len(reqs) :
            z[i] = IF i <= Len(q) THEN q[i] ELSE reqs[i - Len(q)]
      /\ DOMAIN q = 1 .. Len(q) /\ DOMAIN z = 1 .. Len(z)
  BY ConcatProperties, LenProperties
<1> HIDE DEF z
<1>2. /\ EventsIn(q) = {q[i].event : i \in {k \in 1 .. Len(q) : q[k].op = "Event"}}
      /\ EventsIn(z) = {z[i].event : i \in {k \in 1 .. Len(z) : z[k].op = "Event"}}
  BY <1>1, EventsInFacts
<1>3. ASSUME NEW i \in 1 .. Len(z), z[i].op = "Event"
      PROVE  i \in 1 .. Len(q) /\ z[i] = q[i]
  <2>1. CASE i <= Len(q)
    BY <1>1, <2>1
  <2>2. CASE ~(i <= Len(q))
    <3>1. i - Len(q) \in 1 .. Len(reqs) /\ z[i] = reqs[i - Len(q)]
      BY <1>1, <2>2
    <3> QED BY <1>3, <3>1
  <2> QED BY <2>1, <2>2
<1>4. \A i \in 1 .. Len(q) : i \in 1 .. Len(z) /\ z[i] = q[i]
  BY <1>1
<1>5. EventsIn(z) = EventsIn(q)
  BY <1>2, <1>3, <1>4
<1>6. InOrder(q) => InOrder(z)
  BY <1>1, <1>3, <1>4 DEF InOrder
<1> QED BY <1>5, <1>6 DEF z

\* What makes the invariant true of any channel, connections and dropped events.
LEMMA EventsInvMeans ==
  EventsInv <=> /\ InOrder(cmds) /\ Before(dropped, EventsIn(cmds))
                /\ \A e \in EventsIn(cmds) \cup dropped : e <= published
                /\ \A c \in Conns :
                      /\ InOrder(wires[c]) /\ Before(read[c], EventsIn(wires[c]))
                      /\ Before(Carried(c), EventsIn(cmds))
                      /\ Carried(c) \cap dropped = {}
                      /\ \A e \in Carried(c) : e <= published
                /\ \A c, d \in Conns : c < d => Before(Carried(c), Carried(d))
BY DEF EventsInv, EventsOnceInOrder, Numbered

LEMMA CarriedFacts ==
  ASSUME IInv
  PROVE  /\ cmds \in Seq(Command) /\ EventsIn(cmds) \subseteq Nat /\ published \in Nat
         /\ dropped \subseteq Nat
         /\ \A c \in Conns : /\ wires[c] \in Seq(Command) /\ read[c] \subseteq Nat
                             /\ EventsIn(wires[c]) \subseteq Nat /\ Carried(c) \subseteq Nat
<1>1. /\ cmds \in Seq(Command) /\ dropped \subseteq Events /\ published \in Nat
      /\ \A c \in Conns : wires[c] \in Seq(Command) /\ read[c] \subseteq Events
  BY RelayClientAssumption DEF IInv, TypeOK
<1>2. Events \subseteq Nat
  BY DEF Events
<1>3. /\ EventsIn(cmds) \subseteq Events
      /\ \A c \in Conns : EventsIn(wires[c]) \subseteq Events
  BY <1>1, EventsInFacts
<1> QED BY <1>1, <1>2, <1>3 DEF Carried

\* Fewer events under way, in the same order.
LEMMA EventsFewer ==
  ASSUME EventsInv, UNCHANGED <<dropped, published>>,
         InOrder(cmds'), EventsIn(cmds') \subseteq EventsIn(cmds),
         \A c \in Conns : /\ InOrder(wires'[c]) /\ Before(read'[c], EventsIn(wires'[c]))
                          /\ Carried(c)' \subseteq Carried(c)
  PROVE  EventsInv'
<1>1. Before(dropped', EventsIn(cmds'))
  BY EventsInvMeans DEF Before
<1>2. \A e \in EventsIn(cmds') \cup dropped' : e <= published'
  BY EventsInvMeans
<1>3. ASSUME NEW c \in Conns
      PROVE  /\ InOrder(wires'[c]) /\ Before(read'[c], EventsIn(wires'[c]))
             /\ Before(Carried(c)', EventsIn(cmds'))
             /\ Carried(c)' \cap dropped' = {}
             /\ \A e \in Carried(c)' : e <= published'
  <2>1. /\ Before(Carried(c), EventsIn(cmds)) /\ Carried(c) \cap dropped = {}
        /\ \A e \in Carried(c) : e <= published
    BY EventsInvMeans
  <2>2. Carried(c)' \subseteq Carried(c)
    OBVIOUS
  <2> QED BY <2>1, <2>2 DEF Before
<1>4. ASSUME NEW c \in Conns, NEW d \in Conns, c < d
      PROVE  Before(Carried(c)', Carried(d)')
  <2>1. Before(Carried(c), Carried(d))
    BY <1>4, EventsInvMeans
  <2>2. Carried(c)' \subseteq Carried(c) /\ Carried(d)' \subseteq Carried(d)
    OBVIOUS
  <2> QED BY <2>1, <2>2 DEF Before
<1> QED BY <1>1, <1>2, <1>3, <1>4 DEF EventsInv, EventsOnceInOrder, Numbered

LEMMA InitEvents == Init => EventsInv
<1> SUFFICES ASSUME Init PROVE EventsInv
  OBVIOUS
<1>1. cmds = <<>> /\ dropped = {} /\ \A c \in Conns : wires[c] = <<>> /\ read[c] = {}
  BY DEF Init
<1>2. \A c \in Conns : Carried(c) = {}
  BY <1>1, EventsInNothing DEF Carried
<1> QED BY <1>1, <1>2, EventsInNothing, EventsInvMeans DEF Before

\* A method puts a command behind the others: a newer event, or none.
LEMMA CallEvents ==
  ASSUME IInv, EventsInv, NEW c \in Command, cmds' = Append(cmds, c),
         UNCHANGED <<wires, read, dropped>>,
         \/ c.op # "Event" /\ published' = published
         \/ c.op = "Event" /\ c.event = published + 1 /\ published' = published + 1
  PROVE  EventsInv'
<1>0. /\ cmds \in Seq(Command) /\ EventsIn(cmds) \subseteq Nat /\ published \in Nat
      /\ dropped \subseteq Nat /\ \A d \in Conns : Carried(d) \subseteq Nat
  BY CarriedFacts
<1>1. /\ EventsIn(cmds') = EventsIn(cmds) \cup EventOf(c)
      /\ Before(EventsIn(cmds), EventOf(c)) => InOrder(cmds')
  BY <1>0, EventsAppend, EventsInvMeans
<1>2. \A d \in Conns : Carried(d)' = Carried(d)
  BY DEF Carried
<1>3. CASE c.op # "Event" /\ published' = published
  <2>1. EventOf(c) = {}
    BY <1>3 DEF EventOf
  <2>2. InOrder(cmds') /\ EventsIn(cmds') \subseteq EventsIn(cmds)
    BY <1>1, <2>1 DEF Before
  <2>3. UNCHANGED <<dropped, published>>
    BY <1>3
  <2>4. \A d \in Conns : /\ InOrder(wires'[d]) /\ Before(read'[d], EventsIn(wires'[d]))
                         /\ Carried(d)' \subseteq Carried(d)
    BY <1>2, EventsInvMeans
  <2> QED BY <2>2, <2>3, <2>4, EventsFewer
<1>4. CASE c.op = "Event" /\ c.event = published + 1 /\ published' = published + 1
  <2>1. EventOf(c) = {published + 1}
    BY <1>4 DEF EventOf
  <2>2. /\ \A e \in EventsIn(cmds) \cup dropped : e < published + 1
        /\ \A d \in Conns : \A e \in Carried(d) : e < published + 1
    <3>1. \A e \in Nat : e <= published => e < published + 1
      BY <1>0
    <3>2. /\ \A e \in EventsIn(cmds) \cup dropped : e <= published
          /\ \A d \in Conns : \A e \in Carried(d) : e <= published
      BY EventsInvMeans
    <3> QED BY <1>0, <3>1, <3>2
  <2>3. InOrder(cmds')
    BY <1>1, <2>1, <2>2 DEF Before
  <2>4. /\ Before(dropped, EventsIn(cmds'))
        /\ \A d \in Conns : Before(Carried(d), EventsIn(cmds'))
    BY <1>1, <2>1, <2>2, EventsInvMeans DEF Before
  <2>5. /\ \A e \in EventsIn(cmds') \cup dropped : e <= published + 1
        /\ \A d \in Conns : \A e \in Carried(d) : e <= published + 1
    <3>1. /\ published + 1 <= published + 1
          /\ \A e \in Nat : e < published + 1 => e <= published + 1
      BY <1>0
    <3> QED BY <1>0, <1>1, <2>1, <2>2, <3>1
  <2>6. /\ \A d \in Conns : /\ InOrder(wires'[d]) /\ Before(read'[d], EventsIn(wires'[d]))
                            /\ Carried(d) \cap dropped = {}
        /\ \A d, f \in Conns : d < f => Before(Carried(d), Carried(f))
    BY EventsInvMeans
  <2>7. /\ InOrder(cmds') /\ Before(dropped', EventsIn(cmds'))
        /\ \A d \in Conns : /\ InOrder(wires'[d]) /\ Before(read'[d], EventsIn(wires'[d]))
                            /\ Before(Carried(d)', EventsIn(cmds'))
                            /\ \A f \in Conns : d < f => Before(Carried(d)', Carried(f)')
                            /\ Carried(d)' \cap dropped' = {}
    BY <1>2, <2>3, <2>4, <2>6
  <2>8. /\ \A e \in EventsIn(cmds') \cup dropped' : e <= published'
        /\ \A d \in Conns : \A e \in Carried(d)' : e <= published'
    BY <1>2, <1>4, <2>5
  <2> QED BY <2>7, <2>8 DEF EventsInv, EventsOnceInOrder, Numbered
<1> QED BY <1>3, <1>4

\* What the first command of the channel does to what the connections carry.
LEMMA ServedCarried ==
  ASSUME IInv, NEW c \in Command, NEW ok \in BOOLEAN, Take(c), Transmit(c, ok),
         UNCHANGED read, NEW d \in Conns
  PROVE  /\ up[conn] => ok
         /\ d = conn /\ up[conn] =>
               /\ wires'[d] = Append(wires[d], c)
               /\ EventsIn(wires'[d]) = EventsIn(wires[d]) \cup EventOf(c)
               /\ Carried(d)' = Carried(d) \cup EventOf(c)
         /\ d # conn \/ ~up[conn] => wires'[d] = wires[d] /\ Carried(d)' = Carried(d)
<1>0. TypeOK /\ task = "serving"
  BY TakeFacts DEF IInv
<1>1. wires[d] \in Seq(Command)
  BY <1>0, TypeFacts
<1>2. /\ up[conn] => ok /\ wires'[conn] = Append(wires[conn], c)
      /\ d # conn => wires'[d] = wires[d]
      /\ ~up[conn] => wires' = wires
  BY <1>0, TransmitFacts DEF Transmit
<1>3. Carried(d)' = read[d] \cup EventsIn(wires'[d])
  BY DEF Carried
<1>4. CASE d = conn /\ up[conn]
  <2>1. wires'[d] = Append(wires[d], c)
    BY <1>2, <1>4
  <2>2. EventsIn(wires'[d]) = EventsIn(wires[d]) \cup EventOf(c)
    BY <1>1, <2>1, EventsAppend
  <2> QED BY <1>2, <1>3, <1>4, <2>1, <2>2 DEF Carried
<1>5. CASE d # conn \/ ~up[conn]
  BY <1>2, <1>3, <1>5 DEF Carried
<1> QED BY <1>4, <1>5

\* The first command goes over the connection in use, is lost in it, or, if it is an
\* event that could not be sent, is dropped.
LEMMA ServedEvents ==
  ASSUME IInv, EventsInv, NEW c \in Command, NEW ok \in BOOLEAN, Take(c), Transmit(c, ok),
         UNCHANGED <<conn, read, published>>,
         dropped' = IF ok THEN dropped ELSE dropped \cup EventOf(c)
  PROVE  EventsInv'
<1>0. TypeOK /\ FutureUnused
  BY DEF IInv
<1>1. /\ cmds \in Seq(Command) /\ dropped \subseteq Nat /\ conn \in Conns
      /\ \A d \in Conns : wires[d] \in Seq(Command) /\ Carried(d) \subseteq Nat
      /\ EventOf(c) \subseteq Nat
  BY <1>0, TypeFacts, CarriedFacts, EventOfCommand DEF Events
<1>2. cmds # <<>> /\ Head(cmds) = c /\ cmds' = Tail(cmds)
  BY <1>0, TakeFacts
<1>3. /\ EventsIn(cmds) = EventOf(c) \cup EventsIn(cmds')
      /\ InOrder(cmds') /\ Before(EventOf(c), EventsIn(cmds'))
  BY <1>1, <1>2, EventsTail, EventsInvMeans
<1>4. /\ Before(dropped, EventOf(c)) /\ Before(dropped, EventsIn(cmds'))
      /\ \A d \in Conns : /\ Before(Carried(d), EventOf(c))
                          /\ Before(Carried(d), EventsIn(cmds'))
      /\ \A e \in EventOf(c) \cup EventsIn(cmds') \cup dropped : e <= published
  BY <1>3, EventsInvMeans DEF Before
<1>5. /\ \A d \in Conns : /\ InOrder(wires[d]) /\ Before(read[d], EventsIn(wires[d]))
                          /\ Carried(d) \cap dropped = {}
                          /\ \A e \in Carried(d) : e <= published
      /\ \A d, f \in Conns : d < f => Before(Carried(d), Carried(f))
  BY EventsInvMeans
<1>6. /\ EventOf(c) \cap dropped = {}
      /\ \A d \in Conns : Carried(d) \cap EventOf(c) = {}
  BY <1>1, <1>4 DEF Before
<1>7. CASE up[conn]
  <2>1. /\ dropped' = dropped /\ wires'[conn] = Append(wires[conn], c)
        /\ EventsIn(wires'[conn]) = EventsIn(wires[conn]) \cup EventOf(c)
        /\ \A d \in Conns : d # conn => wires'[d] = wires[d] /\ Carried(d)' = Carried(d)
        /\ \A d \in Conns : d = conn => Carried(d)' = Carried(d) \cup EventOf(c)
    BY <1>1, <1>7, ServedCarried
  <2>2. InOrder(wires'[conn]) /\ Before(read[conn], EventsIn(wires'[conn]))
    <3>1. /\ EventsIn(wires[conn]) \subseteq Carried(conn) /\ read[conn] \subseteq Carried(conn)
          /\ Before(Carried(conn), EventOf(c))
      BY <1>1, <1>4 DEF Carried
    <3>2. Before(EventsIn(wires[conn]), EventOf(c)) /\ Before(read[conn], EventOf(c))
      BY <3>1 DEF Before
    <3>3. InOrder(Append(wires[conn], c))
      BY <1>1, <1>5, <3>2, EventsAppend
    <3>4. Before(read[conn], EventsIn(wires[conn]))
      BY <1>1, <1>5
    <3>5. Before(read[conn], EventsIn(wires'[conn]))
      BY <2>1, <3>2, <3>4 DEF Before
    <3> QED BY <2>1, <3>3, <3>5
  <2>3. ASSUME NEW d \in Conns
        PROVE  /\ InOrder(wires'[d]) /\ Before(read'[d], EventsIn(wires'[d]))
               /\ Before(Carried(d)', EventsIn(cmds'))
               /\ Carried(d)' \cap dropped' = {}
               /\ \A e \in Carried(d)' : e <= published
    <3>1. CASE d = conn
      BY <1>3, <1>4, <1>5, <1>6, <2>1, <2>2, <3>1 DEF Before
    <3>2. CASE d # conn
      BY <1>4, <1>5, <2>1, <3>2
    <3> QED BY <3>1, <3>2
  <2>4. ASSUME NEW d \in Conns, NEW f \in Conns, d < f
        PROVE  Before(Carried(d)', Carried(f)')
    <3>1. d # f
      BY <2>4 DEF Conns
    <3>2. Before(Carried(d), Carried(f))
      BY <1>5, <2>4
    <3>3. CASE d = conn
      <4>1. wires[f] = <<>> /\ read[f] = {}
        BY <1>0, <2>4, <3>3 DEF FutureUnused, Conns
      <4>2. Carried(f)' = {}
        BY <2>1, <3>1, <3>3, <4>1, EventsInNothing DEF Carried
      <4> QED BY <4>2 DEF Before
    <3>4. CASE f = conn
      <4>1. Carried(d)' = Carried(d) /\ Carried(f)' = Carried(f) \cup EventOf(c)
        BY <2>1, <3>1, <3>4
      <4>2. Before(Carried(d), EventOf(c))
        BY <1>4
      <4> QED BY <3>2, <4>1, <4>2 DEF Before
    <3>5. CASE d # conn /\ f # conn
      BY <2>1, <3>2, <3>5
    <3> QED BY <3>3, <3>4, <3>5
  <2> QED BY <1>3, <1>4, <2>1, <2>3, <2>4 DEF EventsInv, EventsOnceInOrder, Numbered
<1>8. CASE ~up[conn]
  <2>1. \A d \in Conns : wires'[d] = wires[d] /\ Carried(d)' = Carried(d)
    BY <1>8, ServedCarried
  <2>2. dropped' \subseteq dropped \cup EventOf(c)
    OBVIOUS
  <2>3. Before(dropped', EventsIn(cmds'))
    BY <1>3, <1>4, <2>2 DEF Before
  <2>4. \A d \in Conns : Carried(d) \cap dropped' = {}
    BY <1>5, <1>6, <2>2
  <2>5. \A e \in EventsIn(cmds') \cup dropped' : e <= published
    BY <1>4, <2>2
  <2> QED BY <1>3, <1>4, <1>5, <2>1, <2>3, <2>4, <2>5
         DEF EventsInv, EventsOnceInOrder, Numbered
<1> QED BY <1>7, <1>8

\* The event that a step of the task takes out of the channel, if it takes one.
LEMMA ServeFacts ==
  ASSUME Serve
  PROVE  \E c \in Command, ok \in BOOLEAN :
            /\ Take(c) /\ Transmit(c, ok)
            /\ UNCHANGED <<conn, up, read, published>>
            /\ dropped' = IF ok THEN dropped ELSE dropped \cup EventOf(c)
            /\ sent' = IF c.op = "Event" THEN [sent EXCEPT ![c.event] = conn] ELSE sent
<1>1. ASSUME NEW ok \in BOOLEAN, NEW s \in Subs, NEW v \in Vers, TakeReq(s, v, ok)
      PROVE  /\ Req(s, v) \in Command /\ Take(Req(s, v)) /\ Transmit(Req(s, v), ok)
             /\ UNCHANGED <<conn, up, read, published, dropped, sent>>
             /\ EventOf(Req(s, v)) = {} /\ Req(s, v).op # "Event"
  BY <1>1, CommandFacts DEF TakeReq, history, EventOf, Req
<1>2. ASSUME NEW ok \in BOOLEAN, NEW s \in Subs, TakeClose(s, ok)
      PROVE  /\ Close(s) \in Command /\ Take(Close(s)) /\ Transmit(Close(s), ok)
             /\ UNCHANGED <<conn, up, read, published, dropped, sent>>
             /\ EventOf(Close(s)) = {} /\ Close(s).op # "Event"
  BY <1>2, CommandFacts DEF TakeClose, history, EventOf, Close
<1>3. ASSUME NEW ok \in BOOLEAN, NEW e \in Events, TakeEvent(e, ok)
      PROVE  /\ Event(e) \in Command /\ Take(Event(e)) /\ Transmit(Event(e), ok)
             /\ UNCHANGED <<conn, up, read, published>>
             /\ dropped' = IF ok THEN dropped ELSE dropped \cup {e}
             /\ sent' = [sent EXCEPT ![e] = conn]
             /\ EventOf(Event(e)) = {e} /\ Event(e).op = "Event" /\ Event(e).event = e
  BY <1>3, CommandFacts DEF TakeEvent, EventOf, Event
<1>4. PICK ok \in BOOLEAN : \/ \E s \in Subs, v \in Vers : TakeReq(s, v, ok)
                            \/ \E s \in Subs : TakeClose(s, ok)
                            \/ \E e \in Events : TakeEvent(e, ok)
  BY DEF Serve
<1>5. CASE \E s \in Subs, v \in Vers : TakeReq(s, v, ok)
  <2>1. PICK s \in Subs, v \in Vers : TakeReq(s, v, ok)
    BY <1>5
  <2>2. Req(s, v) \in Command
    BY <1>1, <2>1
  <2> QED BY <1>1, <2>1, <2>2
<1>6. CASE \E s \in Subs : TakeClose(s, ok)
  <2>1. PICK s \in Subs : TakeClose(s, ok)
    BY <1>6
  <2>2. Close(s) \in Command
    BY <1>2, <2>1
  <2> QED BY <1>2, <2>1, <2>2
<1>7. CASE \E e \in Events : TakeEvent(e, ok)
  <2>1. PICK e \in Events : TakeEvent(e, ok)
    BY <1>7
  <2> QED BY <1>3, <2>1
<1> QED BY <1>4, <1>5, <1>6, <1>7

LEMMA ServeEvents ==
  ASSUME IInv, EventsInv, Serve
  PROVE  EventsInv'
<1>1. PICK c \in Command, ok \in BOOLEAN :
        /\ Take(c) /\ Transmit(c, ok)
        /\ UNCHANGED <<conn, up, read, published>>
        /\ dropped' = IF ok THEN dropped ELSE dropped \cup EventOf(c)
  BY ServeFacts
<1> QED BY <1>1, ServedEvents

\* The relay's reading moves an event from the wire to what was read, and no further.
LEMMA ReadEvents ==
  ASSUME IInv, EventsInv, NEW c \in Conns, RelayReads(c)
  PROVE  /\ UNCHANGED <<cmds, conn, up, dropped, sent, published>>
         /\ \A d \in Conns : /\ InOrder(wires'[d]) /\ Before(read'[d], EventsIn(wires'[d]))
                             /\ Carried(d)' = Carried(d)
<1> DEFINE m == Head(wires[c])
<1>1. /\ wires \in [Conns -> Seq(Command)] /\ read \in [Conns -> SUBSET Events]
      /\ wires[c] \in Seq(Command) /\ wires[c] # <<>>
  BY DEF IInv, TypeOK, RelayReads
<1>2. /\ wires' = [wires EXCEPT ![c] = Tail(wires[c])]
      /\ UNCHANGED <<cmds, conn, up, dropped, sent, published>>
      /\ \/ m.op = "Event" /\ read' = [read EXCEPT ![c] = read[c] \cup {m.event}]
         \/ m.op # "Event" /\ read' = read
  BY DEF RelayReads
<1>3. /\ EventsIn(wires[c]) = EventOf(m) \cup EventsIn(Tail(wires[c]))
      /\ InOrder(Tail(wires[c])) /\ Before(EventOf(m), EventsIn(Tail(wires[c])))
      /\ Before(read[c], EventsIn(wires[c]))
  BY <1>1, EventsTail, EventsInvMeans
<1>4. /\ wires'[c] = Tail(wires[c]) /\ read'[c] = read[c] \cup EventOf(m)
      /\ \A d \in Conns : d # c => wires'[d] = wires[d] /\ read'[d] = read[d]
  BY <1>1, <1>2 DEF EventOf
<1> HIDE DEF m
<1>5. ASSUME NEW d \in Conns
      PROVE  /\ InOrder(wires'[d]) /\ Before(read'[d], EventsIn(wires'[d]))
             /\ Carried(d)' = Carried(d)
  <2>1. CASE d = c
    <3>1. Before(read'[c], EventsIn(wires'[c]))
      BY <1>3, <1>4 DEF Before
    <3>2. Carried(c)' = Carried(c)
      BY <1>3, <1>4 DEF Carried
    <3> QED BY <1>3, <1>4, <2>1, <3>1, <3>2
  <2>2. CASE d # c
    BY <1>4, <2>2, EventsInvMeans DEF Carried
  <2> QED BY <2>1, <2>2
<1> QED BY <1>2, <1>5

\* What the relay has not read from a connection it closes is lost.
LEMMA CloseEvents ==
  ASSUME IInv, EventsInv, NEW c \in Conns, RelayCloses(c)
  PROVE  /\ UNCHANGED <<cmds, conn, dropped, sent, read, published>>
         /\ up' = [up EXCEPT ![c] = FALSE]
         /\ Carried(c)' = read[c]
         /\ \A d \in Conns : /\ InOrder(wires'[d]) /\ Before(read'[d], EventsIn(wires'[d]))
                             /\ d # c => Carried(d)' = Carried(d)
                             /\ Carried(d)' \subseteq Carried(d)
<1>1. /\ wires \in [Conns -> Seq(Command)] /\ wires' = [wires EXCEPT ![c] = <<>>]
      /\ UNCHANGED <<cmds, conn, dropped, sent, read, published>>
      /\ up' = [up EXCEPT ![c] = FALSE]
  BY DEF IInv, TypeOK, RelayCloses, history
<1>2. wires'[c] = <<>> /\ \A d \in Conns : d # c => wires'[d] = wires[d]
  BY <1>1
<1>3. Carried(c)' = read[c] /\ \A d \in Conns : d # c => Carried(d)' = Carried(d)
  BY <1>1, <1>2, EventsInNothing DEF Carried
<1>4. ASSUME NEW d \in Conns
      PROVE  InOrder(wires'[d]) /\ Before(read'[d], EventsIn(wires'[d]))
  <2>1. CASE d = c
    BY <1>2, <2>1, EventsInNothing DEF Before
  <2>2. CASE d # c
    BY <1>1, <1>2, <2>2, EventsInvMeans
  <2> QED BY <2>1, <2>2
<1>5. Carried(c)' \subseteq Carried(c)
  BY <1>3 DEF Carried
<1> QED BY <1>1, <1>3, <1>4, <1>5

\* The other steps of the task and the network touch no event.
LEMMA QuietEvents ==
  ASSUME IInv, EventsInv,
         \/ NoticeClosed \/ Reconnect \/ ReconnectFails \/ Break \/ SocketReports
         \/ UNCHANGED vars
  PROVE  /\ UNCHANGED <<wires, dropped, sent, read, published>>
         /\ up' = up \/ up' = [up EXCEPT ![conn] = FALSE]
         /\ InOrder(cmds') /\ EventsIn(cmds') = EventsIn(cmds)
         /\ \A d \in Conns : Carried(d)' = Carried(d)
<1>1. CASE NoticeClosed \/ ReconnectFails \/ Break \/ SocketReports \/ UNCHANGED vars
  <2>1. /\ UNCHANGED <<cmds, wires, dropped, sent, read, published>>
        /\ up' = up \/ up' = [up EXCEPT ![conn] = FALSE]
    BY <1>1 DEF NoticeClosed, ReconnectFails, Break, SocketReports, history, vars
  <2> QED BY <2>1, EventsInvMeans DEF Carried
<1>2. CASE Reconnect
  <2>1. PICK reqs \in Resubscriptions : cmds' = cmds \o reqs
    BY <1>2 DEF Reconnect
  <2>2. UNCHANGED <<up, wires, dropped, sent, read, published>>
    BY <1>2 DEF Reconnect, history
  <2>3. /\ cmds \in Seq(Command) /\ reqs \in Seq(Command)
        /\ \A i \in 1 .. Len(reqs) : reqs[i].op = "Req"
    BY ResubscriptionFacts DEF IInv, TypeOK
  <2>4. InOrder(cmds') /\ EventsIn(cmds') = EventsIn(cmds)
    BY <2>1, <2>3, EventsBeforeReqs, EventsInvMeans
  <2> QED BY <2>2, <2>4 DEF Carried
<1> QED BY <1>1, <1>2

LEMMA UserEvents ==
  ASSUME IInv, NEW s \in Subs, Subscribe(s) \/ CloseSubscription(s)
  PROVE  /\ UNCHANGED <<conn, up, wires, dropped, sent, read, published>>
         /\ \E c \in Command : c.op # "Event" /\ cmds' = Append(cmds, c)
<1>1. calls' \in Vers \/ CloseSubscription(s)
  BY RelayClientAssumption DEF Subscribe, Vers, IInv, TypeOK
<1>2. \E c \in Command : c.op # "Event" /\ cmds' = Append(cmds, c)
  BY <1>1, CommandFacts DEF Subscribe, CloseSubscription, Req, Close
<1> QED BY <1>2 DEF Subscribe, CloseSubscription

LEMMA PublishEvents ==
  ASSUME IInv, Publish
  PROVE  /\ UNCHANGED <<conn, up, wires, dropped, sent, read>>
         /\ published' = published + 1 /\ published' \in Events
         /\ Event(published') \in Command /\ EventOf(Event(published')) = {published'}
         /\ cmds' = Append(cmds, Event(published'))
<1>1. published' = published + 1 /\ published' \in Events
  BY RelayClientAssumption DEF Publish, Events, IInv, TypeOK
<1> QED BY <1>1, CommandFacts DEF Publish, EventOf, Event

LEMMA NextEvents ==
  ASSUME IInv, EventsInv, [Next]_vars
  PROVE  EventsInv'
<1>1. ASSUME NEW s \in Subs, Subscribe(s) \/ CloseSubscription(s)
      PROVE  EventsInv'
  BY <1>1, UserEvents, CallEvents
<1>2. CASE Publish
  <2>1. Event(published').op = "Event" /\ Event(published').event = published'
    BY DEF Event
  <2> QED BY <1>2, <2>1, PublishEvents, CallEvents
<1>3. CASE Serve
  BY <1>3, ServeEvents
<1>4. ASSUME NEW c \in Conns, RelayReads(c)
      PROVE  EventsInv'
  <2>1. InOrder(cmds') /\ EventsIn(cmds') \subseteq EventsIn(cmds)
    BY <1>4, ReadEvents, EventsInvMeans
  <2> QED BY <1>4, <2>1, ReadEvents, EventsFewer
<1>5. ASSUME NEW c \in Conns, RelayCloses(c)
      PROVE  EventsInv'
  <2>1. InOrder(cmds') /\ EventsIn(cmds') \subseteq EventsIn(cmds)
    BY <1>5, CloseEvents, EventsInvMeans
  <2> QED BY <1>5, <2>1, CloseEvents, EventsFewer
<1>6. CASE \/ NoticeClosed \/ Reconnect \/ ReconnectFails \/ Break \/ SocketReports
           \/ UNCHANGED vars
  <2>1. \A c \in Conns : InOrder(wires'[c]) /\ Before(read'[c], EventsIn(wires'[c]))
    BY <1>6, QuietEvents, EventsInvMeans
  <2> QED BY <1>6, <2>1, QuietEvents, EventsFewer
<1> QED BY <1>1, <1>2, <1>3, <1>4, <1>5, <1>6 DEF Next

LEMMA InvariantEvents == Spec => [](IInv /\ EventsInv)
<1>1. Init => EventsInv
  BY InitEvents
<1>2. IInv /\ EventsInv /\ [Next]_vars => EventsInv'
  BY NextEvents
<1> QED BY <1>1, <1>2, ClientInvariant, PTL DEF Spec

\* An event goes out once, and each connection carries events in the order of the calls,
\* later ones than the connections before, whatever fails on their way.
THEOREM ClientEventsOnceInOrder == Spec => []EventsOnceInOrder
<1>1. EventsInv => EventsOnceInOrder
  BY DEF EventsInv
<1> QED BY <1>1, InvariantEvents, PTL

-----------------------------------------------------------------------------
(* How events are lost.                                                    *)

Unsent == \A e \in Events : e > published => sent[e] = 0

LostInv == LostWithItsConnection /\ Unsent

\* What LostWithItsConnection says of one event.
Safe(e) ==
    IF sent[e] = 0 THEN e \in EventsIn(cmds)
    ELSE /\ up[sent[e]] => e \in Carried(sent[e])
         /\ \A later \in Carried(sent[e]) : e < later => e \in Carried(sent[e])

LEMMA LostMeans == LostWithItsConnection <=> \A e \in 1 .. published : Safe(e)
BY DEF LostWithItsConnection, Safe

LEMMA SentFacts ==
  ASSUME IInv
  PROVE  /\ published \in Nat /\ published \in 0 .. MaxEvents /\ MaxEvents \in Nat
         /\ 1 .. published \subseteq Events
         /\ sent \in [Events -> 0 .. MaxConns]
         /\ \A e \in Events : sent[e] # 0 => sent[e] \in Conns
         /\ conn \in Conns /\ conn # 0 /\ up \in [Conns -> BOOLEAN]
<1>1. /\ published \in 0 .. MaxEvents /\ MaxEvents \in Nat /\ MaxConns \in Nat \ {0}
      /\ sent \in [Events -> 0 .. MaxConns] /\ conn \in Conns /\ up \in [Conns -> BOOLEAN]
  BY RelayClientAssumption DEF IInv, TypeOK
<1>2. 1 .. published \subseteq Events
  BY <1>1 DEF Events
<1>3. \A e \in Events : sent[e] # 0 => sent[e] \in Conns
  <2>1. \A e \in Events : sent[e] \in 0 .. MaxConns
    BY <1>1
  <2> QED BY <1>1, <2>1 DEF Conns
<1> QED BY <1>1, <1>2, <1>3 DEF Conns

\* Nothing changes for the events but that connections break.
LEMMA LostKept ==
  ASSUME IInv, LostInv, UNCHANGED <<sent, published>>,
         EventsIn(cmds') = EventsIn(cmds),
         \A d \in Conns : up'[d] => up[d],
         \A d \in Conns : Carried(d)' = Carried(d)
  PROVE  LostInv'
<1>1. ASSUME NEW e \in 1 .. published
      PROVE  Safe(e)'
  <2>1. Safe(e) /\ (sent[e] # 0 => sent[e] \in Conns)
    BY SentFacts, LostMeans DEF LostInv
  <2> QED BY <2>1 DEF Safe
<1>2. LostWithItsConnection'
  BY <1>1 DEF LostWithItsConnection, Safe
<1> QED BY <1>2 DEF LostInv, Unsent

LEMMA InitLost == Init => LostInv
<1> SUFFICES ASSUME Init PROVE LostInv
  OBVIOUS
<1>1. published = 0 /\ sent = [e \in Events |-> 0]
  BY DEF Init
<1>2. 1 .. published = {}
  BY <1>1
<1> QED BY <1>1, <1>2 DEF LostInv, LostWithItsConnection, Unsent

\* A new event waits in the channel.
LEMMA PublishLost ==
  ASSUME IInv, LostInv, Publish
  PROVE  LostInv'
<1>1. /\ UNCHANGED <<up, wires, sent, read>> /\ published' = published + 1
      /\ published' \in Events /\ cmds \in Seq(Command)
      /\ EventsIn(cmds') = EventsIn(cmds) \cup {published'}
  BY PublishEvents, EventsAppend DEF IInv, TypeOK
<1>2. published \in Nat /\ 1 .. published' = (1 .. published) \cup {published'}
  BY <1>1, SentFacts
<1>3. sent[published'] = 0
  BY <1>1, <1>2 DEF LostInv, Unsent
<1>4. \A d \in Conns : Carried(d)' = Carried(d)
  BY <1>1 DEF Carried
<1>5. ASSUME NEW e \in 1 .. published'
      PROVE  Safe(e)'
  <2>1. CASE e = published'
    BY <1>1, <1>3, <2>1 DEF Safe
  <2>2. CASE e \in 1 .. published
    <3>1. Safe(e) /\ (sent[e] # 0 => sent[e] \in Conns)
      BY <2>2, SentFacts, LostMeans DEF LostInv
    <3> QED BY <1>1, <1>4, <3>1 DEF Safe
  <2> QED BY <1>2, <2>1, <2>2
<1>6. Unsent'
  <2>1. \A e \in Events : e > published' => e > published
    BY <1>1, <1>2 DEF Events
  <2> QED BY <1>1, <2>1 DEF LostInv, Unsent
<1> QED BY <1>5, <1>6 DEF LostInv, LostWithItsConnection, Safe

\* An event leaves the channel over the connection in use, and as the last one sent.
LEMMA ServeLost ==
  ASSUME IInv, EventsInv, LostInv, Serve
  PROVE  LostInv'
<1>1. PICK c \in Command, ok \in BOOLEAN :
        /\ Take(c) /\ Transmit(c, ok)
        /\ UNCHANGED <<conn, up, read, published>>
        /\ sent' = IF c.op = "Event" THEN [sent EXCEPT ![c.event] = conn] ELSE sent
  BY ServeFacts
<1>2. /\ conn \in Conns
      /\ \A d \in Conns : d # conn \/ ~up[conn] => Carried(d)' = Carried(d)
      /\ \A d \in Conns : d = conn /\ up[conn] => Carried(d)' = Carried(d) \cup EventOf(c)
  <2>1. conn \in Conns /\ UNCHANGED read
    BY <1>1, SentFacts
  <2> QED BY <1>1, <2>1, ServedCarried
<1>3. EventsIn(cmds) = EventOf(c) \cup EventsIn(cmds')
  <2>1. cmds \in Seq(Command) /\ cmds # <<>> /\ Head(cmds) = c /\ cmds' = Tail(cmds)
    BY <1>1, TakeFacts DEF IInv, TypeOK
  <2> QED BY <2>1, EventsTail
<1>4. CASE c.op # "Event"
  <2>1. EventOf(c) = {} /\ sent' = sent
    BY <1>1, <1>4 DEF EventOf
  <2>2. \A d \in Conns : Carried(d)' = Carried(d)
    BY <1>2, <2>1
  <2> QED BY <1>1, <1>3, <2>1, <2>2, LostKept
<1>5. CASE c.op = "Event"
  <2> DEFINE x == c.event
  <2>1. /\ EventOf(c) = {x} /\ x \in Events /\ sent' = [sent EXCEPT ![x] = conn]
        /\ sent \in [Events -> 0 .. MaxConns] /\ 1 .. published \subseteq Events
        /\ conn # 0 /\ published \in Nat
    BY <1>1, <1>5, EventOfCommand, SentFacts DEF EventOf
  <2>2. x <= published /\ \A d \in Conns : Before(Carried(d), {x})
    BY <1>3, <2>1, EventsInvMeans DEF Before
  <2> HIDE DEF x
  <2>3. sent'[x] = conn /\ \A e \in Events : e # x => sent'[e] = sent[e]
    BY <2>1
  <2>4. \A d \in Conns : \A y \in Carried(d) : y \in Nat /\ y < x
    BY <2>2, CarriedFacts DEF Before
  <2>5. x \in Nat
    BY <2>1 DEF Events
  <2>6. Safe(x)'
    <3>1. PICK k \in Conns : k = conn
      BY <1>2
    <3>2. up[k] => x \in Carried(k)'
      BY <1>2, <2>1, <3>1
    <3>3. \A later \in Carried(k)' : ~(x < later)
      <4>1. \A later \in Carried(k) \cup {x} : ~(x < later)
        BY <2>4, <2>5
      <4>2. Carried(k)' \subseteq Carried(k) \cup {x}
        BY <1>2, <2>1, <3>1
      <4> QED BY <4>1, <4>2
    <3>4. sent'[x] = k /\ k # 0 /\ up' = up
      BY <1>1, <2>1, <2>3, <3>1
    <3> QED BY <3>2, <3>3, <3>4 DEF Safe
  <2>7. ASSUME NEW e \in 1 .. published, e # x
        PROVE  Safe(e)'
    <3>1. /\ Safe(e) /\ e \in Events /\ sent'[e] = sent[e]
          /\ sent[e] # 0 => sent[e] \in Conns
      BY <2>1, <2>3, <2>7, SentFacts, LostMeans DEF LostInv
    <3>2. CASE sent[e] = 0
      BY <1>3, <2>1, <2>7, <3>1, <3>2 DEF Safe
    <3>3. CASE sent[e] # 0 /\ (sent[e] # conn \/ ~up[conn])
      BY <1>1, <1>2, <3>1, <3>3 DEF Safe
    <3>4. CASE sent[e] = conn /\ up[conn]
      <4>1. PICK k \in Conns : k = conn
        BY <1>2
      <4>2. e \in Carried(k)'
        BY <1>2, <2>1, <3>1, <3>4, <4>1 DEF Safe
      <4> QED BY <1>1, <2>1, <3>1, <3>4, <4>1, <4>2 DEF Safe
    <3> QED BY <3>2, <3>3, <3>4
  <2>8. Unsent'
    <3>1. \A e \in Events : e > published => e # x
      BY <2>1, <2>2 DEF Events
    <3> QED BY <1>1, <2>3, <3>1 DEF LostInv, Unsent
  <2>9. \A e \in 1 .. published : Safe(e)'
    BY <2>6, <2>7
  <2> QED BY <1>1, <2>8, <2>9 DEF LostInv, LostWithItsConnection, Safe
<1> QED BY <1>4, <1>5

\* What the relay had read of a connection that it closes comes before what it had not.
LEMMA CloseLost ==
  ASSUME IInv, EventsInv, LostInv, NEW c \in Conns, RelayCloses(c)
  PROVE  LostInv'
<1>1. /\ UNCHANGED <<cmds, sent, published>> /\ up' = [up EXCEPT ![c] = FALSE]
      /\ Carried(c)' = read[c]
      /\ \A d \in Conns : d # c => Carried(d)' = Carried(d)
  BY CloseEvents
<1>2. up'[c] = FALSE /\ \A d \in Conns : d # c => up'[d] = up[d]
  BY <1>1, SentFacts
<1>3. ASSUME NEW e \in 1 .. published
      PROVE  Safe(e)'
  <2>1. Safe(e) /\ (sent[e] # 0 => sent[e] \in Conns)
    BY SentFacts, LostMeans DEF LostInv
  <2>2. CASE sent[e] = 0 \/ sent[e] # c
    BY <1>1, <1>2, <2>1, <2>2 DEF Safe
  <2>3. CASE sent[e] # 0 /\ sent[e] = c
    <3>1. ASSUME NEW later \in read[c], e < later
          PROVE  e \in read[c]
      <4>1. later \in Carried(c) /\ later \in Nat
        BY CarriedFacts DEF Carried
      <4>2. e \in read[c] \/ e \in EventsIn(wires[c])
        BY <2>1, <2>3, <3>1, <4>1 DEF Safe, Carried
      <4>3. e \in EventsIn(wires[c]) => later < e
        BY EventsInvMeans DEF Before
      <4> QED BY <3>1, <4>1, <4>2, <4>3
    <3> QED BY <1>1, <1>2, <2>3, <3>1 DEF Safe
  <2> QED BY <2>2, <2>3
<1> QED BY <1>1, <1>3 DEF LostInv, LostWithItsConnection, Safe, Unsent

LEMMA NextLost ==
  ASSUME IInv, EventsInv, LostInv, [Next]_vars
  PROVE  LostInv'
<1>1. ASSUME NEW s \in Subs, Subscribe(s) \/ CloseSubscription(s)
      PROVE  LostInv'
  <2>1. UNCHANGED <<up, wires, sent, read, published>>
    BY <1>1, UserEvents
  <2>2. PICK c \in Command : c.op # "Event" /\ cmds' = Append(cmds, c)
    BY <1>1, UserEvents
  <2>3. EventsIn(cmds') = EventsIn(cmds)
    BY <2>2, EventsAppend DEF IInv, TypeOK, EventOf
  <2>4. \A d \in Conns : Carried(d)' = Carried(d)
    BY <2>1 DEF Carried
  <2> QED BY <2>1, <2>3, <2>4, LostKept
<1>2. CASE Publish
  BY <1>2, PublishLost
<1>3. CASE Serve
  BY <1>3, ServeLost
<1>4. ASSUME NEW c \in Conns, RelayReads(c)
      PROVE  LostInv'
  <2>1. /\ UNCHANGED <<cmds, up, sent, published>>
        /\ \A d \in Conns : Carried(d)' = Carried(d)
    BY <1>4, ReadEvents
  <2> QED BY <2>1, LostKept
<1>5. ASSUME NEW c \in Conns, RelayCloses(c)
      PROVE  LostInv'
  BY <1>5, CloseLost
<1>6. CASE \/ NoticeClosed \/ Reconnect \/ ReconnectFails \/ Break \/ SocketReports
           \/ UNCHANGED vars
  <2>1. /\ UNCHANGED <<sent, published>> /\ EventsIn(cmds') = EventsIn(cmds)
        /\ up' = up \/ up' = [up EXCEPT ![conn] = FALSE]
        /\ \A d \in Conns : Carried(d)' = Carried(d)
    BY <1>6, QuietEvents
  <2>2. \A d \in Conns : up'[d] => up[d]
    BY <2>1, SentFacts
  <2> QED BY <2>1, <2>2, LostKept
<1> QED BY <1>1, <1>2, <1>3, <1>4, <1>5, <1>6 DEF Next

\* An accepted event waits in the channel or went over one connection; there it is lost
\* only when that connection breaks, and with every event sent over it later.
THEOREM ClientLostWithItsConnection == Spec => []LostWithItsConnection
<1>1. Init => LostInv
  BY InitLost
<1>2. IInv /\ EventsInv /\ LostInv /\ [Next]_vars => LostInv'
  BY NextLost
<1>3. LostInv => LostWithItsConnection
  BY DEF LostInv
<1> QED BY <1>1, <1>2, <1>3, InvariantEvents, PTL DEF Spec
=============================================================================
