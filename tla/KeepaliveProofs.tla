-------------------------- MODULE KeepaliveProofs ---------------------------
(***************************************************************************)
(* Proofs about the keepalive of a connection, for every interval and      *)
(* every shorter timeout.                                                  *)
(***************************************************************************)
EXTENDS Keepalive, SequenceTheorems, TLAPS

\* While the loop runs no timer is overdue: what is due is handled before time moves.
OnTime ==
    open => /\ now <= nextTick /\ nextTick <= now + PING_INTERVAL
            /\ waiting_for_pong => now <= pongDue

\* A ping's timeout is over before the next tick could send another ping.
TimeoutFirst == open /\ waiting_for_pong => pongDue < nextTick

\* Without a ping under way the activity is that of the last frame, and the tick that
\* finds it too old comes less than two intervals after it.
TickInTime ==
    open /\ ~waiting_for_pong =>
        last_activity = heard /\ nextTick < heard + 2 * PING_INTERVAL

\* With a ping under way the timeout comes less than that and a timeout after it.
TimeoutInTime ==
    open /\ waiting_for_pong => pongDue < heard + 2 * PING_INTERVAL + PONG_TIMEOUT

\* A healthy peer owes the answer to the ping under way, and there is time for it, or
\* the answer has arrived.
AnswerOwed ==
    /\ peer = "healthy" => open /\ (\A i \in 1 .. Len(inbox) : inbox[i] # "Close")
    /\ peer = "healthy" /\ waiting_for_pong =>
          \/ asked # Never /\ pongDue = asked + PONG_TIMEOUT /\ now < pongDue
          \/ /\ asked = Never /\ now < pongDue
             /\ \E i \in 1 .. Len(inbox) : inbox[i] = "Pong"

IInv ==
    /\ TypeOK
    /\ OnTime
    /\ TimeoutFirst
    /\ TickInTime
    /\ TimeoutInTime
    /\ AnswerOwed

-----------------------------------------------------------------------------
(* The frames that wait.                                                   *)

HasPong(q) == \E i \in 1 .. Len(q) : q[i] = "Pong"
NoClose(q) == \A i \in 1 .. Len(q) : q[i] # "Close"

LEMMA InboxAppend ==
  ASSUME NEW q \in Seq(Frames), NEW f \in Frames
  PROVE  /\ Append(q, f) \in Seq(Frames)
         /\ HasPong(q) \/ f = "Pong" => HasPong(Append(q, f))
         /\ NoClose(q) /\ f # "Close" => NoClose(Append(q, f))
<1> DEFINE r == Append(q, f)
<1>1. /\ r \in Seq(Frames) /\ Len(r) = Len(q) + 1 /\ Len(q) \in Nat
      /\ \A i \in 1 .. Len(q) : r[i] = q[i]
      /\ r[Len(q) + 1] = f
  BY AppendProperties, LenProperties
<1> HIDE DEF r
<1>2. HasPong(q) => HasPong(r)
  <2> SUFFICES ASSUME NEW i \in 1 .. Len(q), q[i] = "Pong" PROVE HasPong(r)
    BY DEF HasPong
  <2>1. i \in 1 .. Len(r) /\ r[i] = "Pong"
    BY <1>1
  <2> QED BY <2>1 DEF HasPong
<1>3. f = "Pong" => HasPong(r)
  <2>1. Len(q) + 1 \in 1 .. Len(r)
    BY <1>1
  <2> QED BY <1>1, <2>1 DEF HasPong
<1>4. NoClose(q) /\ f # "Close" => NoClose(r)
  <2> SUFFICES ASSUME NoClose(q), f # "Close", NEW i \in 1 .. Len(r) PROVE r[i] # "Close"
    BY DEF NoClose
  <2>1. i \in 1 .. Len(q) \/ i = Len(q) + 1
    BY <1>1
  <2> QED BY <1>1, <2>1 DEF NoClose
<1> QED BY <1>1, <1>2, <1>3, <1>4 DEF r

LEMMA InboxTail ==
  ASSUME NEW q \in Seq(Frames), q # <<>>
  PROVE  /\ Tail(q) \in Seq(Frames)
         /\ HasPong(q) /\ Head(q) # "Pong" => HasPong(Tail(q))
         /\ NoClose(q) => NoClose(Tail(q)) /\ Head(q) # "Close"
<1> DEFINE r == Tail(q)
<1>1. /\ r \in Seq(Frames) /\ Len(r) = Len(q) - 1 /\ Len(q) \in Nat \ {0}
      /\ \A i \in 1 .. Len(r) : r[i] = q[i + 1]
      /\ Head(q) = q[1]
  BY HeadTailProperties, LenProperties, EmptySeq
<1> HIDE DEF r
<1>2. HasPong(q) /\ Head(q) # "Pong" => HasPong(r)
  <2> SUFFICES ASSUME NEW i \in 1 .. Len(q), q[i] = "Pong", Head(q) # "Pong"
               PROVE  HasPong(r)
    BY DEF HasPong
  <2>1. i # 1
    BY <1>1
  <2>2. i - 1 \in 1 .. Len(r) /\ (i - 1) + 1 = i
    BY <1>1, <2>1
  <2>3. r[i - 1] = "Pong"
    BY <1>1, <2>2
  <2> QED BY <2>2, <2>3 DEF HasPong
<1>3. NoClose(q) => NoClose(r)
  <2> SUFFICES ASSUME NoClose(q), NEW i \in 1 .. Len(r) PROVE r[i] # "Close"
    BY DEF NoClose
  <2>1. i + 1 \in 1 .. Len(q) /\ r[i] = q[i + 1]
    BY <1>1
  <2> QED BY <2>1 DEF NoClose
<1>4. NoClose(q) => Head(q) # "Close"
  <2>1. 1 \in 1 .. Len(q)
    BY <1>1
  <2> QED BY <1>1, <2>1 DEF NoClose
<1> QED BY <1>1, <1>2, <1>3, <1>4 DEF r

-----------------------------------------------------------------------------
(* The steps.                                                              *)

\* The constants as integers, and what AnswerOwed says in terms of the inbox.
LEMMA Constants ==
  /\ PING_INTERVAL \in Nat /\ PONG_TIMEOUT \in Nat /\ MaxTime \in Nat
  /\ 0 < PONG_TIMEOUT /\ PONG_TIMEOUT < PING_INTERVAL
  BY KeepaliveAssumption

LEMMA InitIInv == Init => IInv
<1> SUFFICES ASSUME Init PROVE IInv
  OBVIOUS
<1> USE DEF Init
<1>1. TypeOK
  <2>1. inbox \in Seq(Frames)
    BY EmptySeq
  <2>2. /\ now \in 0 .. MaxTime /\ nextTick \in 0 .. MaxTime + PING_INTERVAL
        /\ pongDue \in 0 .. MaxTime + PONG_TIMEOUT
        /\ last_activity \in 0 .. now /\ heard \in 0 .. now
    BY Constants
  <2>3. waiting_for_pong \in BOOLEAN /\ open \in BOOLEAN
    OBVIOUS
  <2> QED BY <2>1, <2>2, <2>3 DEF TypeOK
<1>2. OnTime /\ TimeoutFirst /\ TickInTime /\ TimeoutInTime
  BY Constants DEF OnTime, TimeoutFirst, TickInTime, TimeoutInTime
<1>3. AnswerOwed
  BY EmptySeq DEF AnswerOwed, NoClose
<1> QED BY <1>1, <1>2, <1>3 DEF IInv

\* What the peer does leaves the timers alone.
LEMMA PeerStep ==
  ASSUME IInv, PeerSends \/ PeerAnswers \/ PeerLeaves
  PROVE  IInv'
<1>1. UNCHANGED <<now, nextTick, pongDue, last_activity, waiting_for_pong, open, heard>>
  BY DEF PeerSends, PeerAnswers, PeerLeaves
<1>2. inbox \in Seq(Frames) /\ peer \in {"healthy", "gone"} /\ asked \in {Never} \cup 0 .. now
  BY DEF IInv, TypeOK
<1>3. OnTime' /\ TimeoutFirst' /\ TickInTime' /\ TimeoutInTime'
  BY <1>1 DEF IInv, OnTime, TimeoutFirst, TickInTime, TimeoutInTime
<1>4. CASE PeerSends
  <2>1. inbox' = Append(inbox, "Text") /\ UNCHANGED <<peer, asked>>
    BY <1>4 DEF PeerSends
  <2>2. inbox' \in Seq(Frames) /\ (HasPong(inbox) => HasPong(inbox'))
        /\ (NoClose(inbox) => NoClose(inbox'))
    BY <1>2, <2>1, InboxAppend DEF Frames
  <2>3. TypeOK'
    BY <1>1, <2>1, <2>2 DEF IInv, TypeOK
  <2>4. AnswerOwed'
    BY <1>1, <2>1, <2>2 DEF IInv, AnswerOwed
  <2> QED BY <1>3, <2>3, <2>4 DEF IInv
<1>5. CASE PeerAnswers
  <2>1. inbox' = Append(inbox, "Pong") /\ asked' = Never /\ peer' = peer /\ asked # Never
    BY <1>5 DEF PeerAnswers
  <2>2. inbox' \in Seq(Frames) /\ HasPong(inbox') /\ (NoClose(inbox) => NoClose(inbox'))
    BY <1>2, <2>1, InboxAppend DEF Frames
  <2>3. TypeOK'
    BY <1>1, <2>1, <2>2 DEF IInv, TypeOK
  <2>4. AnswerOwed'
    BY <1>1, <2>1, <2>2 DEF IInv, AnswerOwed
  <2> QED BY <1>3, <2>3, <2>4 DEF IInv
<1>6. CASE PeerLeaves
  <2>1. inbox' \in {inbox, Append(inbox, "Close")} /\ asked' = Never /\ peer' = "gone"
    BY <1>6 DEF PeerLeaves
  <2>2. inbox' \in Seq(Frames)
    BY <1>2, <2>1, InboxAppend DEF Frames
  <2>3. TypeOK'
    BY <1>1, <2>1, <2>2 DEF IInv, TypeOK
  <2>4. AnswerOwed'
    BY <2>1 DEF AnswerOwed
  <2> QED BY <1>3, <2>3, <2>4 DEF IInv
<1> QED BY <1>4, <1>5, <1>6

\* What holds after a frame other than Close: the activity is now.
LEMMA FrameStep ==
  ASSUME IInv, HandleText \/ HandlePong
  PROVE  IInv'
<1>1. /\ open /\ inbox # <<>> /\ inbox' = Tail(inbox)
      /\ heard' = now /\ last_activity' = now /\ open' = open
      /\ UNCHANGED <<now, nextTick, pongDue, peer, asked>>
  BY DEF HandleText, HandlePong, Handle
<1>2. \/ Head(inbox) = "Text" /\ waiting_for_pong' = waiting_for_pong
      \/ Head(inbox) = "Pong" /\ waiting_for_pong' = FALSE
  BY DEF HandleText, HandlePong, Handle
<1>3. /\ inbox \in Seq(Frames) /\ now \in 0 .. MaxTime /\ heard \in 0 .. now
      /\ nextTick \in 0 .. MaxTime + PING_INTERVAL /\ pongDue \in 0 .. MaxTime + PONG_TIMEOUT
      /\ waiting_for_pong \in BOOLEAN
  BY DEF IInv, TypeOK
<1>4. /\ inbox' \in Seq(Frames)
      /\ HasPong(inbox) /\ Head(inbox) # "Pong" => HasPong(inbox')
      /\ NoClose(inbox) => NoClose(inbox')
  BY <1>1, <1>3, InboxTail
<1>5. TypeOK'
  <2>1. waiting_for_pong' \in BOOLEAN
    BY <1>2, <1>3
  <2>2. now \in 0 .. now
    BY <1>3, Constants
  <2> QED BY <1>1, <1>4, <2>1, <2>2 DEF IInv, TypeOK
<1>6. waiting_for_pong' => waiting_for_pong
  BY <1>2
<1>7. OnTime' /\ TimeoutFirst'
  BY <1>1, <1>6 DEF IInv, OnTime, TimeoutFirst
<1>8. TickInTime'
  <2>1. nextTick <= now + PING_INTERVAL
    BY <1>1 DEF IInv, OnTime
  <2>2. nextTick < now + 2 * PING_INTERVAL
    BY <1>3, <2>1, Constants
  <2> QED BY <1>1, <2>2 DEF TickInTime
<1>9. TimeoutInTime'
  <2> SUFFICES ASSUME waiting_for_pong
               PROVE  pongDue < now + 2 * PING_INTERVAL + PONG_TIMEOUT
    BY <1>1, <1>6 DEF TimeoutInTime
  <2>1. pongDue < heard + 2 * PING_INTERVAL + PONG_TIMEOUT
    BY <1>1 DEF IInv, TimeoutInTime
  <2> QED BY <1>3, <2>1, Constants
<1>10. AnswerOwed'
  BY <1>1, <1>2, <1>4 DEF IInv, AnswerOwed, HasPong, NoClose
<1> QED BY <1>5, <1>7, <1>8, <1>9, <1>10 DEF IInv

\* A healthy peer's connection is not closed: it has sent no Close, and its answer is
\* not late.
LEMMA CloseStep ==
  ASSUME IInv, HandleClose \/ PongTimeout \/ TickPingFails
  PROVE  IInv'
<1>1. ~open' /\ UNCHANGED <<now, pongDue, last_activity, waiting_for_pong, peer, asked>>
  BY DEF HandleClose, Handle, PongTimeout, TickPingFails
<1>2. /\ inbox \in Seq(Frames) /\ now \in 0 .. MaxTime /\ heard \in 0 .. now
      /\ nextTick \in 0 .. MaxTime + PING_INTERVAL /\ pongDue \in 0 .. MaxTime + PONG_TIMEOUT
      /\ peer \in {"healthy", "gone"}
  BY DEF IInv, TypeOK
<1>3. peer = "gone"
  <2>1. CASE HandleClose
    <3>1. inbox # <<>> /\ Head(inbox) = "Close"
      BY <2>1 DEF HandleClose, Handle
    <3>2. ~NoClose(inbox)
      BY <1>2, <3>1, InboxTail
    <3> QED BY <1>2, <3>2 DEF IInv, AnswerOwed, NoClose
  <2>2. CASE PongTimeout
    <3>1. waiting_for_pong /\ ~(now < pongDue)
      BY <1>2, <2>2, Constants DEF PongTimeout
    <3> QED BY <1>2, <3>1 DEF IInv, AnswerOwed
  <2>3. CASE TickPingFails
    BY <2>3 DEF TickPingFails
  <2> QED BY <2>1, <2>2, <2>3
<1>4. TypeOK'
  <2>1. inbox' \in Seq(Frames) /\ heard' \in 0 .. now
    <3>1. CASE HandleClose
      <4>1. inbox # <<>> /\ inbox' = Tail(inbox) /\ heard' = now
        BY <3>1 DEF HandleClose, Handle
      <4> QED BY <1>2, <4>1, InboxTail, Constants
    <3>2. CASE PongTimeout \/ TickPingFails
      <4>1. UNCHANGED <<inbox, heard>>
        BY <3>2 DEF PongTimeout, TickPingFails
      <4> QED BY <1>2, <4>1
    <3> QED BY <3>1, <3>2
  <2>2. nextTick' \in 0 .. MaxTime + PING_INTERVAL
    <3>1. CASE HandleClose \/ PongTimeout
      BY <1>2, <3>1 DEF HandleClose, Handle, PongTimeout
    <3>2. CASE TickPingFails
      <4>1. nextTick' = nextTick + PING_INTERVAL /\ nextTick <= now
        BY <3>2 DEF TickPingFails, Tick, NextTick
      <4> QED BY <1>2, <4>1, Constants
    <3> QED BY <3>1, <3>2
  <2>3. open' \in BOOLEAN
    BY DEF HandleClose, PongTimeout, TickPingFails
  <2> QED BY <1>1, <2>1, <2>2, <2>3 DEF IInv, TypeOK
<1>5. OnTime' /\ TimeoutFirst' /\ TickInTime' /\ TimeoutInTime'
  BY <1>1 DEF OnTime, TimeoutFirst, TickInTime, TimeoutInTime
<1>6. AnswerOwed'
  BY <1>1, <1>3 DEF AnswerOwed
<1> QED BY <1>4, <1>5, <1>6 DEF IInv

\* A tick that is due is due now, and no ping is under way.
LEMMA TickFacts ==
  ASSUME IInv, Tick
  PROVE  /\ open /\ nextTick = now /\ nextTick' = now + PING_INTERVAL
         /\ waiting_for_pong = FALSE
         /\ last_activity = heard /\ now < heard + 2 * PING_INTERVAL
<1>1. /\ now \in 0 .. MaxTime /\ heard \in 0 .. now
      /\ nextTick \in 0 .. MaxTime + PING_INTERVAL /\ pongDue \in 0 .. MaxTime + PONG_TIMEOUT
      /\ waiting_for_pong \in BOOLEAN
  BY DEF IInv, TypeOK
<1>2. open /\ nextTick <= now /\ nextTick' = nextTick + PING_INTERVAL
  BY DEF Tick, NextTick
<1>3. now <= nextTick
  BY <1>2 DEF IInv, OnTime
<1>4. nextTick = now
  BY <1>1, <1>2, <1>3, Constants
<1>5. waiting_for_pong = FALSE
  <2>1. waiting_for_pong => now <= pongDue /\ pongDue < nextTick
    BY <1>2 DEF IInv, OnTime, TimeoutFirst
  <2>2. ~(now <= pongDue /\ pongDue < nextTick)
    BY <1>1, <1>4, Constants
  <2> QED BY <1>1, <2>1, <2>2
<1>6. last_activity = heard /\ nextTick < heard + 2 * PING_INTERVAL
  BY <1>2, <1>5 DEF IInv, TickInTime
<1> QED BY <1>2, <1>4, <1>5, <1>6

LEMMA TickActiveStep ==
  ASSUME IInv, TickActive
  PROVE  IInv'
<1>1. /\ Tick /\ ~(now - last_activity >= PING_INTERVAL)
      /\ UNCHANGED <<now, pongDue, last_activity, waiting_for_pong, open, inbox, peer,
                     asked, heard>>
  BY DEF TickActive, Idle
<1>2. /\ open /\ nextTick' = now + PING_INTERVAL /\ waiting_for_pong = FALSE
      /\ last_activity = heard
  BY <1>1, TickFacts
<1>3. now \in 0 .. MaxTime /\ heard \in 0 .. now
  BY DEF IInv, TypeOK
<1>4. TypeOK'
  <2>1. nextTick' \in 0 .. MaxTime + PING_INTERVAL
    BY <1>2, <1>3, Constants
  <2> QED BY <1>1, <2>1 DEF IInv, TypeOK
<1>5. OnTime'
  <2>1. now <= now + PING_INTERVAL /\ now + PING_INTERVAL <= now + PING_INTERVAL
    BY <1>3, Constants
  <2> QED BY <1>1, <1>2, <2>1 DEF OnTime
<1>6. TickInTime'
  <2>1. now + PING_INTERVAL < heard + 2 * PING_INTERVAL
    BY <1>1, <1>2, <1>3, Constants
  <2> QED BY <1>1, <1>2, <2>1 DEF TickInTime
<1>7. TimeoutFirst' /\ TimeoutInTime'
  BY <1>1, <1>2 DEF TimeoutFirst, TimeoutInTime
<1>8. AnswerOwed'
  BY <1>1 DEF IInv, AnswerOwed
<1> QED BY <1>4, <1>5, <1>6, <1>7, <1>8 DEF IInv

LEMMA TickPingStep ==
  ASSUME IInv, TickPing
  PROVE  IInv'
<1>1. /\ Tick /\ waiting_for_pong' = TRUE /\ pongDue' = now + PONG_TIMEOUT
      /\ last_activity' = now /\ asked' = IF peer = "healthy" THEN now ELSE Never
      /\ UNCHANGED <<now, open, inbox, peer, heard>>
  BY DEF TickPing
<1>2. /\ open /\ nextTick' = now + PING_INTERVAL
      /\ now < heard + 2 * PING_INTERVAL
  BY <1>1, TickFacts
<1>3. now \in 0 .. MaxTime /\ heard \in 0 .. now
  BY DEF IInv, TypeOK
<1>4. TypeOK'
  <2>1. nextTick' \in 0 .. MaxTime + PING_INTERVAL /\ pongDue' \in 0 .. MaxTime + PONG_TIMEOUT
    BY <1>1, <1>2, <1>3, Constants
  <2>2. last_activity' \in 0 .. now /\ asked' \in {Never} \cup 0 .. now
    BY <1>1, <1>3, Constants
  <2> QED BY <1>1, <2>1, <2>2 DEF IInv, TypeOK
<1>5. OnTime' /\ TimeoutFirst'
  <2>1. /\ now <= now + PING_INTERVAL /\ now + PING_INTERVAL <= now + PING_INTERVAL
        /\ now <= now + PONG_TIMEOUT /\ now + PONG_TIMEOUT < now + PING_INTERVAL
    BY <1>3, Constants
  <2> QED BY <1>1, <1>2, <2>1 DEF OnTime, TimeoutFirst
<1>6. TickInTime' /\ TimeoutInTime'
  <2>1. now + PONG_TIMEOUT < heard + 2 * PING_INTERVAL + PONG_TIMEOUT
    BY <1>2, <1>3, Constants
  <2> QED BY <1>1, <2>1 DEF TickInTime, TimeoutInTime
<1>7. AnswerOwed'
  <2>1. now < now + PONG_TIMEOUT /\ now # Never
    BY <1>3, Constants DEF Never
  <2> QED BY <1>1, <2>1 DEF IInv, AnswerOwed
<1> QED BY <1>4, <1>5, <1>6, <1>7 DEF IInv

LEMMA ElapseStep ==
  ASSUME IInv, Elapse
  PROVE  IInv'
<1>1. /\ open /\ inbox = <<>> /\ ~(nextTick <= now) /\ now < MaxTime /\ now' = now + 1
      /\ waiting_for_pong => ~(pongDue <= now)
      /\ asked # Never => now + 1 < asked + PONG_TIMEOUT
      /\ UNCHANGED <<nextTick, pongDue, last_activity, waiting_for_pong, open, inbox, peer,
                     asked, heard>>
  BY DEF Elapse, Ready
<1>2. /\ now \in 0 .. MaxTime /\ heard \in 0 .. now /\ last_activity \in 0 .. now
      /\ nextTick \in 0 .. MaxTime + PING_INTERVAL /\ pongDue \in 0 .. MaxTime + PONG_TIMEOUT
      /\ asked \in {Never} \cup 0 .. now
  BY DEF IInv, TypeOK
<1>3. TypeOK'
  <2>1. now + 1 \in 0 .. MaxTime /\ heard \in 0 .. now + 1 /\ last_activity \in 0 .. now + 1
    BY <1>1, <1>2, Constants
  <2>2. asked \in {Never} \cup 0 .. now + 1
    BY <1>2, Constants
  <2> QED BY <1>1, <2>1, <2>2 DEF IInv, TypeOK
<1>4. OnTime'
  <2>1. nextTick <= now + PING_INTERVAL
    BY <1>1 DEF IInv, OnTime
  <2>2. now + 1 <= nextTick /\ nextTick <= now + 1 + PING_INTERVAL
    BY <1>1, <1>2, <2>1, Constants
  <2>3. waiting_for_pong => now + 1 <= pongDue
    BY <1>1, <1>2, Constants
  <2> QED BY <1>1, <2>2, <2>3 DEF OnTime
<1>5. TimeoutFirst' /\ TickInTime' /\ TimeoutInTime'
  BY <1>1 DEF IInv, TimeoutFirst, TickInTime, TimeoutInTime
<1>6. AnswerOwed'
  <2>1. ~(\E i \in 1 .. Len(inbox) : inbox[i] = "Pong")
    BY <1>1, EmptySeq
  <2> QED BY <1>1, <2>1 DEF IInv, AnswerOwed
<1> QED BY <1>3, <1>4, <1>5, <1>6 DEF IInv

-----------------------------------------------------------------------------
(* The theorems.                                                           *)

LEMMA NextIInv == IInv /\ [Next]_vars => IInv'
<1> SUFFICES ASSUME IInv, [Next]_vars PROVE IInv'
  OBVIOUS
<1>1. CASE UNCHANGED vars
  BY <1>1 DEF vars, IInv, TypeOK, OnTime, TimeoutFirst, TickInTime, TimeoutInTime, AnswerOwed
<1>2. CASE PeerSends \/ PeerAnswers \/ PeerLeaves
  BY <1>2, PeerStep
<1>3. CASE HandleText \/ HandlePong
  BY <1>3, FrameStep
<1>4. CASE HandleClose \/ PongTimeout \/ TickPingFails
  BY <1>4, CloseStep
<1>5. CASE TickActive \/ TickPing
  BY <1>5, TickActiveStep, TickPingStep
<1>6. CASE Elapse
  BY <1>6, ElapseStep
<1> QED BY <1>1, <1>2, <1>3, <1>4, <1>5, <1>6 DEF Next

\* The inductive invariant holds whenever the peer sends, answers or leaves.
THEOREM KeepaliveInvariant == Spec => []IInv
<1>1. Init => IInv
  BY InitIInv
<1>2. IInv /\ [Next]_vars => IInv'
  BY NextIInv
<1> QED BY <1>1, <1>2, PTL DEF Spec

\* Clock, timers and inbox keep their types; no timer is set further than one period.
THEOREM KeepaliveTypeCorrect == Spec => []TypeOK
<1>1. IInv => TypeOK
  BY DEF IInv
<1> QED BY <1>1, KeepaliveInvariant, PTL

\* server.rs closes a connection before it has been silent for two ping intervals and
\* a pong timeout.
THEOREM KeepaliveHeardRecently == Spec => []HeardRecently
<1>1. IInv => HeardRecently
  <2> SUFFICES ASSUME IInv, open PROVE now - heard < 2 * PING_INTERVAL + PONG_TIMEOUT
    BY DEF HeardRecently
  <2>1. /\ now \in 0 .. MaxTime /\ heard \in 0 .. now
        /\ nextTick \in 0 .. MaxTime + PING_INTERVAL
        /\ pongDue \in 0 .. MaxTime + PONG_TIMEOUT
    BY DEF IInv, TypeOK
  <2>2. CASE waiting_for_pong
    <3>1. now <= pongDue /\ pongDue < heard + 2 * PING_INTERVAL + PONG_TIMEOUT
      BY <2>2 DEF IInv, OnTime, TimeoutInTime
    <3> QED BY <2>1, <3>1, Constants
  <2>3. CASE ~waiting_for_pong
    <3>1. now <= nextTick /\ nextTick < heard + 2 * PING_INTERVAL
      BY <2>3 DEF IInv, OnTime, TickInTime
    <3> QED BY <2>1, <3>1, Constants
  <2> QED BY <2>2, <2>3
<1> QED BY <1>1, KeepaliveInvariant, PTL

\* server.rs never closes the connection of a peer that answers its pings in time.
THEOREM KeepaliveHealthyStays == Spec => []HealthyStays
<1>1. IInv => HealthyStays
  BY DEF IInv, AnswerOwed, HealthyStays
<1> QED BY <1>1, KeepaliveInvariant, PTL

=============================================================================
