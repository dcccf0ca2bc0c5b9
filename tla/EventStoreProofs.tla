-------------------------- MODULE EventStoreProofs --------------------------
(***************************************************************************)
(* Proofs about the event database, for all events and queries.            *)
(***************************************************************************)
EXTENDS EventStore, TLAPS

IInv ==
    /\ TypeOK
    /\ answer = AnswerTo(asked)

LEMMA InitInv == Init => IInv
BY DEF Init, IInv, TypeOK, AnswerTo, Selected

LEMMA NextInv ==
  ASSUME IInv, [Next]_vars
  PROVE  IInv'
<1>1. CASE UNCHANGED vars
  BY <1>1 DEF IInv, TypeOK, vars, AnswerTo, Selected
<1>2. ASSUME NEW e \in Events, WriteEvent(e)
      PROVE  IInv'
  <2>1. stored' \in SUBSET Events /\ asked' = {} /\ answer' = {}
    BY <1>2 DEF WriteEvent, IInv, TypeOK
  <2>2. AnswerTo(asked)' = {}
    BY <2>1 DEF AnswerTo, Selected
  <2> QED BY <2>1, <2>2 DEF IInv, TypeOK
<1>3. ASSUME NEW filters \in Queries, QueryByFilters(filters)
      PROVE  IInv'
  <2>1. stored' = stored /\ asked' = filters /\ answer' = AnswerTo(filters)
    BY <1>3 DEF QueryByFilters
  <2>2. AnswerTo(asked)' = AnswerTo(filters)
    BY <2>1 DEF AnswerTo, Selected
  <2>3. AnswerTo(filters) \subseteq stored
    BY DEF AnswerTo, Selected
  <2> QED BY <2>1, <2>2, <2>3 DEF IInv, TypeOK
<1> QED BY <1>1, <1>2, <1>3 DEF Next

\* The answer is part of what was stored, and so of what can be stored.
THEOREM EventStoreTypeCorrect == Spec => []TypeOK
<1>1. IInv => TypeOK
  BY DEF IInv
<1> QED BY <1>1, InitInv, NextInv, PTL DEF Spec

\* SQL selects all that a filter of the query matches in time.
LEMMA SelectedInTime ==
  ASSUME NEW f, NEW e, e.created_at \in Nat,
         f.since \in Nat \cup {Unbounded}, f.until \in Nat \cup {Unbounded},
         MatchFilter(f, e), MatchTime(f, e), e.created_at \notin {0, f.since, f.until}
  PROVE  BuildOneFilter(f, e)
<1>1. f.since # Unbounded => e.created_at > f.since
  BY DEF MatchTime
<1>2. f.until # Unbounded => e.created_at < f.until
  BY DEF MatchTime
<1>3. e.created_at > 0
  OBVIOUS
<1>4. TimeQuery(f, e)
  BY <1>1, <1>2, <1>3 DEF TimeQuery
<1> QED BY <1>4 DEF BuildOneFilter, MatchFilter

\* Every stored event that a filter of the query matches, and in time, is answered.
THEOREM AskedIsAnsweredHolds == Spec => []AskedIsAnswered
<1>1. ASSUME IInv
      PROVE  AskedIsAnswered
  <2> SUFFICES ASSUME NEW f \in asked, NEW e \in stored,
                      MatchFilter(f, e), MatchTime(f, e),
                      e.created_at \notin {0, f.since, f.until}
               PROVE  e \in answer
    BY DEF AskedIsAnswered
  <2>1. /\ e.created_at \in Nat
        /\ f.since \in Nat \cup {Unbounded} /\ f.until \in Nat \cup {Unbounded}
    BY <1>1, EventStoreAssumption DEF IInv, TypeOK
  <2>2. BuildOneFilter(f, e)
    BY <2>1, SelectedInTime
  <2>3. e \in Selected(asked)
    BY <2>2 DEF Selected
  <2>4. MatchFilters(asked, e)
    BY DEF MatchFilters
  <2> QED BY <1>1, <2>3, <2>4 DEF IInv, AnswerTo
<1> QED BY <1>1, InitInv, NextInv, PTL DEF Spec
=============================================================================
