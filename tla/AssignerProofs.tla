--------------------------- MODULE AssignerProofs ---------------------------
(***************************************************************************)
(* Proofs about the assigner, for any set of workers, any batch size and   *)
(* any periods.  The inductive invariant is IInv below: it adds to the     *)
(* checked invariants the order of the instants kept in the book.  What    *)
(* becomes of each job (Settled), the size of the batches and the          *)
(* cool-down are inductive once IInv is known.                             *)
(***************************************************************************)
EXTENDS Assigner, MaxLemmas, SequenceTheorems, FiniteSetTheorems, TLAPS

-----------------------------------------------------------------------------
(* The operations on the book.                                             *)

\* RemoveAt takes out one entry and keeps the order of the others.
LEMMA RemoveAtProperties ==
  ASSUME NEW S, NEW s \in Seq(S), NEW i \in 1 .. Len(s)
  PROVE  /\ RemoveAt(s, i) \in Seq(S)
         /\ Len(RemoveAt(s, i)) = Len(s) - 1
         /\ \A j \in 1 .. Len(s) - 1 :
              RemoveAt(s, i)[j] = IF j < i THEN s[j] ELSE s[j + 1]
<1> DEFINE a == SubSeq(s, 1, i - 1)
           b == SubSeq(s, i + 1, Len(s))
<1>0. Len(s) \in Nat /\ \A j \in 1 .. Len(s) : s[j] \in S
  BY LenProperties, ElementOfSeq
<1>1. a \in Seq(S) /\ Len(a) = i - 1 /\ \A j \in 1 .. i - 1 : a[j] = s[j]
  BY <1>0, SubSeqProperties
<1>2. b \in Seq(S) /\ Len(b) = Len(s) - i /\ \A j \in 1 .. Len(s) - i : b[j] = s[i + j]
  BY <1>0, SubSeqProperties
<1>3. RemoveAt(s, i) = a \o b
  BY DEF RemoveAt
<1> HIDE DEF a, b
<1>4. /\ a \o b \in Seq(S)
      /\ Len(a \o b) = Len(a) + Len(b)
      /\ \A j \in 1 .. Len(a) + Len(b) :
           (a \o b)[j] = IF j <= Len(a) THEN a[j] ELSE b[j - Len(a)]
  BY <1>1, <1>2, ConcatProperties
<1> QED BY <1>0, <1>1, <1>2, <1>3, <1>4

\* Taking an entry out and appending another one in its stead.
LEMMA MoveToBack ==
  ASSUME NEW S, NEW s \in Seq(S), NEW i \in 1 .. Len(s), NEW e \in S
  PROVE  /\ Append(RemoveAt(s, i), e) \in Seq(S)
         /\ Append(RemoveAt(s, i), e) # <<>>
         /\ Len(Append(RemoveAt(s, i), e)) = Len(s)
         /\ Append(RemoveAt(s, i), e)[Len(s)] = e
         /\ \A j \in 1 .. Len(s) - 1 :
              Append(RemoveAt(s, i), e)[j] = IF j < i THEN s[j] ELSE s[j + 1]
<1> DEFINE r == RemoveAt(s, i)
           t == Append(r, e)
<1>1. /\ r \in Seq(S) /\ Len(r) = Len(s) - 1
      /\ \A j \in 1 .. Len(s) - 1 : r[j] = IF j < i THEN s[j] ELSE s[j + 1]
  BY RemoveAtProperties
<1> HIDE DEF r
<1>2. /\ t \in Seq(S) /\ t # <<>> /\ Len(t) = Len(r) + 1
      /\ \A j \in 1 .. Len(r) : t[j] = r[j]
      /\ t[Len(r) + 1] = e
  BY <1>1, AppendProperties
<1> HIDE DEF t
<1>3. Len(s) \in Nat /\ Len(r) + 1 = Len(s)
  BY <1>1, LenProperties
<1>4. /\ t \in Seq(S) /\ t # <<>> /\ Len(t) = Len(s) /\ t[Len(s)] = e
      /\ \A j \in 1 .. Len(s) - 1 : t[j] = IF j < i THEN s[j] ELSE s[j + 1]
  BY <1>1, <1>2, <1>3
<1> QED BY <1>4 DEF t, r

\* A book: entries whose instants are not in the future.
Book == Seq([worker : Workers, at : 0 .. now, seen : 0 .. now])
Sorted(bk) ==
    \A i, j \in DOMAIN bk : i < j =>
        /\ bk[i].worker # bk[j].worker
        /\ bk[i].at <= bk[j].at

\* insert keeps the book sorted and one entry per worker, and makes it longer only
\* for a worker that was not there.
LEMMA InsertProperties ==
  ASSUME now \in Nat, NEW bk \in Book, Sorted(bk), NEW w \in Workers
  PROVE  /\ Insert(bk, w) \in Book
         /\ Sorted(Insert(bk, w))
         /\ Len(Insert(bk, w)) = Len(bk) + (IF Booked(bk, w) THEN 0 ELSE 1)
         /\ Insert(bk, w) # <<>>
<1> DEFINE E == [worker : Workers, at : 0 .. now, seen : 0 .. now]
<1>a. Fresh(w) \in E
  BY DEF Fresh
<1>b. bk \in Seq(E)
  BY DEF Book
<1>0. Len(bk) \in Nat
  <2> HIDE DEF E
  <2> QED BY <1>b, LenProperties
<1>d. DOMAIN bk = 1 .. Len(bk)
  <2> HIDE DEF E
  <2> QED BY <1>b, LenProperties
<1>c. \A j \in 1 .. Len(bk) : bk[j] \in E
  <2> HIDE DEF E
  <2> QED BY <1>b, ElementOfSeq
<1>1. CASE Booked(bk, w)
  <2>1. PICK i \in 1 .. Len(bk) : /\ i = CHOOSE k \in PositionOf(bk, w) : TRUE
                                  /\ bk[i].worker = w
    BY <1>d, <1>1 DEF Booked, PositionOf
  <2> DEFINE s == Append(RemoveAt(bk, i), Fresh(w))
  <2>2. Insert(bk, w) = s
    BY <1>1, <2>1 DEF Insert
  <2>4. /\ s \in Seq(E) /\ s # <<>> /\ Len(s) = Len(bk) /\ s[Len(bk)] = Fresh(w)
        /\ \A j \in 1 .. Len(bk) - 1 : s[j] = IF j < i THEN bk[j] ELSE bk[j + 1]
    <3> HIDE DEF E
    <3> QED BY <1>a, <1>b, MoveToBack
  <2> HIDE DEF s
  <2>5. Sorted(s)
    <3>1. DOMAIN s = 1 .. Len(bk)
      BY <2>4, LenProperties
    <3> SUFFICES ASSUME NEW j \in 1 .. Len(bk), NEW k \in 1 .. Len(bk), j < k
                 PROVE  s[j].worker # s[k].worker /\ s[j].at <= s[k].at
      BY <3>1 DEF Sorted
    <3>0. j \in 1 .. Len(bk) - 1 /\ j + 1 \in 1 .. Len(bk)
      BY <1>0
    <3>2. s[j] = IF j < i THEN bk[j] ELSE bk[j + 1]
      BY <2>4, <3>0
    <3>3. \A p, q \in 1 .. Len(bk) : p < q =>
             bk[p].worker # bk[q].worker /\ bk[p].at <= bk[q].at
      BY <1>d DEF Sorted
    <3>4. CASE k = Len(bk)
      <4>1. s[k] = Fresh(w) /\ Fresh(w).worker = w /\ Fresh(w).at = now
        BY <3>4, <2>4 DEF Fresh
      <4>3. \A q \in 1 .. Len(bk) : bk[q].at <= now
        BY <1>c
      <4>4. \A q \in 1 .. Len(bk) : q # i => bk[q].worker # w
        BY <2>1, <3>3
      <4> QED BY <3>0, <3>2, <4>1, <4>3, <4>4
    <3>5. CASE k # Len(bk)
      <4>1. k \in 1 .. Len(bk) - 1 /\ k + 1 \in 1 .. Len(bk)
        BY <1>0, <3>5
      <4>2. s[k] = IF k < i THEN bk[k] ELSE bk[k + 1]
        BY <4>1, <2>4
      <4>3. CASE j < i /\ k < i
        BY <3>0, <3>2, <3>3, <4>1, <4>2, <4>3
      <4>4. CASE j < i /\ ~(k < i)
        <5>1. j < k + 1 /\ s[j] = bk[j] /\ s[k] = bk[k + 1]
          BY <3>2, <4>2, <4>4
        <5> QED BY <3>3, <4>1, <5>1
      <4>5. CASE ~(j < i)
        <5>1. j + 1 < k + 1 /\ s[j] = bk[j + 1] /\ s[k] = bk[k + 1]
          BY <3>2, <4>2, <4>5
        <5> QED BY <3>0, <3>3, <4>1, <5>1
      <4> QED BY <4>3, <4>4, <4>5
    <3> QED BY <3>4, <3>5
  <2> QED BY <1>1, <2>2, <2>4, <2>5 DEF Book, E
<1>2. CASE ~Booked(bk, w)
  <2>1. Insert(bk, w) = Append(bk, Fresh(w))
    BY <1>2 DEF Insert
  <2>2. \A q \in 1 .. Len(bk) : bk[q].worker # w
    BY <1>d, <1>2 DEF Booked, PositionOf
  <2> HIDE DEF E
  <2>3. /\ Append(bk, Fresh(w)) \in Seq(E)
        /\ Append(bk, Fresh(w)) # <<>>
        /\ Len(Append(bk, Fresh(w))) = Len(bk) + 1
        /\ \A j \in 1 .. Len(bk) : Append(bk, Fresh(w))[j] = bk[j]
        /\ Append(bk, Fresh(w))[Len(bk) + 1] = Fresh(w)
    BY <1>a, <1>b, AppendProperties
  <2>4. Sorted(Append(bk, Fresh(w)))
    <3> DEFINE s == Append(bk, Fresh(w))
    <3>1. DOMAIN s = 1 .. Len(bk) + 1
      BY <1>0, <2>3, LenProperties
    <3> SUFFICES ASSUME NEW j \in 1 .. Len(bk) + 1, NEW k \in 1 .. Len(bk) + 1, j < k
                 PROVE  s[j].worker # s[k].worker /\ s[j].at <= s[k].at
      BY <3>1 DEF Sorted
    <3>2. s[j] = bk[j]
      BY <1>0, <2>3
    <3>3. CASE k = Len(bk) + 1
      <4>1. s[k] = Fresh(w) /\ Fresh(w).worker = w /\ Fresh(w).at = now
        BY <3>3, <2>3 DEF Fresh
      <4>a. j \in 1 .. Len(bk)
        BY <1>0, <3>3
      <4>b. bk[j] \in E
        BY <4>a, <1>c
      <4>2. bk[j].at <= now
        BY <4>b DEF E
      <4> QED BY <1>0, <2>2, <3>2, <3>3, <4>1, <4>2
    <3>4. CASE k # Len(bk) + 1
      BY <1>0, <1>d, <2>3, <3>2, <3>4 DEF Sorted
    <3> QED BY <3>3, <3>4
  <2> QED BY <1>2, <2>1, <2>3, <2>4 DEF Book, E
<1> QED BY <1>1, <1>2

\* The entries of a book, one by one.
LEMMA BookEntries ==
  ASSUME now \in Nat, NEW bk \in Book
  PROVE  /\ Len(bk) \in Nat
         /\ DOMAIN bk = 1 .. Len(bk)
         /\ \A i \in 1 .. Len(bk) :
              /\ bk[i] \in [worker : Workers, at : 0 .. now, seen : 0 .. now]
              /\ bk[i].worker \in Workers
              /\ bk[i].at \in Nat /\ bk[i].at <= now
<1> DEFINE E == [worker : Workers, at : 0 .. now, seen : 0 .. now]
<1>1. bk \in Seq(E)
  BY DEF Book
<1>2. Len(bk) \in Nat /\ DOMAIN bk = 1 .. Len(bk) /\ \A i \in 1 .. Len(bk) : bk[i] \in E
  <2> HIDE DEF E
  <2> QED BY <1>1, LenProperties, ElementOfSeq
<1>3. \A e \in E : e.worker \in Workers /\ e.at \in Nat /\ e.at <= now
  OBVIOUS
<1> HIDE DEF E
<1>4. \A i \in 1 .. Len(bk) : bk[i].worker \in Workers /\ bk[i].at \in Nat /\ bk[i].at <= now
  BY <1>2, <1>3
<1> QED BY <1>2, <1>4 DEF E

\* What get_workers leaves when it succeeds is a prefix of the book.
LEMMA LeftProperties ==
  ASSUME now \in Nat, NEW bk \in Book, Sorted(bk), NEW n \in 0 .. Len(bk)
  PROVE  /\ Left(bk, n) \in Book
         /\ Sorted(Left(bk, n))
         /\ Len(Left(bk, n)) = Len(bk) - n
         /\ \A i \in 1 .. Len(bk) - n : Left(bk, n)[i] = bk[i]
<1> DEFINE E == [worker : Workers, at : 0 .. now, seen : 0 .. now]
           m == Len(bk) - n
           s == SubSeq(bk, 1, m)
<1>1. /\ Len(bk) \in Nat
      /\ DOMAIN bk = 1 .. Len(bk)
      /\ \A i \in 1 .. Len(bk) : bk[i] \in E
  BY BookEntries
<1>2. m \in Int /\ m >= 0 /\ m <= Len(bk)
  BY <1>1
<1>3. s \in Seq(E) /\ Len(s) = m /\ \A i \in 1 .. m : s[i] = bk[i]
  <2> HIDE DEF E, m
  <2> QED BY <1>1, <1>2, SubSeqProperties
<1>4. Sorted(s)
  <2>1. DOMAIN s = 1 .. m
    BY <1>3, LenProperties
  <2> HIDE DEF s, m
  <2>2. \A i \in 1 .. m : i \in DOMAIN bk /\ s[i] = bk[i]
    BY <1>1, <1>2, <1>3
  <2> QED BY <2>1, <2>2 DEF Sorted
<1>5. Left(bk, n) = s
  BY DEF Left
<1> QED BY <1>3, <1>4, <1>5 DEF Book

\* The workers a job gets are workers.
LEMMA PoppedProperties ==
  ASSUME now \in Nat, NEW bk \in Book, NEW n \in 0 .. Len(bk)
  PROVE  Popped(bk, n) \in SUBSET Workers
<1>1. Len(bk) \in Nat
  BY BookEntries
<1>2. \A i \in Newest(bk, n) : i \in 1 .. Len(bk)
  BY <1>1 DEF Newest
<1>3. \A i \in Newest(bk, n) : bk[i].worker \in Workers
  BY <1>2, BookEntries
<1> QED BY <1>3 DEF Popped

\* When get_workers meets a stale entry among the n newest, fewer than n entries
\* are left, and the book stays sorted.
LEMMA TrimmedProperties ==
  ASSUME now \in Nat, NEW bk \in Book, Sorted(bk), NEW n \in 1 .. Len(bk),
         ~AllFresh(bk, n)
  PROVE  /\ Trimmed(bk, n) \in Book
         /\ Sorted(Trimmed(bk, n))
         /\ Len(Trimmed(bk, n)) < n
         /\ Len(Trimmed(bk, n)) \in Nat
<1> DEFINE E == [worker : Workers, at : 0 .. now, seen : 0 .. now]
           St == {i \in Newest(bk, n) : Stale(bk[i])}
           k == Max(St)
           m == Len(bk) - k
           s == [i \in 1 .. m |-> [bk[k + i] EXCEPT !.at = bk[k + 1].at]]
<1>0. Len(bk) \in Nat
  BY BookEntries
<1>1. St # {}
  BY DEF AllFresh
<1>2. k \in Newest(bk, n)
  <2>1. Len(bk) - n + 1 \in Int /\ Len(bk) \in Int
    BY <1>0
  <2>2. St \in SUBSET (Len(bk) - n + 1 .. Len(bk))
    BY DEF Newest
  <2>3. k \in St
    <3> HIDE DEF St
    <3> QED BY <1>1, <2>1, <2>2, MaxExists
  <2> QED BY <2>3
<1> HIDE DEF k
<1>3. k \in 1 .. Len(bk) /\ Len(bk) - n + 1 <= k
  BY <1>0, <1>2 DEF Newest
<1>4. m \in Nat /\ m < n
  BY <1>0, <1>3
<1>5. \A i \in 1 .. m : k + i \in 1 .. Len(bk) /\ k + 1 \in 1 .. Len(bk)
  BY <1>0, <1>3
<1>6. \A i \in 1 .. m : /\ s[i] \in E
                        /\ s[i].worker = bk[k + i].worker
                        /\ s[i].at = bk[k + 1].at
  <2> TAKE i \in 1 .. m
  <2>1. bk[k + i] \in E /\ bk[k + 1] \in E
    BY <1>5, BookEntries
  <2>2. s[i] = [bk[k + i] EXCEPT !.at = bk[k + 1].at]
    OBVIOUS
  <2> HIDE DEF s
  <2> QED BY <2>1, <2>2
<1>7. s \in Seq(E) /\ Len(s) = m /\ DOMAIN s = 1 .. m
  <2>1. \A i \in 1 .. m : [bk[k + i] EXCEPT !.at = bk[k + 1].at] \in E
    BY <1>6
  <2> HIDE DEF E
  <2> QED BY <1>4, <2>1, IsASeq
<1> HIDE DEF s
<1>8. Sorted(s)
  <2> SUFFICES ASSUME NEW i \in 1 .. m, NEW j \in 1 .. m, i < j
               PROVE  s[i].worker # s[j].worker /\ s[i].at <= s[j].at
    BY <1>7 DEF Sorted
  <2>1. k + i < k + j /\ k + i \in 1 .. Len(bk) /\ k + j \in 1 .. Len(bk)
    BY <1>3, <1>4, <1>5
  <2>2. bk[k + i].worker # bk[k + j].worker
    BY <2>1, BookEntries DEF Sorted
  <2>3. bk[k + 1].at \in Nat
    BY <1>5, BookEntries
  <2> QED BY <1>6, <2>2, <2>3
<1>9. Trimmed(bk, n) = s
  BY DEF Trimmed, s, k
<1> QED BY <1>4, <1>7, <1>8, <1>9 DEF Book

-----------------------------------------------------------------------------
(* The loop that empties the queue.                                        *)

\* The workers of one more job.
LEMMA OneMoreBatch ==
  ASSUME NEW k \in Nat, NEW n \in Nat
  PROVE  k * n \in Nat /\ (k + 1) * n = k * n + n
OBVIOUS

\* The loop serves as many jobs as the book has fresh workers for, and no fewer.
LEMMA ServedProperties ==
  ASSUME now \in Nat, NEW bk \in Book, queue \in Seq(Jobs)
  PROVE  /\ Served(bk) \in 0 .. Len(queue)
         /\ Served(bk) * NumWorkers \in 0 .. Len(bk)
         /\ AllFresh(bk, Served(bk) * NumWorkers)
         /\ \A k \in 0 .. Len(queue) :
              k * NumWorkers <= Len(bk) /\ AllFresh(bk, k * NumWorkers) => k <= Served(bk)
<1> DEFINE K == {k \in 0 .. Len(queue) : k * NumWorkers <= Len(bk)
                                         /\ AllFresh(bk, k * NumWorkers)}
<1>0. Len(bk) \in Nat /\ Len(queue) \in Nat /\ NumWorkers \in Nat
  BY BookEntries, LenProperties, AssignerAssumption
<1>1. 0 \in K
  <2>1. 0 * NumWorkers = 0
    BY <1>0
  <2>2. AllFresh(bk, 0)
    BY <1>0 DEF AllFresh, Newest
  <2> QED BY <1>0, <2>1, <2>2
<1>2. Max(K) \in K /\ \A y \in K : Max(K) >= y
  <2>1. K \in SUBSET (0 .. Len(queue)) /\ K # {}
    BY <1>1
  <2>2. 0 \in Int /\ Len(queue) \in Int
    BY <1>0
  <2> HIDE DEF K
  <2> QED BY <2>1, <2>2, MaxExists
<1>3. Served(bk) = Max(K)
  BY DEF Served
<1>4. \A k \in 0 .. Len(queue) : k * NumWorkers \in Nat
  BY <1>0, OneMoreBatch
<1> QED BY <1>0, <1>2, <1>3, <1>4

\* After the loop the book is sorted, and if jobs still wait it has too few workers.
LEMMA AfterServingProperties ==
  ASSUME now \in Nat, NEW bk \in Book, Sorted(bk), queue \in Seq(Jobs)
  PROVE  /\ AfterServing(bk) \in Book
         /\ Sorted(AfterServing(bk))
         /\ Len(AfterServing(bk)) \in 0 .. Len(bk)
         /\ Served(bk) < Len(queue) => Len(AfterServing(bk)) < NumWorkers
         /\ ~StoppedByStale(bk) =>
              Len(AfterServing(bk)) = Len(bk) - Served(bk) * NumWorkers
         /\ Len(AfterServing(bk)) <= Len(bk) - Served(bk) * NumWorkers
<1> DEFINE k == Served(bk)
           rest == Rest(bk)
<1>0. Len(bk) \in Nat /\ Len(queue) \in Nat /\ NumWorkers \in Nat /\ NumWorkers > 0
  BY BookEntries, LenProperties, AssignerAssumption
<1>1. /\ k \in 0 .. Len(queue)
      /\ k * NumWorkers \in 0 .. Len(bk)
      /\ AllFresh(bk, k * NumWorkers)
      /\ \A q \in 0 .. Len(queue) :
           q * NumWorkers <= Len(bk) /\ AllFresh(bk, q * NumWorkers) => q <= k
  BY ServedProperties
<1>2. /\ rest \in Book /\ Sorted(rest)
      /\ Len(rest) = Len(bk) - k * NumWorkers
      /\ \A i \in 1 .. Len(bk) - k * NumWorkers : rest[i] = bk[i]
  BY <1>1, LeftProperties DEF Rest
<1>3. ASSUME k < Len(queue), Len(rest) >= NumWorkers
      PROVE  ~AllFresh(rest, NumWorkers)
  <2> SUFFICES ASSUME AllFresh(rest, NumWorkers) PROVE FALSE
    OBVIOUS
  <2>1. k + 1 \in 0 .. Len(queue) /\ (k + 1) * NumWorkers = k * NumWorkers + NumWorkers
    BY <1>0, <1>1, <1>3, OneMoreBatch
  <2> HIDE DEF k, rest
  <2>2. (k + 1) * NumWorkers <= Len(bk)
    BY <1>0, <1>1, <1>2, <1>3, <2>1
  <2>3. AllFresh(bk, (k + 1) * NumWorkers)
    <3> SUFFICES ASSUME NEW i \in Newest(bk, (k + 1) * NumWorkers)
                 PROVE  ~Stale(bk[i])
      BY DEF AllFresh
    <3>1. CASE i \in Newest(bk, k * NumWorkers)
      BY <1>1, <3>1 DEF AllFresh
    <3>2. CASE i \notin Newest(bk, k * NumWorkers)
      <4>1. /\ i \in Newest(rest, NumWorkers)
            /\ i \in 1 .. Len(bk) - k * NumWorkers
        BY <1>0, <1>1, <1>2, <1>3, <2>1, <3>2 DEF Newest
      <4> QED BY <1>2, <4>1 DEF AllFresh
    <3> QED BY <3>1, <3>2
  <2>4. k + 1 <= k
    BY <1>1, <2>1, <2>2, <2>3
  <2> QED BY <1>1, <2>4
<1>4. CASE StoppedByStale(bk)
  <2>1. ~AllFresh(rest, NumWorkers) /\ NumWorkers \in 1 .. Len(rest)
    BY <1>0, <1>1, <1>2, <1>4 DEF StoppedByStale
  <2>2. AfterServing(bk) = Trimmed(rest, NumWorkers)
    BY <1>4 DEF AfterServing
  <2> HIDE DEF rest, k
  <2>3. /\ AfterServing(bk) \in Book /\ Sorted(AfterServing(bk))
        /\ Len(AfterServing(bk)) < NumWorkers /\ Len(AfterServing(bk)) \in Nat
    BY <1>2, <2>1, <2>2, TrimmedProperties
  <2>4. Len(AfterServing(bk)) <= Len(bk) - k * NumWorkers
    BY <1>0, <1>1, <1>2, <2>1, <2>3
  <2>5. Len(AfterServing(bk)) \in 0 .. Len(bk)
    BY <1>0, <1>1, <2>3, <2>4
  <2> QED BY <1>4, <2>3, <2>4, <2>5 DEF k
<1>5. CASE ~StoppedByStale(bk)
  <2>1. AfterServing(bk) = rest
    BY <1>5 DEF AfterServing
  <2>2. k < Len(queue) => Len(rest) < NumWorkers
    <3>1. Len(rest) \in Int
      BY <1>0, <1>1, <1>2
    <3> QED BY <1>0, <1>3, <1>5, <3>1 DEF StoppedByStale
  <2>3. Len(rest) \in 0 .. Len(bk)
    BY <1>0, <1>1, <1>2
  <2>4. Len(rest) <= Len(bk) - k * NumWorkers
    BY <1>2, <2>3
  <2> QED BY <1>2, <2>1, <2>2, <2>3, <2>4
<1> QED BY <1>4, <1>5

\* The eviction leaves at most MAX_WORKERS of the MAX_WORKERS + 1 entries there can be.
LEMMA EvictProperties ==
  ASSUME now \in Nat, NEW bk \in Book, Sorted(bk), Len(bk) <= MAX_WORKERS + 1
  PROVE  /\ EvictLRU(bk) \in Book
         /\ Sorted(EvictLRU(bk))
         /\ Len(EvictLRU(bk)) = Len(bk) - (IF Len(bk) > MAX_WORKERS THEN 1 ELSE 0)
         /\ Len(EvictLRU(bk)) <= MAX_WORKERS
<1>0. Len(bk) \in Nat /\ MAX_WORKERS \in Nat /\ MAX_WORKERS > 0
  BY BookEntries, AssignerAssumption
<1>1. CASE Len(bk) > MAX_WORKERS
  <2> DEFINE E == [worker : Workers, at : 0 .. now, seen : 0 .. now]
             t == Tail(bk)
  <2>1. bk \in Seq(E) /\ bk # <<>>
    BY <1>0, <1>1, EmptySeq DEF Book
  <2>2. t \in Seq(E) /\ Len(t) = Len(bk) - 1 /\ \A i \in 1 .. Len(t) : t[i] = bk[i + 1]
    <3> HIDE DEF E
    <3> QED BY <2>1, HeadTailProperties
  <2>3. Sorted(t)
    <3>1. DOMAIN t = 1 .. Len(t)
      BY <2>2, LenProperties
    <3> HIDE DEF t
    <3> SUFFICES ASSUME NEW i \in 1 .. Len(t), NEW j \in 1 .. Len(t), i < j
                 PROVE  t[i].worker # t[j].worker /\ t[i].at <= t[j].at
      BY <3>1 DEF Sorted
    <3>2. i + 1 \in 1 .. Len(bk) /\ j + 1 \in 1 .. Len(bk) /\ i + 1 < j + 1
      BY <1>0, <2>2
    <3>3. t[i] = bk[i + 1] /\ t[j] = bk[j + 1]
      BY <2>2
    <3> QED BY <3>2, <3>3, BookEntries DEF Sorted
  <2>4. EvictLRU(bk) = t
    BY <1>1 DEF EvictLRU
  <2>5. Len(t) <= MAX_WORKERS
    BY <1>0, <2>2
  <2> QED BY <1>1, <2>2, <2>3, <2>4, <2>5 DEF Book
<1>2. CASE ~(Len(bk) > MAX_WORKERS)
  BY <1>0, <1>2 DEF EvictLRU
<1> QED BY <1>1, <1>2

\* A job gets as many workers as are popped: no worker is booked twice.
LEMMA PoppedCount ==
  ASSUME now \in Nat, NEW bk \in Book, Sorted(bk), NEW n \in 0 .. Len(bk)
  PROVE  Cardinality(Popped(bk, n)) = n
<1> DEFINE a == Len(bk) - n + 1
           f == [i \in Newest(bk, n) |-> bk[i].worker]
<1>0. Len(bk) \in Nat /\ DOMAIN bk = 1 .. Len(bk)
  BY BookEntries
<1>1. a \in Int /\ Len(bk) \in Int /\ Newest(bk, n) = a .. Len(bk)
  BY <1>0 DEF Newest
<1>2. IsFiniteSet(Newest(bk, n)) /\ Cardinality(Newest(bk, n)) = n
  <2> HIDE DEF a
  <2>1. /\ IsFiniteSet(a .. Len(bk))
        /\ Cardinality(a .. Len(bk)) = IF a > Len(bk) THEN 0 ELSE Len(bk) - a + 1
    BY <1>1, FS_Interval
  <2> QED BY <1>0, <1>1, <2>1 DEF a
<1>3. ASSUME NEW i \in Newest(bk, n), NEW j \in Newest(bk, n), f[i] = f[j]
      PROVE  i = j
  <2>1. i \in DOMAIN bk /\ j \in DOMAIN bk /\ i \in Int /\ j \in Int
    BY <1>0, <1>1
  <2>2. i < j => bk[i].worker # bk[j].worker
    BY <2>1 DEF Sorted
  <2>3. j < i => bk[j].worker # bk[i].worker
    BY <2>1 DEF Sorted
  <2> QED BY <1>3, <2>1, <2>2, <2>3
<1>4. f \in Bijection(Newest(bk, n), Popped(bk, n))
  BY <1>3 DEF Bijection, Injection, Surjection, IsInjective, Popped
<1> QED BY <1>2, <1>4, FS_Bijection DEF ExistsBijection

\* The batch of every served job is a set of as many workers as it needs.
LEMMA BatchProperties ==
  ASSUME now \in Nat, NEW bk \in Book, Sorted(bk), queue \in Seq(Jobs),
         NEW i \in 1 .. Served(bk)
  PROVE  /\ Batch(bk, i) \in SUBSET Workers
         /\ Cardinality(Batch(bk, i)) = NumWorkers
<1> DEFINE k == Served(bk)
           left == Left(bk, (i - 1) * NumWorkers)
<1>0. Len(bk) \in Nat /\ NumWorkers \in Nat /\ k \in Nat /\ Len(queue) \in Nat
  BY BookEntries, LenProperties, ServedProperties, AssignerAssumption
<1>1. k * NumWorkers \in 0 .. Len(bk)
  BY ServedProperties
<1> HIDE DEF k
<1>2. i \in Nat /\ i - 1 \in Nat /\ k - i \in Nat
  BY <1>0 DEF k
<1>3. /\ (i - 1) * NumWorkers \in Nat
      /\ i * NumWorkers = (i - 1) * NumWorkers + NumWorkers
  BY <1>0, <1>2, OneMoreBatch
<1>4. (k - i) * NumWorkers \in Nat /\ k * NumWorkers = i * NumWorkers + (k - i) * NumWorkers
  BY <1>0, <1>2
<1>5. (i - 1) * NumWorkers + NumWorkers <= Len(bk)
  BY <1>0, <1>1, <1>3, <1>4
<1>6. (i - 1) * NumWorkers \in 0 .. Len(bk)
  BY <1>0, <1>3, <1>5
<1>7. left \in Book /\ Sorted(left) /\ Len(left) = Len(bk) - (i - 1) * NumWorkers
  BY <1>6, LeftProperties
<1>8. NumWorkers \in 0 .. Len(left)
  BY <1>0, <1>3, <1>5, <1>7
<1> HIDE DEF left
<1>9. /\ Popped(left, NumWorkers) \in SUBSET Workers
      /\ Cardinality(Popped(left, NumWorkers)) = NumWorkers
  BY <1>7, <1>8, PoppedProperties, PoppedCount
<1> QED BY <1>9 DEF Batch, left

-----------------------------------------------------------------------------
(* The inductive invariant.                                                *)

\* No instant in the book is in the future: what keeps it sorted when an entry is
\* appended with the current instant.
BookInPast == book \in Book

IInv == /\ TypeOK /\ BookInPast /\ BookSorted
        /\ NoIdleWorkers /\ GaugesMatch /\ FirstComeFirstServed

\* The assigner starts with nothing.
LEMMA InitIInv == Init => IInv
<1> SUFFICES ASSUME Init PROVE IInv
  OBVIOUS
<1>1. book = <<>> /\ queue = <<>> /\ pub = <<>>
  BY DEF Init
<1>2. <<>> \in Book /\ Len(<<>>) = 0 /\ DOMAIN <<>> = {}
  BY EmptySeq DEF Book
<1>3. TypeOK
  <2>1. <<>> \in Seq(Entry) /\ <<>> \in Seq(Jobs) /\ <<>> \in Seq(Assignment)
    BY EmptySeq
  <2> QED BY <1>1, <1>2, <2>1, AssignerAssumption DEF Init, TypeOK, Never
<1> QED BY <1>1, <1>2, <1>3
        DEF Init, IInv, BookInPast, BookSorted, NoIdleWorkers, GaugesMatch,
            FirstComeFirstServed

\* What IInv says of the book, in the form the lemmas above use.
LEMMA BookFacts ==
  ASSUME IInv
  PROVE  /\ now \in Nat /\ book \in Book /\ Sorted(book)
         /\ Len(book) \in Nat /\ Len(book) <= MAX_WORKERS
         /\ queue \in Seq(Jobs) /\ Len(queue) \in Nat
         /\ pub \in Seq(Assignment) /\ Len(pub) \in Nat
         /\ MAX_WORKERS \in Nat /\ NumWorkers \in Nat /\ NumWorkers > 0
<1>1. now \in Nat /\ MAX_WORKERS \in Nat /\ NumWorkers \in Nat /\ NumWorkers > 0
  BY AssignerAssumption DEF IInv, TypeOK
<1>2. book \in Book /\ Sorted(book) /\ Len(book) <= MAX_WORKERS
  BY DEF IInv, BookInPast, BookSorted, Sorted, TypeOK
<1>3. Len(book) \in Nat
  BY <1>1, <1>2, BookEntries
<1>4. queue \in Seq(Jobs) /\ pub \in Seq(Assignment)
  BY DEF IInv, TypeOK
<1> QED BY <1>1, <1>2, <1>3, <1>4, LenProperties

\* A book is a sequence of entries.
LEMMA BookIsEntries == now \in Nat => Book \subseteq Seq(Entry)
<1> SUFFICES ASSUME now \in Nat PROVE Book \subseteq Seq(Entry)
  OBVIOUS
<1> DEFINE E == [worker : Workers, at : 0 .. now, seen : 0 .. now]
<1>1. E \subseteq Entry
  BY DEF Entry
<1> HIDE DEF E
<1>2. Seq(E) \subseteq Seq(Entry)
  BY <1>1, SeqMonotonic
<1> QED BY <1>2 DEF Book, E

-----------------------------------------------------------------------------
(* A heartbeat keeps the invariant.                                        *)

\* The book and its gauge.
LEMMA HeartbeatBook ==
  ASSUME IInv, NEW w \in Workers, Heartbeat(w)
  PROVE  /\ book' \in Book /\ Sorted(book')
         /\ Len(book') \in Nat /\ Len(book') <= MAX_WORKERS
         /\ Served(Insert(book, w)) < Len(queue) => Len(book') < NumWorkers
         /\ workersOnline' = Len(book')
         /\ Len(book') <= Len(book) + 1 - Served(Insert(book, w)) * NumWorkers
<1> DEFINE bk == Insert(book, w)
           left == AfterServing(bk)
           k == Served(bk)
<1>0. /\ now \in Nat /\ book \in Book /\ Sorted(book) /\ queue \in Seq(Jobs)
      /\ Len(book) \in Nat /\ Len(book) <= MAX_WORKERS
      /\ MAX_WORKERS \in Nat /\ NumWorkers \in Nat
  BY BookFacts
<1>1. /\ bk \in Book /\ Sorted(bk)
      /\ Len(bk) = Len(book) + (IF Booked(book, w) THEN 0 ELSE 1)
  BY <1>0, InsertProperties
<1> HIDE DEF bk
<1>2. /\ left \in Book /\ Sorted(left)
      /\ Len(left) \in 0 .. Len(bk)
      /\ k < Len(queue) => Len(left) < NumWorkers
      /\ ~StoppedByStale(bk) => Len(left) = Len(bk) - k * NumWorkers
      /\ Len(left) <= Len(bk) - k * NumWorkers
  BY <1>0, <1>1, AfterServingProperties
<1>3. k * NumWorkers \in 0 .. Len(bk)
  BY <1>0, <1>1, ServedProperties
<1>4. book' = EvictLRU(left) /\ workersOnline = Len(book)
  BY DEF Heartbeat, BookWorker, bk, IInv, GaugesMatch
<1>5. workersOnline' =
        (IF StoppedByStale(bk) THEN Len(left)
         ELSE (workersOnline + (IF Booked(book, w) THEN 0 ELSE 1)) - k * NumWorkers)
        - (IF Len(left) > MAX_WORKERS THEN 1 ELSE 0)
  <2>1. workersOnline' = OnlineAfter(bk, workersOnline + (IF Booked(book, w) THEN 0 ELSE 1))
    BY DEF Heartbeat, BookWorker, bk
  <2>2. \A online : OnlineAfter(bk, online) =
          (IF StoppedByStale(bk) THEN Len(left) ELSE online - k * NumWorkers)
          - (IF Len(left) > MAX_WORKERS THEN 1 ELSE 0)
    BY DEF OnlineAfter
  <2> QED BY <2>1, <2>2
<1> HIDE DEF left, k
<1>6. Len(bk) \in Nat /\ Len(bk) <= MAX_WORKERS + 1 /\ Len(bk) <= Len(book) + 1
  BY <1>0, <1>1
<1>7. Len(left) \in Nat /\ Len(left) <= MAX_WORKERS + 1
  BY <1>0, <1>2, <1>6
<1>8. /\ book' \in Book /\ Sorted(book')
      /\ Len(book') = Len(left) - (IF Len(left) > MAX_WORKERS THEN 1 ELSE 0)
      /\ Len(book') <= MAX_WORKERS
  BY <1>0, <1>2, <1>4, <1>7, EvictProperties
<1>9. Len(book') \in Nat /\ Len(book') <= Len(left)
  BY <1>0, <1>7, <1>8
<1>10. workersOnline' = Len(book')
  BY <1>0, <1>1, <1>2, <1>3, <1>4, <1>5, <1>7, <1>8
<1>11. k < Len(queue) => Len(book') < NumWorkers
  BY <1>0, <1>2, <1>7, <1>9
<1>12. Len(book') <= Len(book) + 1 - k * NumWorkers
  BY <1>0, <1>2, <1>3, <1>6, <1>7, <1>9
<1> QED BY <1>8, <1>9, <1>10, <1>11, <1>12 DEF bk, k

\* The queue and the publishing channel.
LEMMA HeartbeatQueue ==
  ASSUME IInv, NEW w \in Workers, Heartbeat(w)
  PROVE  LET k == Served(Insert(book, w))
         IN  /\ k \in 0 .. Len(queue)
             /\ queue' \in Seq(Jobs) /\ Len(queue') = Len(queue) - k
             /\ pub' \in Seq(Assignment) /\ Len(pub') = Len(pub) + k
             /\ \A i \in 1 .. Len(pub') :
                  IF i <= Len(pub) THEN pub'[i] = pub[i]
                                   ELSE Cardinality(pub'[i].workers) = NumWorkers
             /\ FirstComeFirstServed'
<1> DEFINE bk == Insert(book, w)
           k == Served(bk)
           out == [i \in 1 .. k |-> [job |-> queue[i], workers |-> Batch(bk, i)]]
<1>0. /\ now \in Nat /\ book \in Book /\ Sorted(book)
      /\ queue \in Seq(Jobs) /\ Len(queue) \in Nat
      /\ pub \in Seq(Assignment) /\ Len(pub) \in Nat
  BY BookFacts
<1>1. bk \in Book /\ Sorted(bk)
  BY <1>0, InsertProperties
<1>2. k \in 0 .. Len(queue) /\ k \in Nat
  BY <1>0, <1>1, ServedProperties
<1>3. /\ queue' = SubSeq(queue, k + 1, Len(queue))
      /\ pub' = pub \o out
      /\ arrived' = arrived
  BY DEF Heartbeat, BookWorker
<1>4. \A i \in 1 .. k : /\ queue[i] \in Jobs /\ Batch(bk, i) \in SUBSET Workers
                        /\ Cardinality(Batch(bk, i)) = NumWorkers
  <2> TAKE i \in 1 .. k
  <2>1. Batch(bk, i) \in SUBSET Workers /\ Cardinality(Batch(bk, i)) = NumWorkers
    BY <1>0, <1>1, BatchProperties
  <2>2. i \in 1 .. Len(queue)
    BY <1>0, <1>2
  <2>3. queue[i] \in Jobs
    BY <1>0, <2>2, ElementOfSeq
  <2> QED BY <2>1, <2>3
<1> HIDE DEF k, bk
<1>5. /\ out \in Seq(Assignment) /\ Len(out) = k
      /\ \A i \in 1 .. k : out[i].job = queue[i] /\ Cardinality(out[i].workers) = NumWorkers
  <2>1. \A i \in 1 .. k : [job |-> queue[i], workers |-> Batch(bk, i)] \in Assignment
    BY <1>4 DEF Assignment
  <2>2. out \in Seq(Assignment)
    BY <1>2, <2>1, IsASeq
  <2>3. Len(out) = k
    BY <1>2
  <2>4. \A i \in 1 .. k : out[i].job = queue[i] /\ Cardinality(out[i].workers) = NumWorkers
    BY <1>4
  <2> QED BY <2>2, <2>3, <2>4
<1> HIDE DEF out
<1>6. /\ queue' \in Seq(Jobs) /\ Len(queue') = Len(queue) - k
      /\ \A i \in 1 .. Len(queue) - k : queue'[i] = queue[k + i]
  <2>1. \A i \in k + 1 .. Len(queue) : queue[i] \in Jobs
    <3>1. \A i \in k + 1 .. Len(queue) : i \in 1 .. Len(queue)
      BY <1>0, <1>2
    <3> QED BY <1>0, <3>1, ElementOfSeq
  <2> DEFINE s == SubSeq(queue, k + 1, Len(queue))
  <2>2. /\ s \in Seq(Jobs)
        /\ Len(s) = IF k + 1 <= Len(queue) THEN Len(queue) - (k + 1) + 1 ELSE 0
        /\ \A i \in 1 .. Len(queue) - (k + 1) + 1 : s[i] = queue[(k + 1) + i - 1]
    <3>1. k + 1 \in Int /\ Len(queue) \in Int
      BY <1>0, <1>2
    <3> QED BY <2>1, <3>1, SubSeqProperties
  <2> HIDE DEF s
  <2>3. s \in Seq(Jobs) /\ Len(s) = Len(queue) - k
    BY <1>0, <1>2, <2>2
  <2>4. \A i \in 1 .. Len(queue) - k : s[i] = queue[k + i]
    BY <1>0, <1>2, <2>2
  <2> QED BY <1>3, <2>3, <2>4 DEF s
<1>7. /\ pub' \in Seq(Assignment) /\ Len(pub') = Len(pub) + k
      /\ \A i \in 1 .. Len(pub) + k :
           pub'[i] = IF i <= Len(pub) THEN pub[i] ELSE out[i - Len(pub)]
  BY <1>0, <1>3, <1>5, ConcatProperties
<1>8. /\ \A i \in 1 .. Len(queue) : queue[i] = arrived - Len(queue) + i
      /\ \A i \in 1 .. Len(pub) : pub[i].job = arrived - Len(queue) - Len(pub) + i
  BY <1>0, LenProperties DEF IInv, FirstComeFirstServed
<1>9. arrived \in Int
  BY DEF IInv, TypeOK
<1>a. /\ arrived' = arrived /\ Len(queue') = Len(queue) - k /\ Len(pub') = Len(pub) + k
      /\ arrived \in Int /\ Len(queue) \in Int /\ Len(pub) \in Int /\ k \in Int
  BY <1>0, <1>2, <1>3, <1>6, <1>7, <1>9
<1>10. FirstComeFirstServed'
  <2>1. DOMAIN queue' = 1 .. Len(queue) - k /\ DOMAIN pub' = 1 .. Len(pub) + k
    BY <1>6, <1>7, LenProperties
  <2>2. ASSUME NEW i \in 1 .. Len(queue) - k
        PROVE  queue'[i] = arrived' - Len(queue') + i
    <3>1. k + i \in 1 .. Len(queue)
      BY <1>0, <1>2
    <3>2. queue'[i] = arrived - Len(queue) + (k + i)
      BY <1>6, <1>8, <3>1
    <3> QED BY <1>a, <3>2
  <2>3. ASSUME NEW i \in 1 .. Len(pub) + k
        PROVE  pub'[i].job = arrived' - Len(queue') - Len(pub') + i
    <3>1. CASE i <= Len(pub)
      <4>1. i \in 1 .. Len(pub) /\ pub'[i] = pub[i]
        BY <1>0, <1>2, <1>7, <3>1
      <4>2. pub'[i].job = arrived - Len(queue) - Len(pub) + i
        BY <1>8, <4>1
      <4> QED BY <1>a, <4>2
    <3>2. CASE ~(i <= Len(pub))
      <4>1. i - Len(pub) \in 1 .. k /\ i - Len(pub) \in 1 .. Len(queue)
        BY <1>0, <1>2, <3>2
      <4>2. pub'[i] = out[i - Len(pub)]
        BY <1>7, <3>2
      <4>3. pub'[i].job = arrived - Len(queue) + (i - Len(pub))
        BY <1>5, <1>8, <4>1, <4>2
      <4> QED BY <1>a, <4>3
    <3> QED BY <3>1, <3>2
  <2> QED BY <2>1, <2>2, <2>3 DEF FirstComeFirstServed
<1>11. ASSUME NEW i \in 1 .. Len(pub'), ~(i <= Len(pub))
       PROVE  Cardinality(pub'[i].workers) = NumWorkers
  <2>1. i \in 1 .. Len(pub) + k /\ i - Len(pub) \in 1 .. k
    BY <1>0, <1>2, <1>7, <1>11
  <2>2. pub'[i] = out[i - Len(pub)]
    BY <1>7, <1>11, <2>1
  <2> QED BY <1>5, <2>1, <2>2
<1>12. \A i \in 1 .. Len(pub') : i <= Len(pub) => pub'[i] = pub[i]
  BY <1>0, <1>2, <1>7
<1> QED BY <1>2, <1>6, <1>7, <1>10, <1>11, <1>12 DEF k, bk

\* Together: a heartbeat keeps the invariant.
LEMMA HeartbeatStep ==
  ASSUME IInv, NEW w \in Workers, Heartbeat(w)
  PROVE  IInv'
<1> DEFINE k == Served(Insert(book, w))
<1>0. now' = now
  BY DEF Heartbeat
<1>1. /\ book' \in Book /\ Sorted(book')
      /\ Len(book') \in Nat /\ Len(book') <= MAX_WORKERS
      /\ k < Len(queue) => Len(book') < NumWorkers
      /\ workersOnline' = Len(book')
  BY HeartbeatBook
<1>2. /\ k \in 0 .. Len(queue)
      /\ queue' \in Seq(Jobs) /\ Len(queue') = Len(queue) - k
      /\ pub' \in Seq(Assignment)
      /\ FirstComeFirstServed'
  BY HeartbeatQueue
<1>3. Len(queue) \in Nat /\ now \in Nat
  BY BookFacts
<1>4. cachedJobs' = cachedJobs - k /\ cachedJobs = Len(queue)
  BY DEF Heartbeat, BookWorker, IInv, GaugesMatch
<1> HIDE DEF k
<1>5. TypeOK'
  <2>1. book' \in Seq(Entry)
    BY <1>1, <1>3, BookIsEntries
  <2>2. workersOnline' \in Int /\ cachedJobs' \in Int
    BY <1>1, <1>2, <1>3, <1>4
  <2> QED BY <1>1, <1>2, <2>1, <2>2 DEF Heartbeat, IInv, TypeOK
<1>6. BookInPast'
  BY <1>0, <1>1 DEF BookInPast, Book
<1>7. BookSorted'
  BY <1>1 DEF Sorted, BookSorted
<1>8. NoIdleWorkers'
  <2>1. queue' # <<>> => k < Len(queue)
    BY <1>2, <1>3, EmptySeq
  <2> QED BY <1>1, <2>1 DEF NoIdleWorkers
<1>9. GaugesMatch'
  BY <1>1, <1>2, <1>3, <1>4 DEF GaugesMatch
<1> QED BY <1>2, <1>5, <1>6, <1>7, <1>8, <1>9 DEF IInv

-----------------------------------------------------------------------------
(* A new job keeps the invariant.                                          *)

\* A job that is queued goes to the back of the queue.
LEMMA EnqueueProperties ==
  ASSUME IInv, NewJob, Enqueue(arrived')
  PROVE  /\ queue' \in Seq(Jobs) /\ Len(queue') = Len(queue) + 1
         /\ cachedJobs' = Len(queue')
         /\ pub' = pub
         /\ FirstComeFirstServed'
<1> DEFINE j == arrived + 1
<1>0. /\ queue \in Seq(Jobs) /\ Len(queue) \in Nat
      /\ pub \in Seq(Assignment) /\ Len(pub) \in Nat
  BY BookFacts
<1>1. arrived \in Nat /\ MaxJobs \in Nat /\ arrived < MaxJobs /\ arrived' = arrived + 1
  BY AssignerAssumption DEF IInv, TypeOK, NewJob
<1>2. j \in Jobs
  BY <1>1 DEF Jobs
<1>3. queue' = Append(queue, j) /\ cachedJobs' = Len(queue) + 1 /\ pub' = pub
  BY <1>1 DEF Enqueue, IInv, GaugesMatch
<1>4. /\ queue' \in Seq(Jobs) /\ Len(queue') = Len(queue) + 1
      /\ \A i \in 1 .. Len(queue) : queue'[i] = queue[i]
      /\ queue'[Len(queue) + 1] = j
  <2> HIDE DEF j
  <2> QED BY <1>0, <1>2, <1>3, AppendProperties
<1>5. /\ \A i \in 1 .. Len(queue) : queue[i] = arrived - Len(queue) + i
      /\ \A i \in 1 .. Len(pub) : pub[i].job = arrived - Len(queue) - Len(pub) + i
  BY <1>0, LenProperties DEF IInv, FirstComeFirstServed
<1>6. DOMAIN queue' = 1 .. Len(queue) + 1 /\ DOMAIN pub' = 1 .. Len(pub)
  BY <1>0, <1>3, <1>4, LenProperties
<1>7. ASSUME NEW i \in 1 .. Len(queue) + 1
      PROVE  queue'[i] = arrived' - Len(queue') + i
  <2>1. CASE i \in 1 .. Len(queue)
    <3>1. queue'[i] = arrived - Len(queue) + i
      BY <1>4, <1>5, <2>1
    <3> QED BY <1>0, <1>1, <1>4, <3>1
  <2>2. CASE i = Len(queue) + 1
    BY <1>0, <1>1, <1>4, <2>2
  <2> QED BY <1>0, <2>1, <2>2
<1>8. ASSUME NEW i \in 1 .. Len(pub)
      PROVE  pub'[i].job = arrived' - Len(queue') - Len(pub') + i
  <2>1. pub'[i].job = arrived - Len(queue) - Len(pub) + i
    BY <1>3, <1>5
  <2>2. Len(pub') = Len(pub)
    BY <1>3
  <2> QED BY <1>0, <1>1, <1>4, <2>1, <2>2
<1> QED BY <1>3, <1>4, <1>6, <1>7, <1>8 DEF FirstComeFirstServed

\* A job that gets workers at once goes to the back of the channel, and then no
\* job was waiting.
LEMMA AssignProperties ==
  ASSUME IInv, NewJob, Len(book) >= NumWorkers,
         pub' = Append(pub, [job |-> arrived', workers |-> Popped(book, NumWorkers)]),
         UNCHANGED queue
  PROVE  /\ queue = <<>>
         /\ pub' \in Seq(Assignment) /\ Len(pub') = Len(pub) + 1
         /\ \A i \in 1 .. Len(pub) : pub'[i] = pub[i]
         /\ Cardinality(pub'[Len(pub) + 1].workers) = NumWorkers
         /\ FirstComeFirstServed'
<1> DEFINE m == [job |-> arrived + 1, workers |-> Popped(book, NumWorkers)]
<1>0. /\ pub \in Seq(Assignment) /\ Len(pub) \in Nat
      /\ now \in Nat /\ book \in Book /\ Sorted(book) /\ Len(book) \in Nat
      /\ NumWorkers \in Nat
  BY BookFacts
<1>1. arrived \in Nat /\ MaxJobs \in Nat /\ arrived < MaxJobs /\ arrived' = arrived + 1
  BY AssignerAssumption DEF IInv, TypeOK, NewJob
<1>2. queue = <<>>
  BY <1>0 DEF IInv, NoIdleWorkers
<1>3. m \in Assignment /\ m.job = arrived + 1 /\ Cardinality(m.workers) = NumWorkers
  <2>1. NumWorkers \in 0 .. Len(book)
    BY <1>0
  <2>2. /\ Popped(book, NumWorkers) \in SUBSET Workers
        /\ Cardinality(Popped(book, NumWorkers)) = NumWorkers
    BY <1>0, <2>1, PoppedProperties, PoppedCount
  <2>3. arrived + 1 \in Jobs
    BY <1>1 DEF Jobs
  <2> QED BY <2>2, <2>3 DEF Assignment
<1>4. pub' = Append(pub, m)
  BY <1>1
<1> HIDE DEF m
<1>5. /\ pub' \in Seq(Assignment) /\ Len(pub') = Len(pub) + 1
      /\ \A i \in 1 .. Len(pub) : pub'[i] = pub[i]
      /\ pub'[Len(pub) + 1] = m
  BY <1>0, <1>3, <1>4, AppendProperties
<1>6. \A i \in 1 .. Len(pub) : pub[i].job = arrived - 0 - Len(pub) + i
  <2>1. Len(queue) = 0
    BY <1>2
  <2> QED BY <1>0, <2>1, LenProperties DEF IInv, FirstComeFirstServed
<1>7. DOMAIN pub' = 1 .. Len(pub) + 1
  BY <1>5, LenProperties
<1>8. ASSUME NEW i \in 1 .. Len(pub) + 1
      PROVE  pub'[i].job = arrived' - 0 - Len(pub') + i
  <2>1. CASE i \in 1 .. Len(pub)
    <3>1. pub'[i].job = arrived - 0 - Len(pub) + i
      BY <1>5, <1>6, <2>1
    <3> QED BY <1>0, <1>1, <1>5, <3>1
  <2>2. CASE i = Len(pub) + 1
    <3>1. pub'[i].job = arrived + 1
      BY <1>3, <1>5, <2>2
    <3> QED BY <1>0, <1>1, <1>5, <2>2, <3>1
  <2> QED BY <1>0, <2>1, <2>2
<1>9. queue' = <<>> /\ Len(queue') = 0 /\ DOMAIN queue' = {}
  BY <1>2
<1>10. FirstComeFirstServed'
  BY <1>7, <1>8, <1>9 DEF FirstComeFirstServed
<1> QED BY <1>2, <1>3, <1>5, <1>10

\* A new job keeps the invariant.
LEMMA NewJobStep ==
  ASSUME IInv, NewJob
  PROVE  IInv'
<1>0. /\ now \in Nat /\ book \in Book /\ Sorted(book)
      /\ Len(book) \in Nat /\ Len(book) <= MAX_WORKERS /\ MAX_WORKERS \in Nat
      /\ queue \in Seq(Jobs) /\ Len(queue) \in Nat
      /\ pub \in Seq(Assignment)
      /\ NumWorkers \in Nat /\ NumWorkers > 0
  BY BookFacts
<1>1. now' = now
  BY DEF NewJob
<1>2. AssignOrQueue(arrived')
  BY DEF NewJob
<1>3. SUFFICES /\ book' \in Book /\ Sorted(book') /\ Len(book') \in Nat
               /\ Len(book') <= Len(book)
               /\ queue' \in Seq(Jobs)
               /\ pub' \in Seq(Assignment)
               /\ NoIdleWorkers' /\ GaugesMatch' /\ FirstComeFirstServed'
  <2>1. BookInPast' /\ BookSorted'
    BY <1>1, <1>3 DEF BookInPast, Book, Sorted, BookSorted
  <2>2. TypeOK'
    <3>1. book' \in Seq(Entry) /\ Len(book') <= MAX_WORKERS
      BY <1>0, <1>3, BookIsEntries
    <3>2. Len(queue') \in Int
      BY <1>3, LenProperties
    <3>3. workersOnline' \in Int /\ cachedJobs' \in Int
      BY <1>3, <3>2 DEF GaugesMatch
    <3>4. arrived' \in 0 .. MaxJobs
      BY AssignerAssumption DEF IInv, TypeOK, NewJob
    <3> QED BY <1>3, <3>1, <3>3, <3>4 DEF NewJob, IInv, TypeOK
  <2> QED BY <1>3, <2>1, <2>2 DEF IInv
<1>4. CASE /\ Len(book) < NumWorkers
           /\ Enqueue(arrived')
           /\ UNCHANGED <<book, workersOnline>>
  <2>1. /\ queue' \in Seq(Jobs) /\ Len(queue') = Len(queue) + 1
        /\ cachedJobs' = Len(queue') /\ pub' = pub /\ FirstComeFirstServed'
    BY <1>4, EnqueueProperties
  <2>2. NoIdleWorkers' /\ GaugesMatch'
    BY <1>4, <2>1 DEF NoIdleWorkers, GaugesMatch, IInv
  <2> QED BY <1>0, <1>4, <2>1, <2>2
<1>5. CASE /\ Len(book) >= NumWorkers /\ AllFresh(book, NumWorkers)
           /\ book' = Left(book, NumWorkers)
           /\ pub' = Append(pub, [job |-> arrived', workers |-> Popped(book, NumWorkers)])
           /\ workersOnline' = workersOnline - NumWorkers
           /\ UNCHANGED <<queue, cachedJobs>>
  <2>1. queue = <<>> /\ pub' \in Seq(Assignment) /\ FirstComeFirstServed'
    BY <1>5, AssignProperties
  <2>2. NumWorkers \in 0 .. Len(book)
    BY <1>0, <1>5
  <2>3. book' \in Book /\ Sorted(book') /\ Len(book') = Len(book) - NumWorkers
    BY <1>0, <1>5, <2>2, LeftProperties
  <2>4. workersOnline = Len(book) /\ cachedJobs = Len(queue)
    BY DEF IInv, GaugesMatch
  <2>5. NoIdleWorkers' /\ GaugesMatch'
    BY <1>0, <1>5, <2>1, <2>3, <2>4 DEF NoIdleWorkers, GaugesMatch
  <2>6. Len(book') \in Nat /\ Len(book') <= Len(book)
    BY <1>0, <2>2, <2>3
  <2> QED BY <1>0, <1>5, <2>1, <2>3, <2>5, <2>6
<1>6. CASE /\ Len(book) >= NumWorkers /\ ~AllFresh(book, NumWorkers)
           /\ book' = Trimmed(book, NumWorkers)
           /\ workersOnline' = Len(book')
           /\ Enqueue(arrived')
  <2>1. /\ queue' \in Seq(Jobs) /\ Len(queue') = Len(queue) + 1
        /\ cachedJobs' = Len(queue') /\ pub' = pub /\ FirstComeFirstServed'
    BY <1>6, EnqueueProperties
  <2>2. NumWorkers \in 1 .. Len(book)
    BY <1>0, <1>6
  <2>3. /\ book' \in Book /\ Sorted(book')
        /\ Len(book') < NumWorkers /\ Len(book') \in Nat
    BY <1>0, <1>6, <2>2, TrimmedProperties
  <2>4. NoIdleWorkers' /\ GaugesMatch'
    BY <1>6, <2>1, <2>3 DEF NoIdleWorkers, GaugesMatch
  <2>5. Len(book') <= Len(book)
    BY <1>0, <2>2, <2>3
  <2> QED BY <1>0, <2>1, <2>3, <2>4, <2>5
<1> QED BY <1>2, <1>4, <1>5, <1>6 DEF AssignOrQueue

-----------------------------------------------------------------------------
(* Publishing, retrying, the Client and the clock.                         *)

\* Taking the first assignment out of the channel keeps the order of the others.
LEMMA PublishStep ==
  ASSUME IInv, PublishAssign
  PROVE  IInv'
<1>0. /\ pub \in Seq(Assignment) /\ Len(pub) \in Nat /\ now \in Nat
      /\ Len(queue) \in Nat
  BY BookFacts
<1>1. pub # <<>> /\ pub' = Tail(pub)
  BY DEF PublishAssign
<1>2. /\ Head(pub) \in Assignment
      /\ pub' \in Seq(Assignment) /\ Len(pub') = Len(pub) - 1
      /\ \A i \in 1 .. Len(pub') : pub'[i] = pub[i + 1]
  BY <1>0, <1>1, HeadTailProperties
<1>3. UNCHANGED <<now, book, queue, clientUp, running, workersOnline, cachedJobs,
                  arrived, gaveUp>>
  BY DEF PublishAssign
<1>4. /\ assigned_senders' \in [Workers -> Nat \cup {Never}]
      /\ assigned' \in SUBSET Jobs
      /\ retries' \in SUBSET Retry
  <2>1. CASE clientUp
    BY <1>0, <1>2, <2>1 DEF PublishAssign, Record, IInv, TypeOK, Assignment
  <2>2. CASE ~clientUp
    <3>1. [job |-> Head(pub).job, workers |-> Head(pub).workers, counter |-> 0] \in Retry
      <4>1. 0 \in 0 .. RETRIES - 1
        BY AssignerAssumption
      <4> QED BY <1>2, <4>1 DEF Retry, Assignment
    <3> QED BY <2>2, <3>1 DEF PublishAssign, IInv, TypeOK
  <2> QED BY <2>1, <2>2
<1>5. TypeOK'
  BY <1>2, <1>3, <1>4 DEF IInv, TypeOK
<1>6. BookInPast' /\ BookSorted' /\ NoIdleWorkers' /\ GaugesMatch'
  BY <1>3 DEF IInv, BookInPast, Book, BookSorted, NoIdleWorkers, GaugesMatch
<1>7. FirstComeFirstServed'
  <2>1. /\ \A i \in DOMAIN queue : queue[i] = arrived - Len(queue) + i
        /\ \A i \in 1 .. Len(pub) : pub[i].job = arrived - Len(queue) - Len(pub) + i
    BY <1>0, LenProperties DEF IInv, FirstComeFirstServed
  <2>2. DOMAIN pub' = 1 .. Len(pub')
    BY <1>2, LenProperties
  <2>3. arrived \in Int
    BY DEF IInv, TypeOK
  <2>4. ASSUME NEW i \in 1 .. Len(pub')
        PROVE  pub'[i].job = arrived - Len(queue) - Len(pub') + i
    <3>1. i + 1 \in 1 .. Len(pub)
      BY <1>0, <1>2
    <3>2. pub'[i].job = arrived - Len(queue) - Len(pub) + (i + 1)
      BY <1>2, <2>1, <3>1
    <3> QED BY <1>0, <1>2, <2>3, <3>2
  <2> QED BY <1>3, <2>1, <2>2, <2>4 DEF FirstComeFirstServed
<1> QED BY <1>5, <1>6, <1>7 DEF IInv

\* A turn of a retry task touches neither book nor queue nor channel.
LEMMA RetryStep ==
  ASSUME IInv, NEW r \in retries, RetryPublish(r)
  PROVE  IInv'
<1>0. r \in Retry /\ now \in Nat
  BY BookFacts DEF IInv, TypeOK
<1>1. UNCHANGED <<now, book, queue, pub, clientUp, running, workersOnline,
                  cachedJobs, arrived>>
  BY DEF RetryPublish
<1>2. r.job \in Jobs /\ r.workers \in SUBSET Workers /\ r.counter \in 0 .. RETRIES - 1
  BY <1>0 DEF Retry
<1>3. /\ assigned_senders' \in [Workers -> Nat \cup {Never}]
      /\ assigned' \in SUBSET Jobs
      /\ retries' \in SUBSET Retry
      /\ gaveUp' \in SUBSET Jobs
  <2>1. CASE clientUp
    BY <1>0, <1>2, <2>1 DEF RetryPublish, Record, IInv, TypeOK
  <2>2. CASE ~clientUp /\ r.counter + 1 < RETRIES
    <3>1. r.counter + 1 \in 0 .. RETRIES - 1
      BY <1>2, <2>2, AssignerAssumption
    <3>2. [r EXCEPT !.counter = @ + 1] \in Retry
      BY <1>0, <3>1 DEF Retry
    <3> QED BY <2>2, <3>2 DEF RetryPublish, IInv, TypeOK
  <2>3. CASE ~clientUp /\ ~(r.counter + 1 < RETRIES)
    BY <1>2, <2>3 DEF RetryPublish, IInv, TypeOK
  <2> QED BY <2>1, <2>2, <2>3
<1>4. TypeOK'
  BY <1>1, <1>3 DEF IInv, TypeOK
<1> QED BY <1>1, <1>4
        DEF IInv, BookInPast, Book, BookSorted, NoIdleWorkers, GaugesMatch,
            FirstComeFirstServed

\* Time passes: what was not in the future still is not.
LEMMA TickStep ==
  ASSUME IInv, Tick
  PROVE  IInv'
<1>0. now \in Nat /\ MaxTime \in Nat /\ now < MaxTime /\ now' = now + 1
  BY BookFacts, AssignerAssumption DEF Tick
<1>1. UNCHANGED <<book, queue, pub, assigned_senders, retries, clientUp, running,
                  workersOnline, cachedJobs, arrived, assigned, gaveUp>>
  BY DEF Tick
<1>2. BookInPast'
  <2> DEFINE E == [worker : Workers, at : 0 .. now, seen : 0 .. now]
             F == [worker : Workers, at : 0 .. now + 1, seen : 0 .. now + 1]
  <2>1. E \subseteq F
    BY <1>0
  <2>2. book \in Seq(E)
    BY DEF IInv, BookInPast, Book
  <2> HIDE DEF E, F
  <2>3. book \in Seq(F)
    BY <2>1, <2>2, SeqMonotonic
  <2> QED BY <1>0, <1>1, <2>3 DEF BookInPast, Book, F
<1>3. TypeOK'
  BY <1>0, <1>1 DEF IInv, TypeOK
<1> QED BY <1>1, <1>2, <1>3
        DEF IInv, BookSorted, NoIdleWorkers, GaugesMatch, FirstComeFirstServed

\* Every step keeps the invariant.
LEMMA NextIInv == IInv /\ [Next]_vars => IInv'
<1> SUFFICES ASSUME IInv, [Next]_vars PROVE IInv'
  OBVIOUS
<1>1. ASSUME NEW w \in Workers, Heartbeat(w) PROVE IInv'
  BY <1>1, HeartbeatStep
<1>2. CASE NewJob
  BY <1>2, NewJobStep
<1>3. CASE PublishAssign
  BY <1>3, PublishStep
<1>4. ASSUME NEW r \in retries, RetryPublish(r) PROVE IInv'
  BY <1>4, RetryStep
<1>5. CASE ClientEnds
  BY <1>5 DEF ClientEnds, IInv, TypeOK, BookInPast, Book, BookSorted, NoIdleWorkers,
              GaugesMatch, FirstComeFirstServed
<1>6. CASE Disconnected
  BY <1>6 DEF Disconnected, IInv, TypeOK, BookInPast, Book, BookSorted, NoIdleWorkers,
              GaugesMatch, FirstComeFirstServed
<1>7. CASE Tick
  BY <1>7, TickStep
<1>8. CASE UNCHANGED vars
  BY <1>8 DEF vars, IInv, TypeOK, BookInPast, Book, BookSorted, NoIdleWorkers,
              GaugesMatch, FirstComeFirstServed
<1> QED BY <1>1, <1>2, <1>3, <1>4, <1>5, <1>6, <1>7, <1>8 DEF Next

-----------------------------------------------------------------------------
(* The theorems.                                                           *)

\* The inductive invariant holds in every reachable state.
THEOREM Invariance == Spec => []IInv
<1> QED BY InitIInv, NextIInv, PTL DEF Spec

\* Every variable keeps its type, and the book never exceeds MAX_WORKERS.
THEOREM TypeCorrect == Spec => []TypeOK
<1>1. IInv => TypeOK
  BY DEF IInv
<1> QED BY <1>1, Invariance, PTL

\* The book is sorted by instant and has one entry per worker, so dropping what is
\* below a stale entry (get_workers) drops stale entries only.
THEOREM BookStaysSorted == Spec => []BookSorted
<1>1. IInv => BookSorted
  BY DEF IInv
<1> QED BY <1>1, Invariance, PTL

\* No job waits while the book has workers for it.
THEOREM NoJobWaitsForIdleWorkers == Spec => []NoIdleWorkers
<1>1. IInv => NoIdleWorkers
  BY DEF IInv
<1> QED BY <1>1, Invariance, PTL

\* WORKERS_ONLINE and CACHED_JOBS say what the book and the queue hold.
THEOREM GaugesAreExact == Spec => []GaugesMatch
<1>1. IInv => GaugesMatch
  BY DEF IInv
<1> QED BY <1>1, Invariance, PTL

\* Jobs leave in the order in which they were accepted.
THEOREM JobsLeaveInOrder == Spec => []FirstComeFirstServed
<1>1. IInv => FirstComeFirstServed
  BY DEF IInv
<1> QED BY <1>1, Invariance, PTL

-----------------------------------------------------------------------------
(* No job is lost or doubled.                                              *)

\* How many jobs have left the publishing channel: they are the first ones.
Sent == arrived - Len(queue) - Len(pub)

\* Each of them has one retry task, or was published, or was given up.
Settled ==
    /\ InRetry \cup assigned \cup gaveUp = 1 .. Sent
    /\ InRetry \cap (assigned \cup gaveUp) = {}
    /\ \A r, q \in retries : r.job = q.job => r = q
    /\ IsFiniteSet(retries) /\ IsFiniteSet(assigned) /\ IsFiniteSet(gaveUp)
    /\ Cardinality(retries) + Cardinality(assigned) + Cardinality(gaveUp) = Sent

\* Where the jobs are that the queue and the channel hold.
LEMMA QueueAndChannel ==
  ASSUME IInv
  PROVE  /\ Sent \in Nat /\ arrived \in Nat /\ Len(queue) \in Nat /\ Len(pub) \in Nat
         /\ InQueue = Sent + Len(pub) + 1 .. arrived
         /\ InPub = Sent + 1 .. Sent + Len(pub)
<1>0. /\ queue \in Seq(Jobs) /\ Len(queue) \in Nat /\ DOMAIN queue = 1 .. Len(queue)
      /\ pub \in Seq(Assignment) /\ Len(pub) \in Nat /\ DOMAIN pub = 1 .. Len(pub)
  BY BookFacts, LenProperties
<1>1. arrived \in Nat
  BY AssignerAssumption DEF IInv, TypeOK
<1>2. /\ \A i \in 1 .. Len(queue) : queue[i] = arrived - Len(queue) + i
      /\ \A i \in 1 .. Len(pub) : pub[i].job = arrived - Len(queue) - Len(pub) + i
  BY <1>0 DEF IInv, FirstComeFirstServed
<1>3. Sent \in Nat
  <2>1. CASE Len(pub) > 0
    <3>1. pub[1] \in Assignment
      BY <1>0, <2>1, ElementOfSeq
    <3>2. pub[1].job \in Nat /\ pub[1].job >= 1
      BY <3>1, AssignerAssumption DEF Assignment, Jobs
    <3>3. pub[1].job = arrived - Len(queue) - Len(pub) + 1
      BY <1>0, <1>2, <2>1
    <3> QED BY <1>0, <1>1, <3>2, <3>3 DEF Sent
  <2>2. CASE Len(pub) = 0 /\ Len(queue) > 0
    <3>1. queue[1] \in Jobs
      BY <1>0, <2>2, ElementOfSeq
    <3>2. queue[1] \in Nat /\ queue[1] >= 1
      BY <3>1, AssignerAssumption DEF Jobs
    <3>3. queue[1] = arrived - Len(queue) + 1
      BY <1>0, <1>2, <2>2
    <3> QED BY <1>0, <1>1, <2>2, <3>2, <3>3 DEF Sent
  <2>3. CASE Len(pub) = 0 /\ Len(queue) = 0
    BY <1>0, <1>1, <2>3 DEF Sent
  <2> QED BY <1>0, <2>1, <2>2, <2>3
<1>4. InQueue = Sent + Len(pub) + 1 .. arrived
  <2>1. InQueue = {queue[i] : i \in 1 .. Len(queue)}
    BY <1>0 DEF InQueue, ToSet
  <2>2. ASSUME NEW i \in 1 .. Len(queue)
        PROVE  queue[i] \in Sent + Len(pub) + 1 .. arrived
    BY <1>0, <1>1, <1>2 DEF Sent
  <2>3. ASSUME NEW j \in Sent + Len(pub) + 1 .. arrived
        PROVE  \E i \in 1 .. Len(queue) : queue[i] = j
    <3>1. j - (arrived - Len(queue)) \in 1 .. Len(queue)
      BY <1>0, <1>1 DEF Sent
    <3>2. queue[j - (arrived - Len(queue))] = j
      BY <1>0, <1>1, <1>2, <3>1
    <3> QED BY <3>1, <3>2
  <2> QED BY <2>1, <2>2, <2>3
<1>5. InPub = Sent + 1 .. Sent + Len(pub)
  <2>1. InPub = {pub[i].job : i \in 1 .. Len(pub)}
    BY <1>0 DEF InPub
  <2>2. ASSUME NEW i \in 1 .. Len(pub)
        PROVE  pub[i].job \in Sent + 1 .. Sent + Len(pub)
    BY <1>0, <1>1, <1>2 DEF Sent
  <2>3. ASSUME NEW j \in Sent + 1 .. Sent + Len(pub)
        PROVE  \E i \in 1 .. Len(pub) : pub[i].job = j
    <3>1. j - Sent \in 1 .. Len(pub)
      BY <1>0, <1>3
    <3>2. pub[j - Sent].job = j
      BY <1>0, <1>1, <1>2, <3>1 DEF Sent
    <3> QED BY <3>1, <3>2
  <2> QED BY <2>1, <2>2, <2>3
<1> QED BY <1>0, <1>1, <1>3, <1>4, <1>5

LEMMA SettledAccounts ==
  ASSUME IInv, Settled
  PROVE  JobsAccounted
<1>1. /\ Sent \in Nat /\ arrived \in Nat /\ Len(queue) \in Nat /\ Len(pub) \in Nat
      /\ InQueue = Sent + Len(pub) + 1 .. arrived
      /\ InPub = Sent + 1 .. Sent + Len(pub)
      /\ Sent = arrived - Len(queue) - Len(pub)
  BY QueueAndChannel DEF Sent
<1>2. Sent + Len(pub) <= arrived
  BY <1>1
<1>3. InQueue \cup InPub \cup InRetry \cup assigned \cup gaveUp = 1 .. arrived
  <2>1. InQueue \cup InPub \cup (1 .. Sent) = 1 .. arrived
    BY <1>1, <1>2
  <2> QED BY <2>1 DEF Settled
<1>4. /\ Cardinality(retries) \in Nat /\ Cardinality(assigned) \in Nat
      /\ Cardinality(gaveUp) \in Nat
      /\ Cardinality(retries) + Cardinality(assigned) + Cardinality(gaveUp) = Sent
  BY FS_CardinalityType DEF Settled
<1>5. Len(queue) + Len(pub) + Cardinality(retries) + Cardinality(assigned)
      + Cardinality(gaveUp) = arrived
  BY <1>1, <1>4
<1> QED BY <1>3, <1>5 DEF JobsAccounted

LEMMA SettledStill ==
  ASSUME Settled, Sent' = Sent, UNCHANGED <<retries, assigned, gaveUp>>
  PROVE  Settled'
BY DEF Settled, InRetry

\* Heartbeats and new jobs move jobs within the queue and the channel.
LEMMA MovedOn ==
  ASSUME IInv, NewJob \/ \E w \in Workers : Heartbeat(w)
  PROVE  Sent' = Sent
<1>0. Len(queue) \in Nat /\ Len(pub) \in Nat /\ arrived \in Nat
  BY QueueAndChannel
<1>1. ASSUME NEW w \in Workers, Heartbeat(w)
      PROVE  Sent' = Sent
  <2>1. PICK k \in 0 .. Len(queue) : Len(queue') = Len(queue) - k /\ Len(pub') = Len(pub) + k
    BY <1>1, HeartbeatQueue
  <2>2. arrived' = arrived
    BY <1>1 DEF Heartbeat
  <2> QED BY <1>0, <2>1, <2>2 DEF Sent
<1>2. ASSUME NewJob
      PROVE  Sent' = Sent
  <2>1. arrived' = arrived + 1 /\ AssignOrQueue(arrived')
    BY <1>2 DEF NewJob
  <2>2. CASE Enqueue(arrived')
    <3>1. Len(queue') = Len(queue) + 1 /\ pub' = pub
      BY <1>2, <2>2, EnqueueProperties
    <3>2. Len(pub') = Len(pub)
      BY <3>1
    <3> QED BY <1>0, <2>1, <3>1, <3>2 DEF Sent
  <2>3. CASE /\ Len(book) >= NumWorkers
             /\ pub' = Append(pub, [job |-> arrived', workers |-> Popped(book, NumWorkers)])
             /\ UNCHANGED queue
    <3>1. Len(pub') = Len(pub) + 1
      BY <1>2, <2>3, AssignProperties
    <3>2. Len(queue') = Len(queue)
      BY <2>3
    <3> QED BY <1>0, <2>1, <3>1, <3>2 DEF Sent
  <2> QED BY <2>1, <2>2, <2>3 DEF AssignOrQueue
<1> QED BY <1>1, <1>2

\* The job that leaves the channel is the next one, and nothing of it is known yet.
LEMMA PublishSettles ==
  ASSUME IInv, Settled, PublishAssign
  PROVE  Settled'
<1> DEFINE j == Sent + 1
           m == [job |-> Head(pub).job, workers |-> Head(pub).workers, counter |-> 0]
<1>0. /\ Sent \in Nat /\ arrived \in Nat /\ Len(queue) \in Nat /\ Len(pub) \in Nat
      /\ pub \in Seq(Assignment) /\ pub # <<>>
  BY QueueAndChannel, BookFacts DEF PublishAssign
<1>1. Sent' = Sent + 1
  <2>1. Len(pub') = Len(pub) - 1
    BY <1>0, HeadTailProperties DEF PublishAssign
  <2>2. Len(queue') = Len(queue) /\ arrived' = arrived
    BY DEF PublishAssign
  <2> QED BY <1>0, <2>1, <2>2 DEF Sent
<1>2. Head(pub).job = j
  <2>1. Head(pub) = pub[1] /\ 1 \in DOMAIN pub
    BY <1>0, HeadTailProperties, LenProperties, EmptySeq
  <2>2. pub[1].job = arrived - Len(queue) - Len(pub) + 1
    BY <2>1 DEF IInv, FirstComeFirstServed
  <2> QED BY <2>1, <2>2 DEF Sent
<1>3. /\ j \notin InRetry /\ j \notin assigned /\ j \notin gaveUp
      /\ (1 .. Sent) \cup {j} = 1 .. Sent'
  <2>1. j \notin 1 .. Sent /\ (1 .. Sent) \cup {j} = 1 .. Sent'
    BY <1>0, <1>1
  <2> QED BY <2>1 DEF Settled
<1>4. /\ IsFiniteSet(retries) /\ IsFiniteSet(assigned) /\ IsFiniteSet(gaveUp)
      /\ Cardinality(retries) \in Nat /\ Cardinality(assigned) \in Nat
      /\ Cardinality(gaveUp) \in Nat
      /\ Cardinality(retries) + Cardinality(assigned) + Cardinality(gaveUp) = Sent
  BY FS_CardinalityType DEF Settled
<1> HIDE DEF j
<1>5. gaveUp' = gaveUp
  BY DEF PublishAssign
<1>6. CASE clientUp
  <2>1. assigned' = assigned \cup {j} /\ retries' = retries
    BY <1>2, <1>6 DEF PublishAssign, Record
  <2>2. IsFiniteSet(assigned') /\ Cardinality(assigned') = Cardinality(assigned) + 1
    BY <1>3, <1>4, <2>1, FS_AddElement
  <2>3. Cardinality(retries') + Cardinality(assigned') + Cardinality(gaveUp') = Sent'
    BY <1>1, <1>4, <1>5, <2>1, <2>2
  <2>4. InRetry' = InRetry
    BY <2>1 DEF InRetry
  <2> QED BY <1>3, <1>4, <1>5, <2>1, <2>2, <2>3, <2>4 DEF Settled
<1>7. CASE ~clientUp
  <2>1. assigned' = assigned /\ retries' = retries \cup {m} /\ m.job = j
    BY <1>2, <1>7 DEF PublishAssign
  <2> HIDE DEF m
  <2>2. m \notin retries /\ InRetry' = InRetry \cup {j}
    BY <1>3, <2>1 DEF InRetry
  <2>3. IsFiniteSet(retries') /\ Cardinality(retries') = Cardinality(retries) + 1
    BY <1>4, <2>1, <2>2, FS_AddElement
  <2>4. Cardinality(retries') + Cardinality(assigned') + Cardinality(gaveUp') = Sent'
    BY <1>1, <1>4, <1>5, <2>1, <2>3
  <2>5. \A r, q \in retries' : r.job = q.job => r = q
    BY <1>3, <2>1 DEF InRetry, Settled
  <2> QED BY <1>3, <1>4, <1>5, <2>1, <2>2, <2>3, <2>4, <2>5 DEF Settled
<1> QED BY <1>6, <1>7

\* A turn of a retry task settles its job or leaves it with the task.
LEMMA RetrySettles ==
  ASSUME IInv, Settled, NEW r \in retries, RetryPublish(r)
  PROVE  Settled'
<1> DEFINE s == [r EXCEPT !.counter = @ + 1]
<1>0. Sent' = Sent /\ Sent \in Nat
  BY QueueAndChannel DEF RetryPublish, Sent
<1>1. /\ r.job \notin assigned /\ r.job \notin gaveUp
      /\ {q.job : q \in retries \ {r}} = InRetry \ {r.job}
      /\ r.job \in InRetry
  BY DEF Settled, InRetry
<1>2. /\ IsFiniteSet(retries) /\ IsFiniteSet(assigned) /\ IsFiniteSet(gaveUp)
      /\ Cardinality(retries) \in Nat /\ Cardinality(assigned) \in Nat
      /\ Cardinality(gaveUp) \in Nat
      /\ Cardinality(retries) + Cardinality(assigned) + Cardinality(gaveUp) = Sent
  BY FS_CardinalityType DEF Settled
<1>3. IsFiniteSet(retries \ {r}) /\ Cardinality(retries \ {r}) = Cardinality(retries) - 1
  BY <1>2, FS_RemoveElement
<1>4. CASE clientUp
  <2>1. assigned' = assigned \cup {r.job} /\ retries' = retries \ {r} /\ gaveUp' = gaveUp
    BY <1>4 DEF RetryPublish, Record
  <2>2. IsFiniteSet(assigned') /\ Cardinality(assigned') = Cardinality(assigned) + 1
    BY <1>1, <1>2, <2>1, FS_AddElement
  <2>3. Cardinality(retries') + Cardinality(assigned') + Cardinality(gaveUp') = Sent'
    BY <1>0, <1>2, <1>3, <2>1, <2>2
  <2>4. InRetry' = InRetry \ {r.job}
    BY <1>1, <2>1 DEF InRetry
  <2> QED BY <1>0, <1>1, <1>2, <1>3, <2>1, <2>2, <2>3, <2>4 DEF Settled
<1>5. CASE ~clientUp /\ r.counter + 1 < RETRIES
  <2>1. /\ retries' = (retries \ {r}) \cup {s}
        /\ assigned' = assigned /\ gaveUp' = gaveUp
    BY <1>5 DEF RetryPublish
  <2>2. s.job = r.job
    <3>1. r \in Retry
      BY DEF IInv, TypeOK
    <3> QED BY <3>1 DEF Retry
  <2> HIDE DEF s
  <2>3. s \notin retries \ {r} /\ InRetry' = InRetry
    <3>1. \A q \in retries : q.job = r.job => q = r
      BY DEF Settled
    <3>2. s \notin retries \ {r}
      BY <2>2, <3>1
    <3>3. InRetry' = {q.job : q \in retries \ {r}} \cup {r.job}
      BY <2>1, <2>2 DEF InRetry
    <3> QED BY <1>1, <3>2, <3>3
  <2>4. IsFiniteSet(retries') /\ Cardinality(retries') = Cardinality(retries)
    <3>1. /\ IsFiniteSet((retries \ {r}) \cup {s})
          /\ Cardinality((retries \ {r}) \cup {s}) = Cardinality(retries \ {r}) + 1
      BY <1>3, <2>3, FS_AddElement
    <3>2. Cardinality(retries') = Cardinality(retries)
      BY <1>2, <1>3, <2>1, <3>1
    <3> QED BY <2>1, <3>1, <3>2
  <2>5. \A p, q \in retries' : p.job = q.job => p = q
    <3>1. /\ \A p, q \in retries : p.job = q.job => p = q
          /\ \A q \in retries \ {r} : q.job # r.job
      BY DEF Settled
    <3> QED BY <2>1, <2>2, <3>1
  <2> QED BY <1>0, <1>2, <2>1, <2>3, <2>4, <2>5 DEF Settled
<1>6. CASE ~clientUp /\ ~(r.counter + 1 < RETRIES)
  <2>1. gaveUp' = gaveUp \cup {r.job} /\ retries' = retries \ {r} /\ assigned' = assigned
    BY <1>6 DEF RetryPublish
  <2>2. IsFiniteSet(gaveUp') /\ Cardinality(gaveUp') = Cardinality(gaveUp) + 1
    BY <1>1, <1>2, <2>1, FS_AddElement
  <2>3. Cardinality(retries') + Cardinality(assigned') + Cardinality(gaveUp') = Sent'
    BY <1>0, <1>2, <1>3, <2>1, <2>2
  <2>4. InRetry' = InRetry \ {r.job}
    BY <1>1, <2>1 DEF InRetry
  <2> QED BY <1>0, <1>1, <1>2, <1>3, <2>1, <2>2, <2>3, <2>4 DEF Settled
<1> QED BY <1>4, <1>5, <1>6

LEMMA NextSettled == IInv /\ Settled /\ [Next]_vars => Settled'
<1> SUFFICES ASSUME IInv, Settled, [Next]_vars PROVE Settled'
  OBVIOUS
<1>1. CASE NewJob \/ \E w \in Workers : Heartbeat(w)
  <2>1. Sent' = Sent
    BY <1>1, MovedOn
  <2>2. UNCHANGED <<retries, assigned, gaveUp>>
    BY <1>1 DEF NewJob, Heartbeat
  <2> QED BY <2>1, <2>2, SettledStill
<1>2. CASE PublishAssign
  BY <1>2, PublishSettles
<1>3. ASSUME NEW r \in retries, RetryPublish(r) PROVE Settled'
  BY <1>3, RetrySettles
<1>4. CASE ClientEnds \/ Disconnected \/ Tick \/ UNCHANGED vars
  <2>1. Sent' = Sent
    BY <1>4 DEF ClientEnds, Disconnected, Tick, vars, Sent
  <2>2. UNCHANGED <<retries, assigned, gaveUp>>
    BY <1>4 DEF ClientEnds, Disconnected, Tick, vars
  <2> QED BY <2>1, <2>2, SettledStill
<1> QED BY <1>1, <1>2, <1>3, <1>4 DEF Next

\* No accepted job is lost or doubled: each is in the queue, in the channel, with a
\* retry task, published, or given up, and in one of them only.
THEOREM NoJobIsLost == Spec => []JobsAccounted
<1>1. Init => Settled
  <2> SUFFICES ASSUME Init PROVE Settled
    OBVIOUS
  <2>1. /\ retries = {} /\ assigned = {} /\ gaveUp = {}
        /\ arrived = 0 /\ Len(queue) = 0 /\ Len(pub) = 0
    BY DEF Init
  <2>2. Sent = 0
    BY <2>1 DEF Sent
  <2> QED BY <2>1, <2>2, FS_EmptySet DEF Settled, InRetry
<1>2. IInv /\ Settled => JobsAccounted
  BY SettledAccounts
<1> QED BY <1>1, <1>2, NextSettled, Invariance, PTL DEF Spec

-----------------------------------------------------------------------------
(* Full batches.                                                           *)

LEMMA NextFullBatches == IInv /\ FullBatches /\ [Next]_vars => FullBatches'
<1> SUFFICES ASSUME IInv, FullBatches, [Next]_vars PROVE FullBatches'
  OBVIOUS
<1>0. /\ pub \in Seq(Assignment) /\ Len(pub) \in Nat /\ DOMAIN pub = 1 .. Len(pub)
      /\ \A i \in 1 .. Len(pub) : Cardinality(pub[i].workers) = NumWorkers
      /\ \A r \in retries : Cardinality(r.workers) = NumWorkers
  BY BookFacts, LenProperties DEF FullBatches
<1>1. ASSUME NEW w \in Workers, Heartbeat(w)
      PROVE  FullBatches'
  <2>1. /\ pub' \in Seq(Assignment)
        /\ \A i \in 1 .. Len(pub') :
             IF i <= Len(pub) THEN pub'[i] = pub[i]
                              ELSE Cardinality(pub'[i].workers) = NumWorkers
    BY <1>1, HeartbeatQueue
  <2>2. DOMAIN pub' = 1 .. Len(pub') /\ Len(pub') \in Nat
    BY <2>1, LenProperties
  <2>3. \A i \in 1 .. Len(pub') : Cardinality(pub'[i].workers) = NumWorkers
    BY <1>0, <2>1, <2>2
  <2>4. retries' = retries
    BY <1>1 DEF Heartbeat
  <2> QED BY <1>0, <2>2, <2>3, <2>4 DEF FullBatches
<1>2. CASE NewJob
  <2>1. AssignOrQueue(arrived') /\ retries' = retries
    BY <1>2 DEF NewJob
  <2>2. CASE Enqueue(arrived')
    BY <2>1, <2>2 DEF Enqueue, FullBatches
  <2>3. CASE /\ Len(book) >= NumWorkers
             /\ pub' = Append(pub, [job |-> arrived', workers |-> Popped(book, NumWorkers)])
             /\ UNCHANGED queue
    <3>1. /\ pub' \in Seq(Assignment) /\ Len(pub') = Len(pub) + 1
          /\ \A i \in 1 .. Len(pub) : pub'[i] = pub[i]
          /\ Cardinality(pub'[Len(pub) + 1].workers) = NumWorkers
      BY <1>2, <2>3, AssignProperties
    <3>2. DOMAIN pub' = 1 .. Len(pub) + 1
      BY <3>1, LenProperties
    <3>3. \A i \in 1 .. Len(pub) + 1 : Cardinality(pub'[i].workers) = NumWorkers
      BY <1>0, <3>1
    <3> QED BY <1>0, <2>1, <3>2, <3>3 DEF FullBatches
  <2> QED BY <2>1, <2>2, <2>3 DEF AssignOrQueue
<1>3. CASE PublishAssign
  <2>1. /\ pub' \in Seq(Assignment) /\ Len(pub') = Len(pub) - 1
        /\ \A i \in 1 .. Len(pub') : pub'[i] = pub[i + 1]
        /\ Head(pub) = pub[1] /\ 1 \in 1 .. Len(pub)
    BY <1>0, <1>3, HeadTailProperties, EmptySeq DEF PublishAssign
  <2>2. DOMAIN pub' = 1 .. Len(pub')
    BY <2>1, LenProperties
  <2>3. \A i \in 1 .. Len(pub') : i + 1 \in 1 .. Len(pub)
    BY <1>0, <2>1
  <2>4. \A i \in 1 .. Len(pub') : Cardinality(pub'[i].workers) = NumWorkers
    BY <1>0, <2>1, <2>3
  <2>5. \A r \in retries' : Cardinality(r.workers) = NumWorkers
    BY <1>0, <1>3, <2>1 DEF PublishAssign
  <2> QED BY <2>2, <2>4, <2>5 DEF FullBatches
<1>4. ASSUME NEW r \in retries, RetryPublish(r)
      PROVE  FullBatches'
  <2>1. pub' = pub
    BY <1>4 DEF RetryPublish
  <2>2. retries' \subseteq retries \cup {[r EXCEPT !.counter = @ + 1]}
    BY <1>4 DEF RetryPublish
  <2>3. [r EXCEPT !.counter = @ + 1].workers = r.workers
    <3>1. r \in Retry
      BY DEF IInv, TypeOK
    <3> QED BY <3>1 DEF Retry
  <2>4. \A q \in retries' : Cardinality(q.workers) = NumWorkers
    BY <1>0, <2>2, <2>3
  <2> QED BY <2>1, <2>4 DEF FullBatches
<1>5. CASE ClientEnds \/ Disconnected \/ Tick \/ UNCHANGED vars
  BY <1>5 DEF ClientEnds, Disconnected, Tick, vars, FullBatches
<1> QED BY <1>1, <1>2, <1>3, <1>4, <1>5 DEF Next

\* Every assignment on its way names as many distinct workers as its job needs.
THEOREM BatchesAreFull == Spec => []FullBatches
<1>1. Init => FullBatches
  <2> SUFFICES ASSUME Init PROVE FullBatches
    OBVIOUS
  <2>1. pub = <<>> /\ retries = {} /\ DOMAIN <<>> = {}
    BY DEF Init
  <2> QED BY <2>1 DEF FullBatches
<1> QED BY <1>1, NextFullBatches, Invariance, PTL DEF Spec

-----------------------------------------------------------------------------
(* The cool-down.                                                          *)

\* Which heartbeats stand behind a book: its entries without the instants that
\* get_workers may change.
HeartbeatOf(e) == [worker |-> e.worker, seen |-> e.seen]
Heard(bk) == {HeartbeatOf(bk[i]) : i \in DOMAIN bk}

\* insert adds the heartbeat just heard, and changes no other entry.
LEMMA InsertEntries ==
  ASSUME now \in Nat, NEW bk \in Book, NEW w \in Workers
  PROVE  \A j \in DOMAIN Insert(bk, w) :
           Insert(bk, w)[j] = Fresh(w) \/ \E k \in DOMAIN bk : Insert(bk, w)[j] = bk[k]
<1> DEFINE E == [worker : Workers, at : 0 .. now, seen : 0 .. now]
           s == Insert(bk, w)
<1>a. Fresh(w) \in E
  BY DEF Fresh
<1>b. bk \in Seq(E)
  BY DEF Book
<1>c. Len(bk) \in Nat
  BY BookEntries
<1>0. DOMAIN bk = 1 .. Len(bk)
  BY BookEntries
<1> HIDE DEF E
<1>1. CASE Booked(bk, w)
  <2>1. PICK i \in 1 .. Len(bk) : i = CHOOSE k \in PositionOf(bk, w) : TRUE
    BY <1>0, <1>1 DEF Booked, PositionOf
  <2>2. s = Append(RemoveAt(bk, i), Fresh(w))
    BY <1>1, <2>1 DEF Insert
  <2> HIDE DEF s
  <2>3. /\ s \in Seq(E) /\ Len(s) = Len(bk) /\ s[Len(bk)] = Fresh(w)
        /\ \A j \in 1 .. Len(bk) - 1 : s[j] = IF j < i THEN bk[j] ELSE bk[j + 1]
    <3>1. /\ Append(RemoveAt(bk, i), Fresh(w)) \in Seq(E)
          /\ Len(Append(RemoveAt(bk, i), Fresh(w))) = Len(bk)
          /\ Append(RemoveAt(bk, i), Fresh(w))[Len(bk)] = Fresh(w)
          /\ \A j \in 1 .. Len(bk) - 1 : Append(RemoveAt(bk, i), Fresh(w))[j] =
               IF j < i THEN bk[j] ELSE bk[j + 1]
      BY <1>a, <1>b, MoveToBack
    <3> QED BY <2>2, <3>1
  <2>4. DOMAIN s = 1 .. Len(bk)
    BY <2>3, LenProperties
  <2>5. \A j \in 1 .. Len(bk) : s[j] = Fresh(w) \/ \E k \in DOMAIN bk : s[j] = bk[k]
    <3> TAKE j \in 1 .. Len(bk)
    <3>1. CASE j = Len(bk)
      BY <2>3, <3>1
    <3>2. CASE j # Len(bk)
      <4>1. j \in 1 .. Len(bk) - 1 /\ j + 1 \in 1 .. Len(bk)
        BY <1>c, <3>2
      <4>2. j \in DOMAIN bk /\ j + 1 \in DOMAIN bk
        BY <1>0, <1>c, <4>1
      <4> QED BY <2>3, <4>1, <4>2
    <3> QED BY <3>1, <3>2
  <2> QED BY <2>4, <2>5 DEF s
<1>2. CASE ~Booked(bk, w)
  <2>1. s = Append(bk, Fresh(w))
    BY <1>2 DEF Insert
  <2>2. /\ s \in Seq(E) /\ Len(s) = Len(bk) + 1 /\ s[Len(bk) + 1] = Fresh(w)
        /\ \A j \in 1 .. Len(bk) : s[j] = bk[j]
    BY <1>a, <1>b, <2>1, AppendProperties
  <2> HIDE DEF s
  <2>3. DOMAIN s = 1 .. Len(bk) + 1
    BY <2>2, LenProperties
  <2>4. \A j \in 1 .. Len(bk) + 1 : s[j] = Fresh(w) \/ \E k \in DOMAIN bk : s[j] = bk[k]
    BY <1>0, <1>c, <2>2
  <2> QED BY <2>3, <2>4 DEF s
<1> QED BY <1>1, <1>2

LEMMA InsertHeard ==
  ASSUME now \in Nat, NEW bk \in Book, NEW w \in Workers
  PROVE  Heard(Insert(bk, w)) \subseteq Heard(bk) \cup {HeartbeatOf(Fresh(w))}
BY InsertEntries DEF Heard

\* get_workers adds none.
LEMMA LeftHeard ==
  ASSUME now \in Nat, NEW bk \in Book, Sorted(bk), NEW n \in 0 .. Len(bk)
  PROVE  Heard(Left(bk, n)) \subseteq Heard(bk)
<1>1. /\ Left(bk, n) \in Book /\ Len(Left(bk, n)) = Len(bk) - n
      /\ \A i \in 1 .. Len(bk) - n : Left(bk, n)[i] = bk[i]
  BY LeftProperties
<1>2. /\ DOMAIN Left(bk, n) = 1 .. Len(bk) - n
      /\ DOMAIN bk = 1 .. Len(bk) /\ Len(bk) \in Nat
  BY <1>1, BookEntries
<1>3. \A i \in 1 .. Len(bk) - n : i \in DOMAIN bk
  BY <1>2
<1> QED BY <1>1, <1>2, <1>3 DEF Heard

LEMMA TrimmedHeard ==
  ASSUME now \in Nat, NEW bk \in Book, NEW n \in 1 .. Len(bk), ~AllFresh(bk, n)
  PROVE  Heard(Trimmed(bk, n)) \subseteq Heard(bk)
<1> DEFINE St == {i \in Newest(bk, n) : Stale(bk[i])}
           k == Max(St)
           m == Len(bk) - k
           s == [i \in 1 .. m |-> [bk[k + i] EXCEPT !.at = bk[k + 1].at]]
<1>0. Len(bk) \in Nat /\ DOMAIN bk = 1 .. Len(bk)
  BY BookEntries
<1>1. k \in 1 .. Len(bk)
  <2>1. Len(bk) - n + 1 \in Int /\ Len(bk) \in Int /\ St # {}
    BY <1>0 DEF AllFresh
  <2>2. St \in SUBSET (Len(bk) - n + 1 .. Len(bk))
    BY DEF Newest
  <2>3. k \in St
    <3> HIDE DEF St
    <3> QED BY <2>1, <2>2, MaxExists
  <2> HIDE DEF k
  <2> QED BY <1>0, <2>2, <2>3
<1> HIDE DEF k
<1>2. \A i \in 1 .. m : /\ k + i \in DOMAIN bk
                        /\ s[i].worker = bk[k + i].worker
                        /\ s[i].seen = bk[k + i].seen
  <2> TAKE i \in 1 .. m
  <2>1. k + i \in DOMAIN bk
    BY <1>0, <1>1
  <2>2. bk[k + i] \in [worker : Workers, at : 0 .. now, seen : 0 .. now]
    BY <1>0, <2>1, BookEntries
  <2>3. s[i] = [bk[k + i] EXCEPT !.at = bk[k + 1].at]
    OBVIOUS
  <2> HIDE DEF s
  <2> QED BY <2>1, <2>2, <2>3
<1>3. DOMAIN s = 1 .. m
  OBVIOUS
<1> HIDE DEF s, m
<1>4. \A i \in DOMAIN s : \E j \in DOMAIN bk : HeartbeatOf(s[i]) = HeartbeatOf(bk[j])
  BY <1>2, <1>3 DEF HeartbeatOf
<1>5. Heard(s) \subseteq Heard(bk)
  BY <1>4 DEF Heard
<1> QED BY <1>5 DEF Trimmed, s, k, m

LEMMA AfterServingHeard ==
  ASSUME now \in Nat, NEW bk \in Book, Sorted(bk), queue \in Seq(Jobs)
  PROVE  Heard(AfterServing(bk)) \subseteq Heard(bk)
<1> DEFINE m == Served(bk) * NumWorkers
<1>0. NumWorkers \in Nat /\ NumWorkers > 0
  BY AssignerAssumption
<1>1. m \in 0 .. Len(bk)
  BY ServedProperties
<1> HIDE DEF m
<1>2. Left(bk, m) \in Book /\ Heard(Left(bk, m)) \subseteq Heard(bk)
  BY <1>1, LeftProperties, LeftHeard
<1>3. Rest(bk) = Left(bk, m)
  BY DEF Rest, m
<1>4. CASE StoppedByStale(bk)
  <2>1. Len(Rest(bk)) >= NumWorkers /\ ~AllFresh(Rest(bk), NumWorkers)
    BY <1>4 DEF StoppedByStale
  <2>2. Len(Rest(bk)) \in Nat
    BY <1>2, <1>3, BookEntries
  <2>3. NumWorkers \in 1 .. Len(Rest(bk))
    BY <1>0, <2>1, <2>2
  <2>4. Heard(Trimmed(Rest(bk), NumWorkers)) \subseteq Heard(Rest(bk))
    BY <1>2, <1>3, <2>1, <2>3, TrimmedHeard
  <2> QED BY <1>2, <1>3, <1>4, <2>4 DEF AfterServing
<1>5. CASE ~StoppedByStale(bk)
  BY <1>2, <1>3, <1>5 DEF AfterServing
<1> QED BY <1>4, <1>5

LEMMA EvictHeard ==
  ASSUME now \in Nat, NEW bk \in Book
  PROVE  Heard(EvictLRU(bk)) \subseteq Heard(bk)
<1> DEFINE E == [worker : Workers, at : 0 .. now, seen : 0 .. now]
<1>0. bk \in Seq(E) /\ Len(bk) \in Nat /\ DOMAIN bk = 1 .. Len(bk)
  BY BookEntries DEF Book
<1> HIDE DEF E
<1>1. CASE Len(bk) > MAX_WORKERS
  <2>1. bk # <<>>
    BY <1>1, AssignerAssumption
  <2>2. /\ Tail(bk) \in Seq(E) /\ Len(Tail(bk)) = Len(bk) - 1
        /\ \A i \in 1 .. Len(Tail(bk)) : Tail(bk)[i] = bk[i + 1]
    BY <1>0, <2>1, HeadTailProperties
  <2>3. DOMAIN Tail(bk) = 1 .. Len(Tail(bk))
    BY <2>2, LenProperties
  <2>4. \A i \in 1 .. Len(Tail(bk)) : i + 1 \in DOMAIN bk
    BY <1>0, <2>2
  <2>5. Heard(Tail(bk)) \subseteq Heard(bk)
    BY <2>2, <2>3, <2>4 DEF Heard
  <2> QED BY <1>1, <2>5 DEF EvictLRU
<1>2. CASE ~(Len(bk) > MAX_WORKERS)
  BY <1>2 DEF EvictLRU
<1> QED BY <1>1, <1>2

\* The same of a heartbeat that is not in the book yet.
Cooled(h) ==
    LET last == assigned_senders[h.worker]
    IN  last # Never /\ h.seen > last => h.seen - last >= COOL_DOWN_PERIOD

\* Only a heartbeat that comes too early could break the property.
LEMMA CooledStill ==
  ASSUME CoolDownKept, UNCHANGED assigned_senders,
         \A h \in Heard(book') : h \in Heard(book) \/ Cooled(h)
  PROVE  CoolDownKept'
<1> SUFFICES ASSUME NEW i \in DOMAIN book' PROVE Cooled(HeartbeatOf(book'[i]))
  BY DEF CoolDownKept, Cooled, HeartbeatOf
<1>1. HeartbeatOf(book'[i]) \in Heard(book')
  BY DEF Heard
<1>2. CASE Cooled(HeartbeatOf(book'[i]))
  BY <1>2
<1>3. CASE HeartbeatOf(book'[i]) \in Heard(book)
  <2>1. PICK j \in DOMAIN book : HeartbeatOf(book'[i]) = HeartbeatOf(book[j])
    BY <1>3 DEF Heard
  <2>2. Cooled(HeartbeatOf(book[j]))
    BY DEF CoolDownKept, Cooled, HeartbeatOf
  <2> QED BY <2>1, <2>2
<1> QED BY <1>1, <1>2, <1>3

\* A recorded assignment is not earlier than any heartbeat in the book.
LEMMA RecordCools ==
  ASSUME IInv, CoolDownKept, NEW m, Record(m), UNCHANGED <<now, book>>
  PROVE  CoolDownKept'
<1>0. now \in Nat /\ book \in Book
  BY BookFacts
<1>1. /\ DOMAIN book = 1 .. Len(book)
      /\ \A i \in 1 .. Len(book) : book[i].worker \in Workers /\ book[i].seen \in 0 .. now
  <2>1. /\ DOMAIN book = 1 .. Len(book)
        /\ \A i \in 1 .. Len(book) :
             book[i] \in [worker : Workers, at : 0 .. now, seen : 0 .. now]
    BY <1>0, BookEntries
  <2> QED BY <2>1
<1> SUFFICES ASSUME NEW i \in DOMAIN book,
                    assigned_senders'[book[i].worker] # Never,
                    book[i].seen > assigned_senders'[book[i].worker]
             PROVE  book[i].seen - assigned_senders'[book[i].worker] >= COOL_DOWN_PERIOD
  BY DEF CoolDownKept
<1>2. book[i].worker \in Workers /\ book[i].seen \in 0 .. now
  BY <1>1
<1>3. assigned_senders'[book[i].worker] =
        IF book[i].worker \in m.workers THEN now ELSE assigned_senders[book[i].worker]
  BY <1>2 DEF Record
<1>4. assigned_senders'[book[i].worker] = assigned_senders[book[i].worker]
  BY <1>0, <1>2, <1>3
<1> QED BY <1>4 DEF CoolDownKept

LEMMA NextCools == IInv /\ CoolDownKept /\ [Next]_vars => CoolDownKept'
<1> SUFFICES ASSUME IInv, CoolDownKept, [Next]_vars PROVE CoolDownKept'
  OBVIOUS
<1>0. /\ now \in Nat /\ book \in Book /\ Sorted(book) /\ queue \in Seq(Jobs)
      /\ Len(book) \in Nat /\ NumWorkers \in Nat /\ NumWorkers > 0
  BY BookFacts
<1>1. ASSUME Heard(book') \subseteq Heard(book), UNCHANGED assigned_senders
      PROVE  CoolDownKept'
  <2>1. \A h \in Heard(book') : h \in Heard(book) \/ Cooled(h)
    BY <1>1
  <2> QED BY <1>1, <2>1, CooledStill
<1>2. ASSUME NEW w \in Workers, Heartbeat(w)
      PROVE  CoolDownKept'
  <2> DEFINE bk == Insert(book, w)
             left == AfterServing(bk)
  <2>1. bk \in Book /\ Sorted(bk) /\ Heard(bk) \subseteq Heard(book) \cup {HeartbeatOf(Fresh(w))}
    BY <1>0, InsertProperties, InsertHeard
  <2>2. book' = EvictLRU(left) /\ UNCHANGED assigned_senders
    BY <1>2 DEF Heartbeat, BookWorker
  <2> HIDE DEF bk
  <2>3. left \in Book /\ Heard(left) \subseteq Heard(bk)
    BY <1>0, <2>1, AfterServingProperties, AfterServingHeard
  <2> HIDE DEF left
  <2>4. Heard(book') \subseteq Heard(left)
    BY <1>0, <2>2, <2>3, EvictHeard
  <2>5. Heard(book') \subseteq Heard(book) \cup {HeartbeatOf(Fresh(w))}
    BY <2>1, <2>3, <2>4
  <2>6. assigned_senders[w] # Never => now - assigned_senders[w] >= COOL_DOWN_PERIOD
    <3>1. /\ assigned_senders[w] \in Nat \cup {Never} /\ COOL_DOWN_PERIOD \in Nat
          /\ ~(assigned_senders[w] # Never /\ now - assigned_senders[w] < COOL_DOWN_PERIOD)
      BY <1>2, AssignerAssumption DEF Heartbeat, IsTooEarly, IInv, TypeOK
    <3> QED BY <1>0, <3>1
  <2>7. Cooled(HeartbeatOf(Fresh(w)))
    BY <2>6 DEF Cooled, HeartbeatOf, Fresh
  <2>8. \A h \in Heard(book') : h \in Heard(book) \/ Cooled(h)
    BY <2>5, <2>7
  <2> QED BY <2>2, <2>8, CooledStill
<1>3. CASE NewJob
  <2>1. AssignOrQueue(arrived') /\ UNCHANGED assigned_senders
    BY <1>3 DEF NewJob
  <2>2. Heard(book') \subseteq Heard(book)
    <3>1. CASE UNCHANGED book
      BY <3>1
    <3>2. CASE Len(book) >= NumWorkers /\ book' = Left(book, NumWorkers)
      <4>1. NumWorkers \in 0 .. Len(book)
        BY <1>0, <3>2
      <4> QED BY <1>0, <3>2, <4>1, LeftHeard
    <3>3. CASE /\ Len(book) >= NumWorkers /\ ~AllFresh(book, NumWorkers)
               /\ book' = Trimmed(book, NumWorkers)
      <4>1. NumWorkers \in 1 .. Len(book)
        BY <1>0, <3>3
      <4> QED BY <1>0, <3>3, <4>1, TrimmedHeard
    <3> QED BY <2>1, <3>1, <3>2, <3>3 DEF AssignOrQueue
  <2> QED BY <1>1, <2>1, <2>2
<1>4. CASE PublishAssign
  <2>1. UNCHANGED <<now, book>>
    BY <1>4 DEF PublishAssign
  <2>2. Record(Head(pub)) \/ UNCHANGED assigned_senders
    BY <1>4 DEF PublishAssign
  <2> QED BY <1>1, <2>1, <2>2, RecordCools
<1>5. ASSUME NEW r \in retries, RetryPublish(r)
      PROVE  CoolDownKept'
  <2>1. UNCHANGED <<now, book>>
    BY <1>5 DEF RetryPublish
  <2>2. Record(r) \/ UNCHANGED assigned_senders
    BY <1>5 DEF RetryPublish
  <2> QED BY <1>1, <2>1, <2>2, RecordCools
<1>6. CASE ClientEnds \/ Disconnected \/ Tick \/ UNCHANGED vars
  <2>1. UNCHANGED <<book, assigned_senders>>
    BY <1>6 DEF ClientEnds, Disconnected, Tick, vars
  <2> QED BY <1>1, <2>1
<1> QED BY <1>2, <1>3, <1>4, <1>5, <1>6 DEF Next

\* A heartbeat handled after a worker's assignment was recorded books it only once
\* the cool-down is over.
THEOREM CoolDownIsKept == Spec => []CoolDownKept
<1>1. Init => CoolDownKept
  <2> SUFFICES ASSUME Init PROVE CoolDownKept
    OBVIOUS
  <2>1. book = <<>> /\ DOMAIN <<>> = {}
    BY DEF Init
  <2> QED BY <2>1 DEF CoolDownKept
<1> QED BY <1>1, NextCools, Invariance, PTL DEF Spec

-----------------------------------------------------------------------------
(* Who drops out of the book.                                              *)

\* What get_workers throws away is stale: below the newest stale entry everything
\* is at least as old.
LEMMA TrimmedDrops ==
  ASSUME now \in Nat, NEW bk \in Book, Sorted(bk), NEW n \in 1 .. Len(bk),
         ~AllFresh(bk, n), NEW i \in 1 .. Len(bk)
  PROVE  Stale(bk[i]) \/ Booked(Trimmed(bk, n), bk[i].worker)
<1> DEFINE St == {j \in Newest(bk, n) : Stale(bk[j])}
           k == Max(St)
           m == Len(bk) - k
           s == [j \in 1 .. m |-> [bk[k + j] EXCEPT !.at = bk[k + 1].at]]
<1>0. Len(bk) \in Nat /\ DOMAIN bk = 1 .. Len(bk)
  BY BookEntries
<1>1. k \in 1 .. Len(bk) /\ Stale(bk[k])
  <2>1. Len(bk) - n + 1 \in Int /\ Len(bk) \in Int /\ St # {}
    BY <1>0 DEF AllFresh
  <2>2. St \in SUBSET (Len(bk) - n + 1 .. Len(bk))
    BY DEF Newest
  <2>3. k \in St
    <3> HIDE DEF St
    <3> QED BY <2>1, <2>2, MaxExists
  <2>4. k \in Newest(bk, n) /\ Stale(bk[k])
    BY <2>3
  <2> HIDE DEF k
  <2> QED BY <1>0, <2>4 DEF Newest
<1> HIDE DEF k
<1>2. CASE i <= k
  <2>1. bk[i].at <= bk[k].at /\ bk[i].at \in Nat /\ bk[k].at \in Nat
    <3>1. bk[i].at \in Nat /\ bk[k].at \in Nat
      BY <1>1, BookEntries
    <3>2. CASE i = k
      BY <3>1, <3>2
    <3>3. CASE i # k
      <4>1. i < k /\ i \in DOMAIN bk /\ k \in DOMAIN bk
        BY <1>0, <1>1, <1>2, <3>3
      <4> QED BY <3>1, <4>1 DEF Sorted
    <3> QED BY <3>2, <3>3
  <2>2. STALE_TIME \in Nat
    BY AssignerAssumption
  <2> QED BY <1>1, <2>1, <2>2 DEF Stale
<1>3. CASE i > k
  <2>1. i - k \in 1 .. m /\ k + (i - k) = i
    BY <1>0, <1>1, <1>3
  <2>2. bk[i] \in [worker : Workers, at : 0 .. now, seen : 0 .. now]
    BY BookEntries
  <2>3. s[i - k].worker = bk[i].worker
    BY <2>1, <2>2
  <2>4. i - k \in DOMAIN s
    BY <2>1
  <2>5. Trimmed(bk, n) = s
    BY DEF Trimmed, k
  <2> HIDE DEF s
  <2> QED BY <2>3, <2>4, <2>5 DEF Booked, PositionOf
<1> QED BY <1>0, <1>1, <1>2, <1>3

\* Whoever is among the workers of the served jobs is in the batch of one of them.
LEMMA BatchesCover ==
  ASSUME now \in Nat, NEW bk \in Book, Sorted(bk), queue \in Seq(Jobs),
         NEW i \in Newest(bk, Served(bk) * NumWorkers)
  PROVE  \E j \in 1 .. Served(bk) : bk[i].worker \in Batch(bk, j)
<1> DEFINE k == Served(bk)
           p == Len(bk) - i
           P == {q \in 0 .. k : q * NumWorkers <= p}
           m == Max(P)
           left == Left(bk, m * NumWorkers)
<1>0. /\ Len(bk) \in Nat /\ Len(queue) \in Nat
      /\ NumWorkers \in Nat /\ NumWorkers > 0
      /\ k \in 0 .. Len(queue) /\ k * NumWorkers \in 0 .. Len(bk)
  BY BookEntries, LenProperties, ServedProperties, AssignerAssumption
<1>1. i \in 1 .. Len(bk) /\ Len(bk) - k * NumWorkers < i
  BY <1>0 DEF Newest
<1> HIDE DEF k
<1>2. p \in Nat /\ p < k * NumWorkers
  BY <1>0, <1>1
<1> HIDE DEF p
<1>3. m \in P /\ \A q \in P : m >= q
  <2>1. 0 * NumWorkers = 0
    BY <1>0
  <2>2. P \in SUBSET (0 .. k) /\ k \in Int /\ 0 \in Int
    BY <1>0
  <2>3. 0 \in P
    <3>1. 0 \in 0 .. k /\ 0 <= p
      BY <1>0, <1>2
    <3> QED BY <2>1, <3>1
  <2> HIDE DEF P
  <2> QED BY <2>2, <2>3, MaxExists
<1>4. m \in 0 .. k /\ m * NumWorkers <= p /\ m \in Nat
  BY <1>0, <1>3
<1>5. m + 1 \notin P
  <2> SUFFICES ASSUME m + 1 \in P PROVE FALSE
    OBVIOUS
  <2>1. m >= m + 1
    BY <1>3
  <2> HIDE DEF m
  <2> QED BY <1>4, <2>1
<1> HIDE DEF m
<1>6. m # k
  <2>1. k * NumWorkers \in Int /\ ~(k * NumWorkers <= p)
    BY <1>0, <1>2
  <2> QED BY <1>4, <2>1
<1>7. m + 1 \in 1 .. k
  BY <1>0, <1>4, <1>6
<1>8. /\ (m + 1) * NumWorkers = m * NumWorkers + NumWorkers /\ m * NumWorkers \in Nat
      /\ ~((m + 1) * NumWorkers <= p)
  <2>1. ~((m + 1) * NumWorkers <= p)
    BY <1>0, <1>5, <1>7
  <2> QED BY <1>0, <1>4, <2>1, OneMoreBatch
<1>9. m * NumWorkers \in 0 .. Len(bk)
  BY <1>0, <1>1, <1>4, <1>8 DEF p
<1>10. /\ left \in Book /\ Len(left) = Len(bk) - m * NumWorkers
       /\ \A j \in 1 .. Len(bk) - m * NumWorkers : left[j] = bk[j]
  BY <1>9, LeftProperties
<1> HIDE DEF left
<1>11. i \in Newest(left, NumWorkers) /\ i \in 1 .. Len(bk) - m * NumWorkers
  BY <1>0, <1>1, <1>4, <1>8, <1>9, <1>10 DEF p, Newest
<1>12. bk[i].worker \in Popped(left, NumWorkers)
  BY <1>10, <1>11 DEF Popped
<1>13. (m + 1) - 1 = m
  BY <1>4
<1>14. Batch(bk, m + 1) = Popped(left, NumWorkers)
  BY <1>13 DEF Batch, left
<1> QED BY <1>7, <1>12, <1>14 DEF k

\* The loop that serves the queue drops stale entries only; all others stay or are
\* given to a job.
LEMMA AfterServingDrops ==
  ASSUME now \in Nat, NEW bk \in Book, Sorted(bk), queue \in Seq(Jobs),
         NEW i \in 1 .. Len(bk)
  PROVE  \/ Booked(AfterServing(bk), bk[i].worker)
         \/ Stale(bk[i])
         \/ \E j \in 1 .. Served(bk) : bk[i].worker \in Batch(bk, j)
<1> DEFINE m == Served(bk) * NumWorkers
           rest == Rest(bk)
<1>0. Len(bk) \in Nat /\ NumWorkers \in Nat /\ NumWorkers > 0 /\ m \in 0 .. Len(bk)
  BY BookEntries, ServedProperties, AssignerAssumption
<1>1. CASE i \in Newest(bk, m)
  BY <1>1, BatchesCover
<1>2. CASE i \notin Newest(bk, m)
  <2> HIDE DEF m
  <2>1. i \in 1 .. Len(bk) - m
    BY <1>0, <1>2 DEF Newest
  <2>2. /\ rest \in Book /\ Sorted(rest) /\ Len(rest) = Len(bk) - m
        /\ \A j \in 1 .. Len(bk) - m : rest[j] = bk[j]
    BY <1>0, LeftProperties DEF Rest, m
  <2>3. i \in 1 .. Len(rest) /\ rest[i] = bk[i]
    BY <2>1, <2>2
  <2>4. CASE StoppedByStale(bk)
    <3>1. ~AllFresh(rest, NumWorkers) /\ AfterServing(bk) = Trimmed(rest, NumWorkers)
      BY <2>4 DEF StoppedByStale, AfterServing
    <3>2. NumWorkers \in 1 .. Len(rest)
      <4>1. Len(rest) >= NumWorkers
        BY <2>4 DEF StoppedByStale
      <4>2. Len(rest) \in Nat
        BY <2>2, BookEntries
      <4> QED BY <1>0, <4>1, <4>2
    <3> HIDE DEF rest
    <3>3. Stale(rest[i]) \/ Booked(Trimmed(rest, NumWorkers), rest[i].worker)
      BY <2>2, <2>3, <3>1, <3>2, TrimmedDrops
    <3> QED BY <2>3, <3>1, <3>3
  <2>5. CASE ~StoppedByStale(bk)
    <3>1. AfterServing(bk) = rest
      BY <2>5 DEF AfterServing
    <3> HIDE DEF rest
    <3>2. i \in DOMAIN rest
      BY <2>2, <2>3, BookEntries
    <3> QED BY <2>3, <3>1, <3>2 DEF Booked, PositionOf
  <2> QED BY <2>4, <2>5
<1> QED BY <1>1, <1>2

\* The eviction drops the first entry of a book that is too long, and no other.
LEMMA EvictDrops ==
  ASSUME now \in Nat, NEW bk \in Book, NEW i \in 1 .. Len(bk)
  PROVE  Booked(EvictLRU(bk), bk[i].worker) \/ (i = 1 /\ Len(bk) > MAX_WORKERS)
<1> DEFINE E == [worker : Workers, at : 0 .. now, seen : 0 .. now]
<1>0. bk \in Seq(E) /\ Len(bk) \in Nat /\ DOMAIN bk = 1 .. Len(bk)
  BY BookEntries DEF Book
<1> HIDE DEF E
<1>1. CASE Len(bk) > MAX_WORKERS /\ i # 1
  <2>1. bk # <<>>
    BY <1>1, AssignerAssumption
  <2>2. /\ Tail(bk) \in Seq(E) /\ Len(Tail(bk)) = Len(bk) - 1
        /\ \A j \in 1 .. Len(Tail(bk)) : Tail(bk)[j] = bk[j + 1]
    BY <1>0, <2>1, HeadTailProperties
  <2>3. DOMAIN Tail(bk) = 1 .. Len(Tail(bk))
    BY <2>2, LenProperties
  <2>4. i - 1 \in 1 .. Len(Tail(bk)) /\ (i - 1) + 1 = i
    BY <1>0, <1>1, <2>2
  <2>5. Tail(bk)[i - 1] = bk[i]
    BY <2>2, <2>4
  <2>6. EvictLRU(bk) = Tail(bk)
    BY <1>1 DEF EvictLRU
  <2> QED BY <2>3, <2>4, <2>5, <2>6 DEF Booked, PositionOf
<1>2. CASE ~(Len(bk) > MAX_WORKERS)
  BY <1>0, <1>2 DEF EvictLRU, Booked, PositionOf
<1> QED BY <1>1, <1>2

\* insert keeps every other worker's entry, in its place when the worker is new.
LEMMA InsertKeeps ==
  ASSUME now \in Nat, NEW bk \in Book, Sorted(bk), NEW w \in Workers,
         NEW i \in 1 .. Len(bk)
  PROVE  /\ bk[i].worker # w => \E j \in 1 .. Len(Insert(bk, w)) : Insert(bk, w)[j] = bk[i]
         /\ \E j \in 1 .. Len(Insert(bk, w)) : Insert(bk, w)[j] = Fresh(w)
         /\ ~Booked(bk, w) => Insert(bk, w)[1] = bk[1]
<1> DEFINE E == [worker : Workers, at : 0 .. now, seen : 0 .. now]
           s == Insert(bk, w)
<1>a. Fresh(w) \in E
  BY DEF Fresh
<1>b. bk \in Seq(E)
  BY DEF Book
<1>0. Len(bk) \in Nat /\ DOMAIN bk = 1 .. Len(bk)
  BY BookEntries
<1> HIDE DEF E
<1>1. CASE Booked(bk, w)
  <2>1. PICK k \in 1 .. Len(bk) : /\ k = CHOOSE q \in PositionOf(bk, w) : TRUE
                                  /\ bk[k].worker = w
    BY <1>0, <1>1 DEF Booked, PositionOf
  <2>2. s = Append(RemoveAt(bk, k), Fresh(w))
    BY <1>1, <2>1 DEF Insert
  <2>3. /\ Len(s) = Len(bk) /\ s[Len(bk)] = Fresh(w)
        /\ \A j \in 1 .. Len(bk) - 1 : s[j] = IF j < k THEN bk[j] ELSE bk[j + 1]
    <3> HIDE DEF s
    <3>1. /\ Len(Append(RemoveAt(bk, k), Fresh(w))) = Len(bk)
          /\ Append(RemoveAt(bk, k), Fresh(w))[Len(bk)] = Fresh(w)
          /\ \A j \in 1 .. Len(bk) - 1 : Append(RemoveAt(bk, k), Fresh(w))[j] =
               IF j < k THEN bk[j] ELSE bk[j + 1]
      BY <1>a, <1>b, MoveToBack
    <3> QED BY <2>2, <3>1
  <2> HIDE DEF s
  <2>4. ASSUME bk[i].worker # w
        PROVE  \E j \in 1 .. Len(bk) : s[j] = bk[i]
    <3>1. CASE i < k
      <4>1. i \in 1 .. Len(bk) - 1
        BY <1>0, <3>1
      <4>2. s[i] = bk[i]
        BY <2>3, <3>1, <4>1
      <4> QED BY <4>2
    <3>2. CASE i > k
      <4>1. i - 1 \in 1 .. Len(bk) - 1 /\ ~(i - 1 < k) /\ (i - 1) + 1 = i
        BY <1>0, <3>2
      <4>2. s[i - 1] = bk[i] /\ i - 1 \in 1 .. Len(bk)
        BY <1>0, <2>3, <4>1
      <4> QED BY <4>2
    <3>3. i # k
      BY <2>1, <2>4
    <3> QED BY <1>0, <3>1, <3>2, <3>3
  <2>5. Len(bk) \in 1 .. Len(bk)
    BY <1>0
  <2> QED BY <1>1, <2>3, <2>4, <2>5 DEF s
<1>2. CASE ~Booked(bk, w)
  <2>1. s = Append(bk, Fresh(w))
    BY <1>2 DEF Insert
  <2>2. /\ Len(s) = Len(bk) + 1 /\ s[Len(bk) + 1] = Fresh(w)
        /\ \A j \in 1 .. Len(bk) : s[j] = bk[j]
    BY <1>a, <1>b, <2>1, AppendProperties
  <2> HIDE DEF s
  <2> QED BY <1>0, <2>2 DEF s
<1> QED BY <1>1, <1>2

\* The workers of every job served from the queue are newly assigned.
LEMMA HeartbeatAssigns ==
  ASSUME IInv, NEW w \in Workers, Heartbeat(w), NEW j \in 1 .. Served(Insert(book, w))
  PROVE  Batch(Insert(book, w), j) \subseteq NewlyAssigned
<1> DEFINE bk == Insert(book, w)
           k == Served(bk)
           out == [i \in 1 .. k |-> [job |-> queue[i], workers |-> Batch(bk, i)]]
<1>0. /\ now \in Nat /\ book \in Book /\ Sorted(book)
      /\ queue \in Seq(Jobs) /\ Len(queue) \in Nat
      /\ pub \in Seq(Assignment) /\ Len(pub) \in Nat
  BY BookFacts
<1>1. bk \in Book /\ Sorted(bk)
  BY <1>0, InsertProperties
<1>2. pub' = pub \o out
  BY DEF Heartbeat, BookWorker
<1>3. k \in Nat /\ k <= Len(queue)
  BY <1>0, <1>1, ServedProperties
<1>4. \A i \in 1 .. k : queue[i] \in Jobs /\ Batch(bk, i) \in SUBSET Workers
  BY <1>0, <1>1, <1>3, BatchProperties, ElementOfSeq
<1> HIDE DEF bk, k
<1>5. out \in Seq(Assignment) /\ Len(out) = k
  <2>1. \A i \in 1 .. k : [job |-> queue[i], workers |-> Batch(bk, i)] \in Assignment
    BY <1>4 DEF Assignment
  <2> QED BY <1>3, <2>1, IsASeq
<1>6. j \in 1 .. k /\ out[j].workers = Batch(bk, j)
  BY DEF k, bk
<1> HIDE DEF out
<1>7. /\ pub' \in Seq(Assignment) /\ Len(pub') = Len(pub) + k
      /\ \A i \in 1 .. Len(pub) + k :
           pub'[i] = IF i <= Len(pub) THEN pub[i] ELSE out[i - Len(pub)]
  BY <1>0, <1>2, <1>5, ConcatProperties
<1>8. Len(pub) + j \in 1 .. Len(pub) + k /\ Len(pub) + j > Len(pub)
  BY <1>0, <1>3, <1>6
<1>9. Len(pub) + j \in DOMAIN pub'
  BY <1>7, <1>8, LenProperties
<1>10. pub'[Len(pub) + j] = out[(Len(pub) + j) - Len(pub)] /\ (Len(pub) + j) - Len(pub) = j
  BY <1>0, <1>3, <1>6, <1>7, <1>8
<1> QED BY <1>6, <1>8, <1>9, <1>10 DEF NewlyAssigned, bk

\* Whom a step drops without a job, by the instant the book holds: entries that are
\* stale, or the first one of a full book.
DropsOnlyStale ==
    \A i \in DOMAIN book :
        ~Booked(book', book[i].worker) /\ book[i].worker \notin NewlyAssigned
            => \/ Stale(book[i])
               \/ i = 1 /\ Len(book) = MAX_WORKERS

\* A heartbeat.  The worker it books stays or gets a job: its entry is fresh, and
\* only a worker that was not booked makes the book too long.
LEMMA HeartbeatDrops ==
  ASSUME IInv, NEW w \in Workers, Heartbeat(w)
  PROVE  DropsOnlyStale
<1> DEFINE bk == Insert(book, w)
           left == AfterServing(bk)
<1>0. /\ now \in Nat /\ book \in Book /\ Sorted(book) /\ queue \in Seq(Jobs)
      /\ Len(book) \in Nat /\ Len(book) <= MAX_WORKERS
      /\ MAX_WORKERS \in Nat /\ MAX_WORKERS > 0
      /\ NumWorkers \in Nat /\ NumWorkers > 0
      /\ STALE_TIME \in Nat /\ STALE_TIME > 0
      /\ DOMAIN book = 1 .. Len(book)
  BY BookFacts, BookEntries, AssignerAssumption
<1>1. /\ bk \in Book /\ Sorted(bk) /\ Len(bk) \in Nat
      /\ Len(bk) = Len(book) + (IF Booked(book, w) THEN 0 ELSE 1)
  BY <1>0, InsertProperties, BookEntries
<1>2. book' = EvictLRU(left)
  BY DEF Heartbeat, BookWorker
<1>3. \A j \in 1 .. Served(bk) : Batch(bk, j) \subseteq NewlyAssigned
  BY HeartbeatAssigns
<1> SUFFICES ASSUME NEW i \in 1 .. Len(book),
                    ~Booked(book', book[i].worker), book[i].worker \notin NewlyAssigned
             PROVE  Stale(book[i]) \/ (i = 1 /\ Len(book) = MAX_WORKERS)
  BY <1>0 DEF DropsOnlyStale
<1>a. /\ book[i].worker # w => \E j \in 1 .. Len(bk) : bk[j] = book[i]
      /\ \E j \in 1 .. Len(bk) : bk[j] = Fresh(w)
      /\ ~Booked(book, w) => bk[1] = book[1]
  BY <1>0, InsertKeeps
<1> HIDE DEF bk
<1>4. /\ left \in Book /\ Sorted(left) /\ Len(left) \in Nat
      /\ Len(left) <= Len(bk) - Served(bk) * NumWorkers
      /\ Served(bk) * NumWorkers \in 0 .. Len(bk)
  BY <1>0, <1>1, AfterServingProperties, BookEntries, ServedProperties
<1>5. \A j \in 1 .. Len(bk) : bk[j].worker = book[i].worker =>
        Booked(left, book[i].worker) \/ Stale(bk[j])
  BY <1>0, <1>1, <1>3, AfterServingDrops
<1>6. Booked(left, book[i].worker) \/ Stale(book[i])
  <2>1. CASE book[i].worker = w
    <3>1. PICK j \in 1 .. Len(bk) : bk[j] = Fresh(w)
      BY <1>a
    <3>2. ~Stale(bk[j]) /\ bk[j].worker = w
      BY <1>0, <3>1 DEF Stale, Fresh
    <3> QED BY <1>5, <2>1, <3>2
  <2>2. CASE book[i].worker # w
    BY <1>5, <1>a, <2>2
  <2> QED BY <2>1, <2>2
<1>7. ASSUME Booked(left, book[i].worker)
      PROVE  i = 1 /\ Len(book) = MAX_WORKERS
  <2>1. PICK p \in 1 .. Len(left) : left[p].worker = book[i].worker
    BY <1>4, <1>7, BookEntries DEF Booked, PositionOf
  <2>2. p = 1 /\ Len(left) > MAX_WORKERS
    BY <1>0, <1>2, <1>4, <2>1, EvictDrops
  <2>a. Len(left) <= Len(bk) /\ Served(bk) * NumWorkers \in Nat
    BY <1>1, <1>4
  <2>b. ~Booked(book, w) /\ Len(bk) = Len(book) + 1
    BY <1>0, <1>1, <1>4, <2>2, <2>a
  <2>c. Len(book) = MAX_WORKERS /\ Len(left) = Len(bk)
    <3> HIDE DEF left
    <3>1. Len(left) \in Nat /\ Len(bk) \in Nat /\ Len(book) \in Nat /\ MAX_WORKERS \in Nat
      BY <1>0, <1>1, <1>4
    <3>2. Len(book) <= MAX_WORKERS /\ MAX_WORKERS < Len(left)
      BY <1>0, <2>2, <3>1
    <3> QED BY <2>a, <2>b, <3>1, <3>2
  <2>3. /\ Len(book) = MAX_WORKERS /\ ~Booked(book, w)
        /\ Len(left) = Len(bk) /\ Served(bk) * NumWorkers = 0
    <3> HIDE DEF left
    <3>1. \A x \in Nat : Len(left) <= Len(bk) - x /\ Len(left) = Len(bk) => x = 0
      BY <1>1, <1>4
    <3> QED BY <1>4, <2>a, <2>b, <2>c, <3>1
  <2>4. Rest(bk) \in Book /\ Len(Rest(bk)) = Len(bk) /\ Rest(bk)[1] = bk[1]
    <3>1. 0 \in 0 .. Len(bk) /\ Len(bk) - 0 = Len(bk) /\ 1 \in 1 .. Len(bk)
      BY <1>0, <1>1, <2>3
    <3>2. Rest(bk) = Left(bk, 0)
      BY <2>3 DEF Rest
    <3>3. /\ Left(bk, 0) \in Book /\ Len(Left(bk, 0)) = Len(bk) - 0
          /\ \A j \in 1 .. Len(bk) - 0 : Left(bk, 0)[j] = bk[j]
      BY <1>0, <1>1, <3>1, LeftProperties
    <3> QED BY <3>1, <3>2, <3>3
  <2>5. ~StoppedByStale(bk)
    <3> SUFFICES ASSUME StoppedByStale(bk) PROVE FALSE
      OBVIOUS
    <3>1. Served(bk) < Len(queue) /\ NumWorkers <= Len(Rest(bk))
      BY DEF StoppedByStale
    <3>2. Len(left) < NumWorkers
      BY <1>0, <1>1, <3>1, AfterServingProperties
    <3> QED BY <1>0, <1>1, <2>3, <2>4, <3>1, <3>2
  <2>6. left[1] = bk[1]
    BY <2>4, <2>5 DEF AfterServing
  <2>7. book[1].worker = book[i].worker
    BY <1>a, <2>1, <2>2, <2>3, <2>6
  <2>8. i = 1
    BY <1>0, <2>7 DEF Sorted
  <2> QED BY <2>3, <2>8
<1> QED BY <1>6, <1>7

\* A new job.
LEMMA NewJobDrops ==
  ASSUME IInv, NewJob
  PROVE  DropsOnlyStale
<1>0. /\ now \in Nat /\ book \in Book /\ Sorted(book) /\ Len(book) \in Nat
      /\ NumWorkers \in Nat /\ NumWorkers > 0
      /\ pub \in Seq(Assignment) /\ Len(pub) \in Nat
      /\ DOMAIN book = 1 .. Len(book)
  BY BookFacts, BookEntries
<1>1. AssignOrQueue(arrived')
  BY DEF NewJob
<1>2. CASE UNCHANGED book
  BY <1>2 DEF DropsOnlyStale, Booked, PositionOf
<1>3. CASE /\ Len(book) >= NumWorkers /\ AllFresh(book, NumWorkers)
           /\ book' = Left(book, NumWorkers)
           /\ pub' = Append(pub, [job |-> arrived', workers |-> Popped(book, NumWorkers)])
           /\ UNCHANGED queue
  <2> DEFINE x == [job |-> arrived', workers |-> Popped(book, NumWorkers)]
  <2>1. NumWorkers \in 0 .. Len(book)
    BY <1>0, <1>3
  <2>2. /\ book' \in Seq([worker : Workers, at : 0 .. now, seen : 0 .. now])
        /\ Len(book') = Len(book) - NumWorkers
        /\ \A i \in 1 .. Len(book) - NumWorkers : book'[i] = book[i]
    BY <1>0, <1>3, <2>1, LeftProperties DEF Book
  <2>3. DOMAIN book' = 1 .. Len(book) - NumWorkers
    BY <2>2, LenProperties
  <2>4. Popped(book, NumWorkers) \subseteq NewlyAssigned
    <3>1. Len(pub') = Len(pub) + 1 /\ pub' \in Seq(Assignment)
      BY <1>3, AssignProperties
    <3>2. Len(pub) + 1 \in DOMAIN pub' /\ Len(pub) + 1 > Len(pub)
      BY <1>0, <3>1, LenProperties
    <3>3. pub'[Len(pub) + 1] = x
      BY <1>0, <1>3
    <3> QED BY <3>2, <3>3 DEF NewlyAssigned
  <2>5. \A i \in 1 .. Len(book) :
          i \in DOMAIN book' \/ book[i].worker \in Popped(book, NumWorkers)
    BY <1>0, <2>3 DEF Popped, Newest
  <2> QED BY <1>0, <2>2, <2>3, <2>4, <2>5 DEF DropsOnlyStale, Booked, PositionOf
<1>4. CASE /\ Len(book) >= NumWorkers /\ ~AllFresh(book, NumWorkers)
           /\ book' = Trimmed(book, NumWorkers)
  <2>1. NumWorkers \in 1 .. Len(book)
    BY <1>0, <1>4
  <2>2. \A i \in 1 .. Len(book) : Stale(book[i]) \/ Booked(book', book[i].worker)
    BY <1>0, <1>4, <2>1, TrimmedDrops
  <2> QED BY <1>0, <2>2 DEF DropsOnlyStale
<1> QED BY <1>1, <1>2, <1>3, <1>4 DEF AssignOrQueue

\* Every step: only heartbeats and jobs touch the book.
LEMMA NextDropsStale == IInv /\ [Next]_vars => DropsOnlyStale
<1> SUFFICES ASSUME IInv, [Next]_vars PROVE DropsOnlyStale
  OBVIOUS
<1>1. ASSUME NEW w \in Workers, Heartbeat(w) PROVE DropsOnlyStale
  BY <1>1, HeartbeatDrops
<1>2. ASSUME NEW r \in retries, RetryPublish(r) PROVE UNCHANGED book
  BY <1>2 DEF RetryPublish
<1>3. CASE UNCHANGED book
  BY <1>3 DEF DropsOnlyStale, Booked, PositionOf
<1> QED BY <1>1, <1>2, <1>3, NewJobDrops
        DEF Next, vars, PublishAssign, ClientEnds, Disconnected, Tick

\* With batches of at most two workers the book holds the instants of the heartbeats
\* themselves: of two entries popped, only the newer one is ever put back, with the
\* instant of the oldest entry put back, its own.
Exact(bk) == \A i \in DOMAIN bk : bk[i].at = bk[i].seen
AtIsSeen == Exact(book)

LEMMA TrimmedExact ==
  ASSUME now \in Nat, NEW bk \in Book, Exact(bk), NEW n \in 1 .. Len(bk), n \in {1, 2},
         ~AllFresh(bk, n)
  PROVE  Exact(Trimmed(bk, n))
<1> DEFINE St == {i \in Newest(bk, n) : Stale(bk[i])}
           k == Max(St)
           m == Len(bk) - k
           s == [i \in 1 .. m |-> [bk[k + i] EXCEPT !.at = bk[k + 1].at]]
<1>0. Len(bk) \in Nat
  BY BookEntries
<1>d. DOMAIN bk = 1 .. Len(bk)
  BY BookEntries
<1>1. k \in Newest(bk, n)
  <2>1. Len(bk) - n + 1 \in Int /\ Len(bk) \in Int /\ St # {}
    BY <1>0 DEF AllFresh
  <2>2. St \in SUBSET (Len(bk) - n + 1 .. Len(bk))
    BY DEF Newest
  <2>3. k \in St
    <3> HIDE DEF St
    <3> QED BY <2>1, <2>2, MaxExists
  <2> QED BY <2>3
<1> HIDE DEF k
<1>2. k \in 1 .. Len(bk) /\ m \in 0 .. 1
  <2>1. k \in 1 .. Len(bk) /\ Len(bk) - n + 1 <= k
    BY <1>0, <1>1 DEF Newest
  <2>2. CASE n = 1
    BY <1>0, <2>1, <2>2
  <2>3. CASE n = 2
    BY <1>0, <2>1, <2>3
  <2> QED BY <2>2, <2>3
<1>3. ASSUME NEW i \in 1 .. m
      PROVE  s[i].at = s[i].seen
  <2>1. i = 1 /\ k + 1 \in 1 .. Len(bk)
    <3>1. i = 1 /\ k + 1 <= Len(bk)
      BY <1>0, <1>2
    <3> QED BY <1>0, <1>2, <3>1
  <2>2. bk[k + 1] \in [worker : Workers, at : 0 .. now, seen : 0 .. now]
    BY <2>1, BookEntries
  <2>3. s[i] = [bk[k + 1] EXCEPT !.at = bk[k + 1].at]
    BY <2>1
  <2>4. bk[k + 1].at = bk[k + 1].seen
    BY <1>d, <2>1 DEF Exact
  <2> HIDE DEF s
  <2> QED BY <2>2, <2>3, <2>4
<1>4. Trimmed(bk, n) = s /\ DOMAIN s = 1 .. m
  BY DEF Trimmed, k
<1> HIDE DEF s, m
<1> QED BY <1>3, <1>4 DEF Exact

\* Taking workers from the newest end, or the first entry away, changes no instant.
LEMMA LeftExact ==
  ASSUME now \in Nat, NEW bk \in Book, Sorted(bk), Exact(bk), NEW n \in 0 .. Len(bk)
  PROVE  Exact(Left(bk, n))
<1>1. /\ Left(bk, n) \in Book /\ Len(Left(bk, n)) = Len(bk) - n
      /\ \A i \in 1 .. Len(bk) - n : Left(bk, n)[i] = bk[i]
  BY LeftProperties
<1>2. /\ DOMAIN Left(bk, n) = 1 .. Len(bk) - n
      /\ DOMAIN bk = 1 .. Len(bk) /\ Len(bk) \in Nat
  BY <1>1, BookEntries
<1>3. \A i \in 1 .. Len(bk) - n : i \in DOMAIN bk
  BY <1>2
<1> QED BY <1>1, <1>2, <1>3 DEF Exact

LEMMA EvictExact ==
  ASSUME now \in Nat, NEW bk \in Book, Exact(bk)
  PROVE  Exact(EvictLRU(bk))
<1> DEFINE E == [worker : Workers, at : 0 .. now, seen : 0 .. now]
<1>0. bk \in Seq(E) /\ Len(bk) \in Nat /\ DOMAIN bk = 1 .. Len(bk)
  BY BookEntries DEF Book
<1> HIDE DEF E
<1>1. CASE Len(bk) > MAX_WORKERS
  <2>1. bk # <<>>
    BY <1>1, AssignerAssumption
  <2>2. /\ Tail(bk) \in Seq(E) /\ Len(Tail(bk)) = Len(bk) - 1
        /\ \A i \in 1 .. Len(Tail(bk)) : Tail(bk)[i] = bk[i + 1]
    BY <1>0, <2>1, HeadTailProperties
  <2>3. DOMAIN Tail(bk) = 1 .. Len(Tail(bk))
    BY <2>2, LenProperties
  <2>4. \A i \in 1 .. Len(Tail(bk)) : i + 1 \in DOMAIN bk
    BY <1>0, <2>2
  <2> QED BY <1>1, <2>2, <2>3, <2>4 DEF EvictLRU, Exact
<1>2. CASE ~(Len(bk) > MAX_WORKERS)
  BY <1>2 DEF EvictLRU
<1> QED BY <1>1, <1>2

\* A heartbeat is entered with its own instant.
LEMMA InsertExact ==
  ASSUME now \in Nat, NEW bk \in Book, Sorted(bk), Exact(bk), NEW w \in Workers
  PROVE  Exact(Insert(bk, w))
<1>1. \A j \in DOMAIN Insert(bk, w) :
        Insert(bk, w)[j] = Fresh(w) \/ \E k \in DOMAIN bk : Insert(bk, w)[j] = bk[k]
  BY InsertEntries
<1>2. Fresh(w).at = Fresh(w).seen
  BY DEF Fresh
<1> QED BY <1>1, <1>2 DEF Exact

LEMMA AfterServingExact ==
  ASSUME NumWorkers <= 2,
         now \in Nat, NEW bk \in Book, Sorted(bk), Exact(bk), queue \in Seq(Jobs)
  PROVE  Exact(AfterServing(bk))
<1> DEFINE m == Served(bk) * NumWorkers
<1>0. NumWorkers \in Nat /\ NumWorkers > 0 /\ m \in 0 .. Len(bk)
  BY ServedProperties, AssignerAssumption
<1>1. Rest(bk) = Left(bk, m)
  BY DEF Rest
<1> HIDE DEF m
<1>2. Rest(bk) \in Book /\ Exact(Rest(bk)) /\ Len(Rest(bk)) \in Nat
  BY <1>0, <1>1, LeftProperties, LeftExact, BookEntries
<1>3. CASE StoppedByStale(bk)
  <2>1. ~AllFresh(Rest(bk), NumWorkers) /\ NumWorkers \in 1 .. Len(Rest(bk))
    BY <1>0, <1>2, <1>3 DEF StoppedByStale
  <2>2. NumWorkers \in {1, 2}
    BY <1>0
  <2> QED BY <1>2, <1>3, <2>1, <2>2, TrimmedExact DEF AfterServing
<1>4. CASE ~StoppedByStale(bk)
  BY <1>2, <1>4 DEF AfterServing
<1> QED BY <1>3, <1>4

LEMMA NextExact ==
  ASSUME NumWorkers <= 2
  PROVE  IInv /\ AtIsSeen /\ [Next]_vars => AtIsSeen'
<1> SUFFICES ASSUME IInv, AtIsSeen, [Next]_vars PROVE Exact(book')
  BY DEF AtIsSeen, Exact
<1>0. /\ now \in Nat /\ book \in Book /\ Sorted(book) /\ queue \in Seq(Jobs)
      /\ Exact(book) /\ Len(book) \in Nat /\ NumWorkers \in Nat /\ NumWorkers > 0
  BY BookFacts DEF AtIsSeen
<1>1. ASSUME NEW w \in Workers, Heartbeat(w) PROVE Exact(book')
  <2> DEFINE bk == Insert(book, w)
             left == AfterServing(bk)
  <2>1. bk \in Book /\ Sorted(bk) /\ Exact(bk)
    BY <1>0, InsertProperties, InsertExact
  <2>2. book' = EvictLRU(left)
    BY <1>1 DEF Heartbeat, BookWorker
  <2> HIDE DEF bk
  <2>3. left \in Book /\ Exact(left)
    BY <1>0, <2>1, AfterServingProperties, AfterServingExact
  <2> HIDE DEF left
  <2> QED BY <1>0, <2>2, <2>3, EvictExact
<1>2. CASE NewJob
  <2>1. CASE UNCHANGED book
    BY <1>0, <2>1
  <2>2. CASE Len(book) >= NumWorkers /\ book' = Left(book, NumWorkers)
    <3>1. NumWorkers \in 0 .. Len(book)
      BY <1>0, <2>2
    <3> QED BY <1>0, <2>2, <3>1, LeftExact
  <2>3. CASE /\ Len(book) >= NumWorkers /\ ~AllFresh(book, NumWorkers)
             /\ book' = Trimmed(book, NumWorkers)
    <3>1. NumWorkers \in 1 .. Len(book) /\ NumWorkers \in {1, 2}
      BY <1>0, <2>3
    <3> QED BY <1>0, <2>3, <3>1, TrimmedExact
  <2> QED BY <1>2, <2>1, <2>2, <2>3 DEF NewJob, AssignOrQueue
<1>3. ASSUME NEW r \in retries, RetryPublish(r) PROVE UNCHANGED book
  BY <1>3 DEF RetryPublish
<1>4. CASE UNCHANGED book
  BY <1>0, <1>4
<1> QED BY <1>1, <1>2, <1>3, <1>4
        DEF Next, vars, PublishAssign, ClientEnds, Disconnected, Tick

\* Whatever the batch size, a worker leaves the book without an assignment only when
\* the instant the book holds for it is stale, or as the least recent of a full book.
THEOREM DropsOnlyStaleEntries == Spec => [][DropsOnlyStale]_vars
<1>1. IInv /\ [Next]_vars => [DropsOnlyStale]_vars
  BY NextDropsStale
<1> QED BY <1>1, Invariance, PTL DEF Spec

\* With batches of at most two workers (the code's are of one), a worker leaves the
\* book without an assignment only when it has been silent for STALE_TIME, or as the
\* least recent of a full book.
THEOREM OnlySilentWorkersAreDropped ==
  ASSUME NumWorkers <= 2
  PROVE  Spec => DropsOnlySilentWorkers
<1>1. Init => AtIsSeen
  <2> SUFFICES ASSUME Init PROVE AtIsSeen
    OBVIOUS
  <2>1. book = <<>> /\ DOMAIN <<>> = {}
    BY DEF Init
  <2> QED BY <2>1 DEF AtIsSeen, Exact
<1>2. IInv /\ AtIsSeen /\ [Next]_vars => AtIsSeen'
  BY NextExact
<1>3. IInv /\ AtIsSeen /\ [Next]_vars =>
        [\A i \in DOMAIN book :
           ~Booked(book', book[i].worker) /\ book[i].worker \notin NewlyAssigned
             => \/ now - book[i].seen >= STALE_TIME
                \/ i = 1 /\ Len(book) = MAX_WORKERS]_vars
  BY NextDropsStale DEF DropsOnlyStale, AtIsSeen, Exact, Stale
<1> QED BY <1>1, <1>2, <1>3, Invariance, PTL DEF Spec, DropsOnlySilentWorkers

-----------------------------------------------------------------------------
(* The assigner implements the dispatcher.                                 *)

\* The assigner's start is the dispatcher's.
LEMMA InitDispatches == Init => Dispatch!DispatcherInit
<1> SUFFICES ASSUME Init PROVE Dispatch!DispatcherInit
  OBVIOUS
<1>1. arrived = 0 /\ queue = <<>> /\ book = <<>>
  BY DEF Init
<1>2. Len(queue) = 0 /\ Len(book) = 0
  BY <1>1
<1>3. arrived - Len(queue) = 0
  <2>1. \A n, m \in Int : n = 0 /\ m = 0 => n - m = 0
    OBVIOUS
  <2>2. arrived \in Int /\ Len(queue) \in Int
    BY <1>1, <1>2
  <2> QED BY <1>1, <1>2, <2>1, <2>2, Zenon
<1> QED BY <1>1, <1>2, <1>3 DEF Dispatch!DispatcherInit

\* A heartbeat is a report: it hands out the first jobs that wait.
LEMMA HeartbeatReports ==
  ASSUME IInv, NEW w \in Workers, Heartbeat(w)
  PROVE  Dispatch!Report
<1> DEFINE k == Served(Insert(book, w))
<1>0. Len(queue) \in Nat /\ Len(book) \in Nat /\ NumWorkers \in Nat /\ arrived \in Int
  BY BookFacts DEF IInv, TypeOK
<1>1. /\ Len(book') \in Nat
      /\ k < Len(queue) => Len(book') < NumWorkers
      /\ Len(book') <= Len(book) + 1 - k * NumWorkers
  BY HeartbeatBook
<1>2. k \in 0 .. Len(queue) /\ queue' \in Seq(Jobs) /\ Len(queue') = Len(queue) - k
  BY HeartbeatQueue
<1>3. queue' = SubSeq(queue, k + 1, Len(queue)) /\ arrived' = arrived
  BY DEF Heartbeat, BookWorker
<1> HIDE DEF k
<1>4. k * NumWorkers \in Nat
  BY <1>0, <1>2, OneMoreBatch
<1>5. k * NumWorkers <= Len(book) + 1 /\ Len(book') \in 0 .. Len(book) + 1 - k * NumWorkers
  BY <1>0, <1>1, <1>4
<1>6. \A i \in 1 .. k : queue[i] = arrived - Len(queue) + i
  <2>1. \A i \in 1 .. k : i \in DOMAIN queue
    BY <1>0, <1>2, BookFacts, LenProperties
  <2> QED BY <2>1 DEF IInv, FirstComeFirstServed
<1>7. arrived' - Len(queue') = arrived - Len(queue) + k
  BY <1>0, <1>2, <1>3
<1>8. queue' # <<>> => Len(book') < NumWorkers
  BY <1>0, <1>1, <1>2, EmptySeq
<1> QED BY <1>2, <1>3, <1>5, <1>6, <1>7, <1>8 DEF Dispatch!Report

\* A new job is handed out or waits.
LEMMA NewJobDispatches ==
  ASSUME IInv, NewJob
  PROVE  Dispatch!HandOut \/ Dispatch!Wait
<1>0. /\ Len(queue) \in Nat /\ Len(book) \in Nat /\ arrived \in Int
      /\ NumWorkers \in Nat /\ NumWorkers > 0
      /\ now \in Nat /\ book \in Book /\ Sorted(book)
  BY BookFacts DEF IInv, TypeOK
<1>1. AssignOrQueue(arrived') /\ arrived' = arrived + 1
  BY DEF NewJob
<1>2. ASSUME Enqueue(arrived')
      PROVE  /\ queue' = Append(queue, arrived')
             /\ arrived' - Len(queue') = arrived - Len(queue)
  BY <1>0, <1>1, <1>2, EnqueueProperties DEF Enqueue
<1>3. CASE /\ Len(book) < NumWorkers
           /\ Enqueue(arrived')
           /\ UNCHANGED <<book, workersOnline>>
  <2>1. Len(book') \in 0 .. Len(book) /\ Len(book') < NumWorkers
    BY <1>0, <1>3
  <2> QED BY <1>1, <1>2, <1>3, <2>1 DEF Dispatch!Wait
<1>4. CASE /\ Len(book) >= NumWorkers /\ AllFresh(book, NumWorkers)
           /\ book' = Left(book, NumWorkers)
           /\ pub' = Append(pub, [job |-> arrived', workers |-> Popped(book, NumWorkers)])
           /\ workersOnline' = workersOnline - NumWorkers
           /\ UNCHANGED <<queue, cachedJobs>>
  <2>1. queue = <<>>
    BY <1>4, AssignProperties
  <2>2. NumWorkers \in 0 .. Len(book)
    BY <1>0, <1>4
  <2>3. Len(book') = Len(book) - NumWorkers
    BY <1>0, <1>4, <2>2, LeftProperties
  <2>4. arrived' - Len(queue') = arrived - Len(queue) + 1
    BY <1>0, <1>1, <1>4
  <2> QED BY <1>1, <1>4, <2>1, <2>3, <2>4 DEF Dispatch!HandOut
<1>5. CASE /\ Len(book) >= NumWorkers /\ ~AllFresh(book, NumWorkers)
           /\ book' = Trimmed(book, NumWorkers)
           /\ workersOnline' = Len(book')
           /\ Enqueue(arrived')
  <2>1. NumWorkers \in 1 .. Len(book)
    BY <1>0, <1>5
  <2>2. Len(book') < NumWorkers /\ Len(book') \in Nat
    BY <1>0, <1>5, <2>1, TrimmedProperties
  <2>3. Len(book') \in 0 .. Len(book)
    BY <1>0, <1>5, <2>2
  <2> QED BY <1>1, <1>2, <1>5, <2>2, <2>3 DEF Dispatch!Wait
<1> QED BY <1>1, <1>3, <1>4, <1>5 DEF AssignOrQueue

\* Every step of the assigner is a step of the dispatcher, or none.
LEMMA NextDispatches == IInv /\ [Next]_vars => [Dispatch!DispatcherNext]_Dispatch!dvars
<1> SUFFICES ASSUME IInv, [Next]_vars PROVE [Dispatch!DispatcherNext]_Dispatch!dvars
  OBVIOUS
<1>1. ASSUME NEW w \in Workers, Heartbeat(w) PROVE Dispatch!DispatcherNext
  BY <1>1, HeartbeatReports DEF Dispatch!DispatcherNext
<1>2. ASSUME NewJob PROVE Dispatch!DispatcherNext
  BY <1>2, NewJobDispatches DEF Dispatch!DispatcherNext
<1>3. ASSUME UNCHANGED <<book, queue, arrived>> PROVE UNCHANGED Dispatch!dvars
  BY <1>3 DEF Dispatch!dvars
<1>4. ASSUME NEW r \in retries, RetryPublish(r) PROVE UNCHANGED <<book, queue, arrived>>
  BY <1>4 DEF RetryPublish
<1>5. \/ \E w \in Workers : Heartbeat(w)
      \/ NewJob
      \/ UNCHANGED <<book, queue, arrived>>
  BY <1>4 DEF Next, vars, PublishAssign, ClientEnds, Disconnected, Tick
<1> QED BY <1>1, <1>2, <1>3, <1>5

\* The assigner implements the dispatcher: jobs are handed out first come, first
\* served, each to NumWorkers workers, and wait only for want of workers.
THEOREM AssignerImplementsDispatcher == Spec => ImplementsDispatcher
<1> QED BY InitDispatches, NextDispatches, Invariance, PTL
        DEF Spec, ImplementsDispatcher, Dispatch!DispatcherSpec
=============================================================================
