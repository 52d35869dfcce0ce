--------------------------- MODULE TimedQueueProofs ---------------------------
(***************************************************************************)
(* Proofs about TimedQueue, for any producers, release times and timeouts: *)
(* the types of its variables, and that every step of the list, the lock,  *)
(* the event and the flag is a step of the delay queue or changes nothing  *)
(* that its users see.                                                     *)
(***************************************************************************)
EXTENDS TimedQueue, ListLemmas

\* x is to leave before y.
Precedes(x, y) == x.stamp < y.stamp \/ (x.stamp = y.stamp /\ x.id < y.id)
InOrder(q) == \A i, j \in DOMAIN q : i < j => Precedes(q[i], q[j])

\* The list is in order but for an item that was just appended: the last to arrive.
Appended(q) ==
  /\ q # <<>> /\ InOrder(Front(q))
  /\ \A i \in 1..(Len(q) - 1) : q[i].id < q[Len(q)].id

Sorting == \E t \in Producers : putter[t] = "sort"

\* A producer is in put() only with the lock, and so it is alone.
OneHoldsLock ==
  /\ (\E t \in Producers : putter[t] # "idle") => lock
  /\ \A t, u \in Producers : putter[t] # "idle" /\ putter[u] # "idle" => t = u

\* Whenever the list can be looked at it is in order.
Listed ==
  /\ \A i \in DOMAIN queue : queue[i].id <= puts
  /\ Len(queue) <= puts
  /\ IF Sorting THEN Appended(queue) ELSE InOrder(queue)

\* get() looks at the clock after it was called, and sleeps while its timeout lasts.
Clocked ==
  /\ getter.start <= getter.seen /\ getter.seen <= now
  /\ getter.at = "check" /\ getter.timeout # NoTimeout
       => getter.seen - getter.start <= getter.timeout

IInv == TypeOK /\ OneHoldsLock /\ Listed /\ Clocked

-----------------------------------------------------------------------------
(* The list.                                                               *)

\* The bounds are numbers, and so are release times and timeouts.
LEMMA Numbers ==
  MaxPuts \in Nat /\ MaxNow \in Nat /\ IdleWait \in Nat /\ Stamps \subseteq Int
BY TimedQueueAssumption

LEMMA TimeoutIs == \A t \in Timeouts \cup {NoTimeout} : t # NoTimeout => t \in Nat
BY Zenon, TimedQueueAssumption

\* Of an item its release time and its number are compared.
LEMMA ItemIs == \A x \in Item : x.stamp \in Int /\ x.id \in Nat /\ x.stamp \in Stamps
<1> SUFFICES ASSUME NEW x \in Item PROVE x.stamp \in Int /\ x.id \in Nat /\ x.stamp \in Stamps
  OBVIOUS
<1>1. x.stamp \in Stamps /\ x.id \in 1..MaxPuts
  BY DEF Item
<1>2. x.stamp \in Int
  BY <1>1, Numbers
<1>3. x.id \in Nat
  BY <1>1, Numbers
<1> QED BY <1>1, <1>2, <1>3, Zenon

\* The list without its last item.
LEMMA FrontIs ==
  ASSUME NEW S, NEW q \in Seq(S), q # <<>>
  PROVE  /\ Front(q) \in Seq(S) /\ Len(Front(q)) = Len(q) - 1
         /\ \A i \in 1..(Len(q) - 1) : Front(q)[i] = q[i]
         /\ Len(q) - 1 \in Nat /\ q[Len(q)] \in S
<1> DEFINE n == Len(q)
<1>1. n \in Nat /\ n >= 1 /\ \A i \in 1..n : q[i] \in S
  BY EmptySeq
<1> DEFINE m == n - 1
<1>2. m \in 0..Len(q) /\ m \in Nat
  BY <1>1
<1>3. q[n] \in S
  BY <1>1
<1> HIDE DEF m
<1>4. FirstOf(SubSeq(q, 1, m), S, q, m)
  BY <1>2, FirstOfIs
<1>5. Front(q) = SubSeq(q, 1, m)
  BY DEF Front, m
<1> QED BY <1>2, <1>3, <1>4, <1>5, Zenon DEF FirstOf, m

\* After an item was appended sorting puts the list in order, and loses none.
LEMMA SortLastSorts ==
  ASSUME NEW q \in Seq(Item), Appended(q)
  PROVE  /\ SortLast(q) \in Seq(Item) /\ Len(SortLast(q)) = Len(q)
         /\ InOrder(SortLast(q))
         /\ {SortLast(q)[i] : i \in DOMAIN SortLast(q)} = {q[i] : i \in DOMAIN q}
<1> DEFINE m == Len(q) - 1
           x == q[Len(q)]
           rest == Front(q)
           D == {i \in DOMAIN rest : rest[i].stamp <= x.stamp}
           c == Cardinality(D)
           r == SortLast(q)
<1>1. /\ m \in Nat /\ Len(q) = m + 1 /\ DOMAIN q = 1..(m + 1) /\ x \in Item
      /\ rest \in Seq(Item) /\ Len(rest) = m /\ DOMAIN rest = 1..m
      /\ \A i \in 1..m : rest[i] = q[i]
  BY FrontIs DEF Appended
<1>2. /\ \A i, j \in 1..m : i < j => Precedes(rest[i], rest[j])
      /\ \A i \in 1..m : rest[i].id < x.id
  BY <1>1 DEF Appended, InOrder
<1>3. /\ \A i \in 1..m : rest[i].stamp \in Int /\ rest[i].id \in Nat
      /\ x.stamp \in Int /\ x.id \in Nat
  <2>1. \A i \in 1..m : rest[i] \in Item
    BY <1>1
  <2> QED BY <2>1, <1>1, ItemIs
<1>4. r = InsertAt(rest, 1 + c, x)
  BY DEF SortLast
<1>5. D \in SUBSET (1..m) /\ \A i \in 1..m : i \in D <=> rest[i].stamp <= x.stamp
  BY <1>1
<1> HIDE DEF m, x, rest, D, r
<1>6. c \in 0..m /\ D = 1..c
  <2>1. ASSUME NEW i \in 1..m, NEW j \in 1..m, i < j, j \in D PROVE i \in D
    <3>1. rest[i].stamp <= rest[j].stamp /\ rest[j].stamp <= x.stamp
      BY <2>1, <1>2, <1>3, <1>5 DEF Precedes
    <3> QED BY <3>1, <1>3, <1>5
  <2> QED BY <2>1, <1>1, <1>5, Counted
<1> HIDE DEF c
<1>7. /\ r \in Seq(Item) /\ Len(r) = m + 1
      /\ \A i \in 1..c : r[i] = rest[i]
      /\ r[1 + c] = x
      /\ \A i \in (c + 2)..(m + 1) : r[i] = rest[i - 1]
  <2> DEFINE k == 1 + c
  <2>1. k \in 1..(Len(rest) + 1) /\ k - 1 = c /\ k + 1 = c + 2
    BY <1>1, <1>6
  <2>2. r = InsertAt(rest, k, x)
    BY <1>4
  <2> HIDE DEF k
  <2>3. /\ r \in Seq(Item) /\ Len(r) = Len(rest) + 1
        /\ \A i \in 1..(k - 1) : r[i] = rest[i]
        /\ r[k] = x
        /\ \A i \in (k + 1)..(Len(rest) + 1) : r[i] = rest[i - 1]
    <3>1. rest \in Seq(Item) /\ x \in Item
      BY <1>1
    <3>2. Inserts(r, Item, rest, k, x)
      BY <2>1, <2>2, <3>1, InsertAtIs
    <3> QED BY <3>2, Zenon DEF Inserts
  <2> QED BY <2>1, <2>3, <1>1 DEF k
<1>8. DOMAIN r = 1..(m + 1)
  BY <1>1, <1>7
<1>9. ASSUME NEW i \in 1..(m + 1), NEW j \in 1..(m + 1), i < j
      PROVE  Precedes(r[i], r[j])
  <2>1. CASE j \in 1..c
    <3>1. i \in 1..m /\ j \in 1..m /\ i \in 1..c
      BY <2>1, <1>6, <1>9, <1>1
    <3> QED BY <2>1, <3>1, <1>2, <1>7, <1>9
  <2>2. CASE j = c + 1
    <3>1. i \in 1..c /\ i \in 1..m
      BY <2>2, <1>6, <1>9, <1>1
    <3>2. rest[i].stamp <= x.stamp /\ rest[i].id < x.id
      BY <3>1, <1>2, <1>5, <1>6
    <3>3. Precedes(rest[i], x)
      BY <3>1, <3>2, <1>3 DEF Precedes
    <3> QED BY <2>2, <3>1, <3>3, <1>7, <1>6
  <2>3. CASE j \in (c + 2)..(m + 1)
    <3>1. r[j] = rest[j - 1] /\ j - 1 \in 1..m /\ ~(j - 1 \in 1..c)
      BY <2>3, <1>1, <1>6, <1>7
    <3>2. CASE i \in 1..c
      <4>1. i \in 1..m /\ i < j - 1
        BY <3>2, <2>3, <1>1, <1>6
      <4> QED BY <4>1, <3>1, <3>2, <1>2, <1>7
    <3>3. CASE i = c + 1
      <4>1. x.stamp < rest[j - 1].stamp
        BY <3>1, <1>3, <1>5, <1>6
      <4>2. Precedes(x, rest[j - 1])
        BY <4>1 DEF Precedes
      <4> QED BY <3>1, <3>3, <4>2, <1>7, <1>6
    <3>4. CASE i \in (c + 2)..(m + 1)
      <4>1. r[i] = rest[i - 1] /\ i - 1 \in 1..m /\ i - 1 < j - 1
        BY <3>4, <2>3, <1>1, <1>6, <1>7, <1>9
      <4> QED BY <4>1, <3>1, <1>2
    <3> QED BY <3>2, <3>3, <3>4, <1>1, <1>6
  <2> QED BY <2>1, <2>2, <2>3, <1>1, <1>6
<1>10. ASSUME NEW i \in 1..(m + 1) PROVE \E j \in 1..(m + 1) : r[i] = q[j]
  <2>1. CASE i \in 1..c
    <3>1. i \in 1..m /\ r[i] = q[i]
      BY <2>1, <1>1, <1>6, <1>7
    <3> QED BY <3>1, <1>10
  <2>2. CASE i = c + 1
    <3>1. r[i] = q[m + 1] /\ m + 1 \in 1..(m + 1)
      BY <2>2, <1>1, <1>6, <1>7 DEF x
    <3> QED BY <3>1
  <2>3. CASE i \in (c + 2)..(m + 1)
    <3>1. r[i] = q[i - 1] /\ i - 1 \in 1..(m + 1)
      BY <2>3, <1>1, <1>6, <1>7
    <3> QED BY <3>1
  <2> QED BY <2>1, <2>2, <2>3, <1>1, <1>6
<1>11. ASSUME NEW j \in 1..(m + 1) PROVE \E i \in 1..(m + 1) : r[i] = q[j]
  <2>1. CASE j \in 1..c
    <3>1. j \in 1..m /\ r[j] = q[j]
      BY <2>1, <1>1, <1>6, <1>7
    <3> QED BY <3>1, <1>11
  <2>2. CASE j \in (c + 1)..m
    <3>1. j + 1 \in (c + 2)..(m + 1) /\ j + 1 \in 1..(m + 1) /\ j \in 1..m /\ (j + 1) - 1 = j
      BY <2>2, <1>1, <1>6
    <3>2. r[j + 1] = q[j]
      BY <3>1, <1>1, <1>7
    <3> QED BY <3>1, <3>2
  <2>3. CASE j = m + 1
    <3>1. r[1 + c] = q[j] /\ 1 + c \in 1..(m + 1)
      BY <2>3, <1>1, <1>6, <1>7 DEF x
    <3> QED BY <3>1
  <2> QED BY <2>1, <2>2, <2>3, <1>1, <1>6
<1>12. {r[i] : i \in DOMAIN r} = {q[i] : i \in DOMAIN q}
  <2>1. DOMAIN q = 1..(m + 1)
    BY <1>1
  <2> DEFINE N == 1..(m + 1)
  <2>2. /\ DOMAIN r = N /\ DOMAIN q = N
        /\ \A i \in N : \E j \in N : r[i] = q[j]
        /\ \A j \in N : \E i \in N : r[i] = q[j]
    BY <2>1, <1>8, <1>10, <1>11
  <2> HIDE DEF N
  <2> QED BY <2>2
<1>13. InOrder(r)
  BY <1>8, <1>9 DEF InOrder
<1> QED BY <1>1, <1>7, <1>12, <1>13 DEF r

-----------------------------------------------------------------------------
(* Types.                                                                  *)

PutterPlaces == {"idle", "sort", "set"}
GetterPlaces == {"out", "check", "wait", "clear", "take"}
Getter == [at : GetterPlaces, start : 0..MaxNow, seen : 0..MaxNow,
           timeout : Timeouts \cup {NoTimeout}, slept : 0..MaxNow, wake : Nat]

\* The type invariant in parts.
QueueType == queue \in Seq(Item) /\ Len(queue) <= MaxPuts /\ puts \in 0..MaxPuts
FlagType == event \in BOOLEAN /\ closed \in BOOLEAN /\ lock \in BOOLEAN
PutterType == putter \in [Producers -> PutterPlaces]
CloserType == closer \in {"idle", "set", "done"}
GetterType == getter \in Getter
AnswerType == answer \in {NoAnswer, TimedOut, None} \cup {Answered(x) : x \in Item}
NowType == now \in 0..MaxNow

LEMMA TypeParts ==
  TypeOK <=> /\ QueueType /\ FlagType /\ PutterType /\ CloserType /\ GetterType
             /\ AnswerType /\ NowType
BY Zenon DEF TypeOK, QueueType, FlagType, PutterType, CloserType, GetterType, AnswerType,
   NowType, Getter, PutterPlaces, GetterPlaces

\* What each step leaves alone.
LEMMA Changes ==
  ASSUME [Next]_vars
  PROVE  /\ \/ UNCHANGED <<putter, queue, puts>> \/ GetTake
            \/ \E t \in Producers : PutAppend(t) \/ PutSort(t) \/ PutSet(t)
         /\ \/ UNCHANGED <<getter, answer>>
            \/ GetCall \/ GetCheck \/ GetWake \/ GetClear \/ GetTake
         /\ now' = now \/ Tick
<1>1. ASSUME NEW t \in Producers, PutAppend(t) \/ PutSort(t) \/ PutSet(t)
      PROVE  UNCHANGED <<getter, answer, now>>
  BY <1>1, Zenon DEF PutAppend, PutSort, PutSet
<1>2. CASE UNCHANGED vars
  BY <1>2, Zenon DEF vars
<1> QED BY <1>1, <1>2, Zenon
        DEF Next, CloseFlag, CloseSet, GetCall, GetCheck, GetWake, GetClear, GetTake, Tick

LEMMA FlagStep ==
  ASSUME FlagType, CloserType, [Next]_vars
  PROVE  FlagType' /\ CloserType'
<1> USE DEF FlagType, CloserType
<1>1. ASSUME NEW t \in Producers, PutAppend(t) \/ PutSort(t) \/ PutSet(t)
      PROVE  FlagType' /\ CloserType'
  BY <1>1, Zenon DEF PutAppend, PutSort, PutSet
<1>2. CASE UNCHANGED vars
  BY <1>2, Zenon DEF vars
<1>3. CASE CloseFlag \/ CloseSet
  BY <1>3, Zenon DEF CloseFlag, CloseSet
<1>4. CASE GetCall \/ GetCheck \/ GetWake \/ GetClear \/ GetTake \/ Tick
  BY <1>4, Zenon DEF GetCall, GetCheck, GetWake, GetClear, GetTake, Tick
<1> QED BY <1>1, <1>2, <1>3, <1>4, Zenon DEF Next

LEMMA PutterStep ==
  ASSUME PutterType, OneHoldsLock, [Next]_vars
  PROVE  PutterType' /\ OneHoldsLock'
<1>1. CASE UNCHANGED <<putter, lock>>
  BY <1>1, Zenon DEF PutterType, OneHoldsLock
<1>2. ASSUME NEW t \in Producers, PutAppend(t) PROVE PutterType' /\ OneHoldsLock'
  <2>1. ~lock /\ lock' = TRUE /\ putter' = [putter EXCEPT ![t] = "sort"]
    BY <1>2, Zenon DEF PutAppend
  <2>2. \A u \in Producers : u # t => putter'[u] = "idle"
    BY <2>1, Zenon DEF OneHoldsLock, PutterType
  <2>3. PutterType'
    BY <2>1 DEF PutterType, PutterPlaces
  <2> QED BY <2>1, <2>2, <2>3, Zenon DEF OneHoldsLock
<1>3. ASSUME NEW t \in Producers, PutSort(t) PROVE PutterType' /\ OneHoldsLock'
  <2>1. putter[t] = "sort" /\ lock' = lock /\ putter' = [putter EXCEPT ![t] = "set"]
    BY <1>3, Zenon DEF PutSort
  <2>2. putter[t] # "idle"
    BY <2>1
  <2>3. \A u \in Producers : u # t => putter'[u] = "idle"
    BY <2>1, <2>2, Zenon DEF OneHoldsLock, PutterType
  <2>4. PutterType'
    BY <2>1 DEF PutterType, PutterPlaces
  <2> QED BY <2>1, <2>2, <2>3, <2>4, Zenon DEF OneHoldsLock
<1>4. ASSUME NEW t \in Producers, PutSet(t) PROVE PutterType' /\ OneHoldsLock'
  <2>1. putter[t] = "set" /\ putter' = [putter EXCEPT ![t] = "idle"]
    BY <1>4, Zenon DEF PutSet
  <2>2. putter[t] # "idle"
    BY <2>1
  <2>3. \A u \in Producers : putter'[u] = "idle"
    BY <2>1, <2>2, Zenon DEF OneHoldsLock, PutterType
  <2>4. PutterType'
    BY <2>1 DEF PutterType, PutterPlaces
  <2> QED BY <2>3, <2>4, Zenon DEF OneHoldsLock
<1>5. UNCHANGED vars => UNCHANGED <<putter, lock>>
  BY Zenon DEF vars
<1> QED BY <1>1, <1>2, <1>3, <1>4, <1>5, Zenon
        DEF Next, CloseFlag, CloseSet, GetCall, GetCheck, GetWake, GetClear, GetTake, Tick

\* Whoever holds the lock to sort is the only one in put().
LEMMA NoneSorts ==
  ASSUME OneHoldsLock, PutterType
  PROVE  /\ ~lock => ~Sorting
         /\ \A t \in Producers : putter[t] = "set" => ~Sorting
<1>1. \A t \in Producers : putter[t] = "sort" => lock
  <2> TAKE t \in Producers
  <2>1. putter[t] = "sort" => putter[t] # "idle"
    OBVIOUS
  <2> QED BY <2>1, Zenon DEF OneHoldsLock
<1>2. ASSUME NEW t \in Producers, putter[t] = "set", NEW u \in Producers, putter[u] = "sort"
      PROVE  FALSE
  <2>1. putter[t] # "idle" /\ putter[u] # "idle"
    BY <1>2
  <2>2. t = u
    BY <2>1, Zenon DEF OneHoldsLock
  <2> QED BY <1>2, <2>2
<1> QED BY <1>1, <1>2, Zenon DEF Sorting

LEMMA ListedStep ==
  ASSUME QueueType, PutterType, OneHoldsLock, Listed, [Next]_vars
  PROVE  QueueType' /\ Listed'
<1> USE DEF QueueType
<1>1. CASE UNCHANGED <<putter, queue, puts>>
  BY <1>1, Zenon DEF Listed, Sorting
<1>2. ASSUME NEW t \in Producers, PutAppend(t) PROVE QueueType' /\ Listed'
  <2>1. PICK s \in Stamps : queue' = Append(queue, [id |-> puts + 1, stamp |-> s])
    BY <1>2, Zenon DEF PutAppend
  <2>2. ~lock /\ puts < MaxPuts /\ puts' = puts + 1 /\ putter' = [putter EXCEPT ![t] = "sort"]
    BY <1>2, Zenon DEF PutAppend
  <2> DEFINE x == [id |-> puts + 1, stamp |-> s]
             n == Len(queue)
  <2>3. x \in Item /\ x.id = puts + 1 /\ puts + 1 \in 0..MaxPuts
    BY <2>2, Numbers DEF Item
  <2>4. /\ \A i \in DOMAIN queue : queue[i].id <= puts
        /\ n <= puts /\ InOrder(queue)
    BY <2>2, NoneSorts, Zenon DEF Listed
  <2> HIDE DEF x
  <2>5. /\ queue' \in Seq(Item) /\ queue' # <<>> /\ Len(queue') = n + 1
        /\ DOMAIN queue' = 1..(n + 1) /\ DOMAIN queue = 1..n /\ n \in Nat
        /\ \A i \in 1..n : queue'[i] = queue[i]
        /\ queue'[n + 1] = x
    BY <2>1, <2>3, AppendProperties DEF x
  <2>6. QueueType'
    <3>1. puts \in Nat /\ puts' \in 0..MaxPuts
      BY <2>2, <2>3
    <3>2. n + 1 <= MaxPuts
      BY <2>2, <2>4, <2>5, <3>1, Numbers
    <3> QED BY <2>5, <3>1, <3>2
  <2>7. Appended(queue')
    <3>1. /\ Front(queue') \in Seq(Item) /\ Len(Front(queue')) = n
          /\ \A i \in 1..n : Front(queue')[i] = queue[i]
      <4>1. /\ Front(queue') \in Seq(Item) /\ Len(Front(queue')) = Len(queue') - 1
            /\ \A i \in 1..(Len(queue') - 1) : Front(queue')[i] = queue'[i]
        BY <2>5, FrontIs, Zenon
      <4>2. Len(queue') - 1 = n
        BY <2>5
      <4> HIDE DEF n
      <4>3. \A i \in 1..n : Front(queue')[i] = queue'[i]
        BY <4>1, <4>2, Zenon
      <4> QED BY <2>5, <4>1, <4>2, <4>3, Zenon
    <3>2. DOMAIN Front(queue') = 1..n
      BY <3>1, <2>5
    <3>3. InOrder(Front(queue'))
      BY <2>4, <2>5, <3>1, <3>2 DEF InOrder
    <3>4. \A i \in 1..n : queue[i].id \in Nat
      <4>1. \A i \in 1..n : queue[i] \in Item
        BY <2>5
      <4> QED BY <4>1, ItemIs
    <3>5. \A i \in 1..(Len(queue') - 1) : queue'[i].id < queue'[Len(queue')].id
      BY <2>3, <2>4, <2>5, <3>4
    <3> QED BY <2>5, <3>3, <3>5 DEF Appended
  <2>8. Sorting'
    <3>1. putter'[t] = "sort"
      BY <2>2 DEF PutterType
    <3> QED BY <3>1 DEF Sorting
  <2>9. \A i \in DOMAIN queue' : queue'[i].id <= puts'
    <3> TAKE i \in DOMAIN queue'
    <3>1. i \in 1..n \/ i = n + 1
      BY <2>5
    <3>2. CASE i \in 1..n
      <4>1. queue[i] \in Item /\ queue[i].id <= puts
        BY <3>2, <2>4, <2>5
      <4>2. queue[i].id \in Nat
        BY <4>1, ItemIs
      <4> QED BY <3>2, <4>1, <4>2, <2>2, <2>5
    <3>3. CASE i = n + 1
      BY <3>3, <2>2, <2>3, <2>5
    <3> QED BY <3>1, <3>2, <3>3
  <2>10. Len(queue') <= puts'
    BY <2>2, <2>4, <2>5
  <2> QED BY <2>6, <2>7, <2>8, <2>9, <2>10, Zenon DEF Listed
<1>3. ASSUME NEW t \in Producers, PutSort(t) PROVE QueueType' /\ Listed'
  <2>1. /\ putter[t] = "sort" /\ queue' = SortLast(queue) /\ puts' = puts
        /\ putter' = [putter EXCEPT ![t] = "set"]
    BY <1>3, Zenon DEF PutSort
  <2>2. Sorting
    BY <2>1, Zenon DEF Sorting
  <2>3. /\ Appended(queue) /\ Len(queue) <= puts
        /\ \A i \in DOMAIN queue : queue[i].id <= puts
    BY <2>2, Zenon DEF Listed
  <2>4. /\ queue' \in Seq(Item) /\ Len(queue') = Len(queue) /\ InOrder(queue')
        /\ {queue'[i] : i \in DOMAIN queue'} = {queue[i] : i \in DOMAIN queue}
    BY <2>1, <2>3, SortLastSorts
  <2>5. ~Sorting'
    <3>1. PutterType' /\ OneHoldsLock'
      BY PutterStep
    <3>2. putter'[t] = "set"
      BY <2>1 DEF PutterType
    <3>3. ASSUME NEW u \in Producers, putter'[u] = "sort" PROVE FALSE
      <4>1. putter'[u] # "idle" /\ putter'[t] # "idle"
        BY <3>2, <3>3
      <4>2. u = t
        BY <4>1, <3>1, Zenon DEF OneHoldsLock
      <4> QED BY <4>2, <3>2, <3>3
    <3> QED BY <3>3, Zenon DEF Sorting
  <2>6. \A i \in DOMAIN queue' : queue'[i].id <= puts'
    <3> TAKE i \in DOMAIN queue'
    <3>1. queue'[i] \in {queue[j] : j \in DOMAIN queue}
      BY <2>4
    <3> QED BY <3>1, <2>1, <2>3
  <2> QED BY <2>1, <2>3, <2>4, <2>5, <2>6, Zenon DEF Listed
<1>4. ASSUME NEW t \in Producers, PutSet(t) PROVE QueueType' /\ Listed'
  <2>1. /\ putter[t] = "set" /\ UNCHANGED <<queue, puts>>
        /\ putter' = [putter EXCEPT ![t] = "idle"]
    BY <1>4, Zenon DEF PutSet
  <2>2. ~Sorting
    BY <2>1, NoneSorts, Zenon
  <2>3. ~Sorting'
    BY <2>1, <2>2 DEF Sorting, PutterType
  <2> QED BY <2>1, <2>2, <2>3, Zenon DEF Listed
<1>5. CASE GetTake
  <2>1. /\ ~lock /\ UNCHANGED <<putter, puts>>
        /\ queue' = queue \/ (queue # <<>> /\ queue' = Tail(queue))
    BY <1>5, Zenon DEF GetTake
  <2>2. CASE queue' = queue
    BY <2>1, <2>2, Zenon DEF Listed, Sorting
  <2>3. CASE queue # <<>> /\ queue' = Tail(queue)
    <3> DEFINE n == Len(queue)
    <3>1. /\ queue' \in Seq(Item) /\ Len(queue') = n - 1 /\ n \in Nat /\ n > 0
          /\ DOMAIN queue' = 1..(n - 1) /\ DOMAIN queue = 1..n
          /\ \A i \in 1..(n - 1) : queue'[i] = queue[i + 1]
      BY <2>3, HeadTailProperties
    <3>2. /\ ~Sorting /\ InOrder(queue) /\ n <= puts
          /\ \A i \in DOMAIN queue : queue[i].id <= puts
      BY <2>1, NoneSorts, Zenon DEF Listed
    <3>3. ~Sorting'
      BY <2>1, <3>2, Zenon DEF Sorting
    <3>4. InOrder(queue')
      <4>1. ASSUME NEW i \in DOMAIN queue', NEW j \in DOMAIN queue', i < j
            PROVE  Precedes(queue'[i], queue'[j])
        <5>1. /\ i + 1 \in DOMAIN queue /\ j + 1 \in DOMAIN queue /\ i + 1 < j + 1
              /\ queue'[i] = queue[i + 1] /\ queue'[j] = queue[j + 1]
          BY <4>1, <3>1
        <5>2. Precedes(queue[i + 1], queue[j + 1])
          BY <5>1, <3>2 DEF InOrder
        <5> QED BY <5>1, <5>2
      <4> QED BY <4>1 DEF InOrder
    <3>5. \A i \in DOMAIN queue' : queue'[i].id <= puts'
      BY <3>1, <3>2, <2>1
    <3>6. Len(queue') <= puts' /\ QueueType'
      <4>1. puts' = puts /\ puts \in 0..MaxPuts /\ n <= MaxPuts
        BY <2>1
      <4>2. n - 1 <= puts /\ n - 1 <= MaxPuts
        BY <4>1, <3>1, <3>2, Numbers
      <4> QED BY <4>1, <4>2, <3>1
    <3> QED BY <3>3, <3>4, <3>5, <3>6, Zenon DEF Listed
  <2> QED BY <2>1, <2>2, <2>3
<1> QED BY <1>1, <1>2, <1>3, <1>4, <1>5, Changes, Zenon

-----------------------------------------------------------------------------
(* get().                                                                  *)

\* A getter that only moves on keeps its local variables.
LEMMA GetterGoes ==
  ASSUME GetterType, NEW at \in GetterPlaces, getter' = [getter EXCEPT !.at = at]
  PROVE  /\ GetterType' /\ getter'.at = at
         /\ getter'.start = getter.start /\ getter'.seen = getter.seen
         /\ getter'.timeout = getter.timeout
<1> DEFINE T == Timeouts \cup {NoTimeout}
           N == 0..MaxNow
<1>1. getter \in [at : GetterPlaces, start : N, seen : N, timeout : T, slept : N, wake : Nat]
  BY Zenon DEF GetterType, Getter
<1> HIDE DEF T, N, GetterPlaces
<1>2. getter' \in [at : GetterPlaces, start : N, seen : N, timeout : T, slept : N, wake : Nat]
  BY <1>1
<1>3. /\ getter'.at = at
      /\ getter'.start = getter.start /\ getter'.seen = getter.seen
      /\ getter'.timeout = getter.timeout
  BY <1>1
<1> QED BY <1>2, <1>3, Zenon DEF GetterType, Getter, T, N

LEMMA GetterIs ==
  ASSUME GetterType
  PROVE  /\ getter.at \in GetterPlaces
         /\ getter.start \in 0..MaxNow /\ getter.seen \in 0..MaxNow
         /\ getter.timeout # NoTimeout => getter.timeout \in Nat
<1> DEFINE T == Timeouts \cup {NoTimeout}
           N == 0..MaxNow
<1>1. getter \in [at : GetterPlaces, start : N, seen : N, timeout : T, slept : N, wake : Nat]
  BY Zenon DEF GetterType, Getter
<1>2. getter.at \in GetterPlaces /\ getter.start \in N /\ getter.seen \in N /\ getter.timeout \in T
  <2> HIDE DEF T, N, GetterPlaces
  <2> QED BY <1>1
<1>3. getter.timeout # NoTimeout => getter.timeout \in Nat
  BY <1>2, TimeoutIs
<1> QED BY <1>2, <1>3

\* get() never sleeps for less than no time.
LEMMA SleepIs ==
  ASSUME QueueType, GetterType, Clocked, getter.at = "check"
  PROVE  Sleep \in Nat
<1> DEFINE internal == IF queue # <<>> THEN Greater(0, queue[1].stamp - getter.seen) ELSE IdleWait
           external == getter.timeout - (getter.seen - getter.start)
<1>1. getter.seen \in Nat /\ getter.start \in Nat
  BY GetterIs, Numbers
<1>2. internal \in Nat
  <2>1. CASE queue = <<>>
    BY <2>1, Numbers
  <2>2. CASE queue # <<>>
    <3>1. queue[1] \in Item
      BY <2>2 DEF QueueType
    <3>2. queue[1].stamp \in Int
      BY <3>1, ItemIs
    <3> QED BY <3>2, <2>2, <1>1 DEF Greater
  <2> QED BY <2>1, <2>2
<1>3. getter.timeout # NoTimeout => external \in Nat
  <2>1. ASSUME getter.timeout # NoTimeout PROVE external \in Nat
    <3>1. getter.timeout \in Nat /\ getter.seen - getter.start <= getter.timeout
      BY <2>1, GetterIs DEF Clocked
    <3> QED BY <3>1, <1>1
  <2> QED BY <2>1
<1>4. Sleep = IF getter.timeout = NoTimeout THEN internal ELSE Smaller(external, internal)
  BY DEF Sleep
<1> HIDE DEF internal, external
<1>5. CASE getter.timeout = NoTimeout
  BY <1>2, <1>4, <1>5
<1>6. CASE getter.timeout # NoTimeout
  BY <1>2, <1>3, <1>4, <1>6 DEF Smaller
<1> QED BY <1>5, <1>6

LEMMA NowStep ==
  ASSUME NowType, [Next]_vars
  PROVE  NowType' /\ now <= now'
<1>1. now \in 0..MaxNow /\ MaxNow \in Nat
  BY Numbers DEF NowType
<1>2. CASE now' = now
  BY <1>1, <1>2 DEF NowType
<1>3. CASE Tick
  BY <1>1, <1>3 DEF NowType, Tick
<1> QED BY <1>2, <1>3, Changes

LEMMA GetterStep ==
  ASSUME QueueType, GetterType, NowType, AnswerType, Clocked, [Next]_vars
  PROVE  GetterType' /\ AnswerType' /\ Clocked'
<1> DEFINE T == Timeouts \cup {NoTimeout}
           N == 0..MaxNow
           R == [at : GetterPlaces, start : N, seen : N, timeout : T, slept : N, wake : Nat]
<1>1. now \in N /\ now' \in N /\ now <= now' /\ now \in Nat /\ now' \in Nat
  BY NowStep, Numbers DEF NowType
<1>2. getter \in R
  BY Zenon DEF GetterType, Getter
<1>3. {"out", "check", "wait", "clear", "take"} \subseteq GetterPlaces
  BY DEF GetterPlaces
<1>4. getter.start \in Nat /\ getter.seen \in Nat /\ getter.start <= getter.seen /\ getter.seen <= now
  BY GetterIs, Numbers DEF Clocked
<1>5. ASSUME NEW at \in GetterPlaces \ {"check"}, getter' = [getter EXCEPT !.at = at]
      PROVE  GetterType' /\ Clocked'
  <2>1. /\ GetterType' /\ getter'.at = at
        /\ getter'.start = getter.start /\ getter'.seen = getter.seen
        /\ getter'.timeout = getter.timeout
    BY <1>5, GetterGoes
  <2>2. getter'.start <= getter'.seen /\ getter'.seen <= now'
    BY <2>1, <1>1, <1>4
  <2>3. getter'.at # "check"
    BY <2>1, <1>5
  <2> QED BY <2>1, <2>2, <2>3, Zenon DEF Clocked
<1>6. CASE UNCHANGED <<getter, answer>>
  <2>1. getter'.start <= getter'.seen /\ getter'.seen <= now'
    BY <1>6, <1>1, <1>4
  <2>2. getter'.at = "check" /\ getter'.timeout # NoTimeout
          => getter'.seen - getter'.start <= getter'.timeout
    BY <1>6, Zenon DEF Clocked
  <2> QED BY <1>6, <2>1, <2>2, Zenon DEF Clocked, GetterType, AnswerType
<1>7. CASE GetCall
  <2>1. PICK t \in Timeouts :
          getter' = [at |-> "check", start |-> now, seen |-> now, timeout |-> t,
                     slept |-> now, wake |-> now]
    BY <1>7, Zenon DEF GetCall
  <2>2. answer' = answer
    BY <1>7, Zenon DEF GetCall
  <2>3. t \in T
    OBVIOUS
  <2>4. getter' \in R
    <3> HIDE DEF T, N
    <3> QED BY <2>1, <2>3, <1>1, <1>3
  <2>5. getter'.start = now /\ getter'.seen = now /\ getter'.timeout = t
    BY <2>1
  <2>6. t # NoTimeout => now - now <= t
    BY <2>3, <1>1, TimeoutIs
  <2>7. getter'.start <= getter'.seen /\ getter'.seen <= now'
    BY <2>5, <1>1
  <2>8. getter'.timeout # NoTimeout => getter'.seen - getter'.start <= getter'.timeout
    BY <2>5, <2>6
  <2> QED BY <2>2, <2>4, <2>7, <2>8, Zenon DEF Clocked, GetterType, Getter, AnswerType
<1>8. CASE GetCheck
  <2>1. getter.at = "check"
    BY <1>8, Zenon DEF GetCheck
  <2>2. CASE queue = <<>> /\ closed
    <3>1. answer' = None /\ getter' = [getter EXCEPT !.at = "out"]
      BY <1>8, <2>2, Zenon DEF GetCheck, Return
    <3>2. GetterType' /\ Clocked'
      BY <3>1, <1>3, <1>5
    <3> QED BY <3>1, <3>2, Zenon DEF AnswerType
  <2>3. CASE ~(queue = <<>> /\ closed)
    <3> DEFINE w == now + Sleep
    <3>1. /\ getter' = [getter EXCEPT !.at = "wait", !.slept = now, !.wake = w]
          /\ answer' = answer
      BY <1>8, <2>3, Zenon DEF GetCheck
    <3>2. w \in Nat
      <4>1. Sleep \in Nat
        BY <2>1, SleepIs
      <4> QED BY <4>1, <1>1
    <3> HIDE DEF w
    <3>3. getter' \in R /\ getter'.start = getter.start /\ getter'.seen = getter.seen
          /\ getter'.at = "wait"
      <4> HIDE DEF T, N
      <4> QED BY <3>1, <3>2, <1>1, <1>2, <1>3
    <3>4. getter'.start <= getter'.seen /\ getter'.seen <= now'
      BY <3>3, <1>1, <1>4
    <3>5. getter'.at # "check"
      BY <3>3
    <3> QED BY <3>1, <3>3, <3>4, <3>5, Zenon DEF Clocked, GetterType, Getter, AnswerType
  <2> QED BY <2>2, <2>3
<1>9. CASE GetWake
  <2>1. answer' = answer /\ getter' = [getter EXCEPT !.at = "clear"]
    BY <1>9, Zenon DEF GetWake
  <2>2. GetterType' /\ Clocked'
    BY <2>1, <1>3, <1>5
  <2> QED BY <2>1, <2>2, Zenon DEF AnswerType
<1>10. CASE GetClear
  <2>1. answer' = answer /\ getter' = [getter EXCEPT !.at = "take", !.seen = now]
    BY <1>10, Zenon DEF GetClear
  <2>2. getter' \in R /\ getter'.start = getter.start /\ getter'.seen = now /\ getter'.at = "take"
    <3> HIDE DEF T, N
    <3> QED BY <2>1, <1>1, <1>2, <1>3
  <2>3. getter'.start <= getter'.seen /\ getter'.seen <= now'
    BY <2>2, <1>1, <1>4
  <2>4. getter'.at # "check"
    BY <2>2
  <2> QED BY <2>1, <2>2, <2>3, <2>4, Zenon DEF Clocked, GetterType, Getter, AnswerType
<1>11. CASE GetTake
  <2>1. CASE queue # <<>> /\ queue[1].stamp < getter.seen
    <3>1. answer' = Answered(queue[1]) /\ getter' = [getter EXCEPT !.at = "out"]
      BY <1>11, <2>1, Zenon DEF GetTake, Return
    <3>2. GetterType' /\ Clocked'
      BY <3>1, <1>3, <1>5
    <3>3. queue[1] \in Item
      BY <2>1 DEF QueueType
    <3> QED BY <3>1, <3>2, <3>3, Zenon DEF AnswerType
  <2>2. CASE ~(queue # <<>> /\ queue[1].stamp < getter.seen)
    <3>1. CASE getter.timeout # NoTimeout /\ getter.seen - getter.start >= getter.timeout
      <4>1. answer' = TimedOut /\ getter' = [getter EXCEPT !.at = "out"]
        BY <1>11, <2>2, <3>1, Zenon DEF GetTake, Return
      <4>2. GetterType' /\ Clocked'
        BY <4>1, <1>3, <1>5
      <4> QED BY <4>1, <4>2, Zenon DEF AnswerType
    <3>2. CASE ~(getter.timeout # NoTimeout /\ getter.seen - getter.start >= getter.timeout)
      <4>1. answer' = answer /\ getter' = [getter EXCEPT !.at = "check"]
        BY <1>11, <2>2, <3>2, Zenon DEF GetTake
      <4>2. /\ GetterType' /\ getter'.start = getter.start /\ getter'.seen = getter.seen
            /\ getter'.timeout = getter.timeout
        BY <4>1, <1>3, GetterGoes
      <4>3. getter'.start <= getter'.seen /\ getter'.seen <= now'
        BY <4>2, <1>1, <1>4
      <4>4. ASSUME getter'.timeout # NoTimeout
            PROVE  getter'.seen - getter'.start <= getter'.timeout
        <5>1. getter.timeout \in Nat
          BY <4>2, <4>4, GetterIs
        <5> QED BY <5>1, <4>2, <4>4, <3>2, <1>4
      <4> QED BY <4>1, <4>2, <4>3, <4>4, Zenon DEF Clocked, AnswerType
    <3> QED BY <3>1, <3>2
  <2> QED BY <2>1, <2>2
<1> QED BY <1>6, <1>7, <1>8, <1>9, <1>10, <1>11, Changes, Zenon

-----------------------------------------------------------------------------
(* The invariant.                                                          *)

LEMMA InitInvariant == Init => IInv
<1> SUFFICES ASSUME Init PROVE IInv
  OBVIOUS
<1> USE DEF Init
<1>1. QueueType
  BY Numbers DEF QueueType
<1>2. FlagType /\ CloserType
  BY Zenon DEF FlagType, CloserType
<1>3. PutterType
  BY DEF PutterType, PutterPlaces
<1>4. AnswerType
  BY Zenon DEF AnswerType
<1>5. NowType /\ 0 \in 0..MaxNow
  BY Numbers DEF NowType
<1>6. GetterType
  <2> DEFINE T == Timeouts \cup {NoTimeout}
             N == 0..MaxNow
  <2>1. NoTimeout \in T /\ 0 \in N /\ "out" \in GetterPlaces
    BY <1>5 DEF GetterPlaces
  <2> HIDE DEF T, N
  <2>2. getter \in [at : GetterPlaces, start : N, seen : N, timeout : T, slept : N, wake : Nat]
    BY <2>1
  <2> QED BY <2>2, Zenon DEF GetterType, Getter, T, N
<1>7. \A t \in Producers : putter[t] = "idle"
  BY Zenon
<1>8. OneHoldsLock
  BY <1>7, Zenon DEF OneHoldsLock
<1>9. ~Sorting
  BY <1>7 DEF Sorting
<1>10. Listed
  <2>1. DOMAIN queue = {} /\ Len(queue) <= puts
    OBVIOUS
  <2> QED BY <2>1, <1>9, Zenon DEF Listed, InOrder
<1>11. Clocked
  <2>1. getter.start <= getter.seen /\ getter.seen <= now /\ getter.at # "check"
    OBVIOUS
  <2> QED BY <2>1, Zenon DEF Clocked
<1> QED BY <1>1, <1>2, <1>3, <1>4, <1>5, <1>6, <1>8, <1>10, <1>11, TypeParts, Zenon DEF IInv

LEMMA StepInvariant == IInv /\ [Next]_vars => IInv'
<1> SUFFICES ASSUME IInv, [Next]_vars PROVE IInv'
  OBVIOUS
<1>1. /\ QueueType /\ FlagType /\ PutterType /\ CloserType /\ GetterType
      /\ AnswerType /\ NowType /\ OneHoldsLock /\ Listed /\ Clocked
  BY TypeParts, Zenon DEF IInv
<1>2. /\ QueueType' /\ FlagType' /\ PutterType' /\ CloserType' /\ GetterType'
      /\ AnswerType' /\ NowType' /\ OneHoldsLock' /\ Listed' /\ Clocked'
  BY <1>1, ListedStep, FlagStep, PutterStep, GetterStep, NowStep, Zenon
<1>3. TypeOK'
  BY <1>2, Zenon DEF TypeOK, QueueType, FlagType, PutterType, CloserType, GetterType,
     AnswerType, NowType, Getter, PutterPlaces, GetterPlaces
<1> QED BY <1>2, <1>3, Zenon DEF IInv

\* Every state of every run is as IInv says.
THEOREM InvariantHolds == Spec => []IInv
BY InitInvariant, StepInvariant, PTL DEF Spec

\* The variables keep their types; above all get() never sleeps until a time before its
\* clock began, however late it looks at the clock.
THEOREM TypesHold == Spec => []TypeOK
<1>1. IInv => TypeOK
  BY Zenon DEF IInv
<1> QED BY <1>1, InvariantHolds, PTL

-----------------------------------------------------------------------------
(* The contract.                                                           *)

Contents == {queue[i] : i \in DOMAIN queue}
Request == IF getter.at = "out" THEN <<>>
           ELSE <<[start |-> getter.start, timeout |-> getter.timeout]>>

\* What the users of the queue see of its state.
Seen == <<Contents, puts, closed, Request, answer, now>>

LEMMA SeenIs == Contract!vars = Seen
BY DEF Contract!vars, Seen, Contents, Request

LEMMA InitContract == Init => Contract!Init
<1> SUFFICES ASSUME Init PROVE Contract!Init
  OBVIOUS
<1>1. Contents = {} /\ Request = <<>>
  BY DEF Init, Contents, Request
<1> QED BY <1>1, Zenon DEF Init, Contract!Init, Contract!NoAnswer, NoAnswer, Contents, Request

\* A request stays as it was asked while get() goes on.
LEMMA RequestStays ==
  ASSUME GetterType, getter.at # "out", getter'.at # "out",
         getter'.start = getter.start, getter'.timeout = getter.timeout
  PROVE  Request' = Request
BY Zenon DEF Request

LEMMA PutImplements ==
  ASSUME IInv, NEW t \in Producers, PutAppend(t)
  PROVE  Contract!Put
<1>1. PICK s \in Stamps : queue' = Append(queue, [id |-> puts + 1, stamp |-> s])
  BY Zenon DEF PutAppend
<1>2. /\ puts < MaxPuts /\ puts' = puts + 1 /\ UNCHANGED <<closed, getter, answer, now>>
  BY Zenon DEF PutAppend
<1> DEFINE x == [id |-> puts + 1, stamp |-> s]
           n == Len(queue)
<1>3. queue \in Seq(Item)
  BY Zenon DEF IInv, TypeOK
<1>4. Contents' = Contents \cup {x}
  <2>1. x \in Item
    <3>1. puts + 1 \in 1..MaxPuts
      BY <1>2, Numbers DEF IInv, TypeOK
    <3> QED BY <3>1 DEF Item
  <2> HIDE DEF x
  <2>2. /\ DOMAIN queue' = 1..(n + 1) /\ DOMAIN queue = 1..n /\ n \in Nat
        /\ \A i \in 1..n : queue'[i] = queue[i]
        /\ queue'[n + 1] = x
    BY <1>1, <1>3, <2>1, AppendProperties DEF x
  <2>3. 1..(n + 1) = 1..n \cup {n + 1}
    BY <2>2
  <2> HIDE DEF n
  <2> QED BY <2>2, <2>3 DEF Contents
<1>5. Request' = Request
  BY <1>2, Zenon DEF Request
<1>6. \E r \in Stamps : Contents' = Contents \cup {[id |-> puts + 1, stamp |-> r]}
  BY <1>4, Zenon
<1> QED BY <1>2, <1>5, <1>6, Zenon DEF Contract!Put, Contents, Request

LEMMA SortStutters ==
  ASSUME IInv, NEW t \in Producers, PutSort(t)
  PROVE  UNCHANGED Seen
<1>1. /\ putter[t] = "sort" /\ queue' = SortLast(queue)
      /\ UNCHANGED <<puts, closed, getter, answer, now>>
  BY Zenon DEF PutSort
<1>2. Appended(queue) /\ queue \in Seq(Item)
  BY <1>1, Zenon DEF Sorting, IInv, Listed, TypeOK
<1>3. Contents' = Contents
  <2>1. {SortLast(queue)[i] : i \in DOMAIN SortLast(queue)} = {queue[i] : i \in DOMAIN queue}
    BY <1>2, SortLastSorts
  <2> QED BY <1>1, <2>1, Zenon DEF Contents
<1>4. Request' = Request
  BY <1>1, Zenon DEF Request
<1> QED BY <1>1, <1>3, <1>4, Zenon DEF Seen

LEMMA OthersStutter ==
  ASSUME IInv
  PROVE  /\ \A t \in Producers : PutSet(t) => UNCHANGED Seen
         /\ CloseSet \/ GetWake \/ GetClear \/ UNCHANGED vars => UNCHANGED Seen
<1>1. GetterType
  BY TypeParts, Zenon DEF IInv
<1>2. UNCHANGED <<queue, puts, closed, getter, answer, now>> => UNCHANGED Seen
  BY Zenon DEF Seen, Contents, Request
<1>3. ASSUME NEW t \in Producers, PutSet(t) PROVE UNCHANGED Seen
  BY <1>2, <1>3, Zenon DEF PutSet
<1>4. CASE CloseSet
  BY <1>2, <1>4, Zenon DEF CloseSet
<1>5. CASE UNCHANGED vars
  BY <1>2, <1>5, Zenon DEF vars
<1>6. UNCHANGED <<queue, puts, closed, answer, now>> /\ Request' = Request => UNCHANGED Seen
  BY Zenon DEF Seen, Contents
<1>7. CASE GetWake
  <2>1. /\ getter.at = "wait" /\ getter' = [getter EXCEPT !.at = "clear"]
        /\ UNCHANGED <<queue, puts, closed, answer, now>>
    BY <1>7, Zenon DEF GetWake
  <2>2. /\ getter'.at = "clear" /\ getter'.start = getter.start
        /\ getter'.timeout = getter.timeout
    BY <2>1, <1>1, GetterGoes DEF GetterPlaces
  <2>3. getter.at # "out" /\ getter'.at # "out"
    BY <2>1, <2>2
  <2> QED BY <2>1, <2>2, <2>3, <1>1, <1>6, RequestStays, Zenon
<1>8. CASE GetClear
  <2>1. /\ getter.at = "clear" /\ getter' = [getter EXCEPT !.at = "take", !.seen = now]
        /\ UNCHANGED <<queue, puts, closed, answer, now>>
    BY <1>8, Zenon DEF GetClear
  <2>2. /\ getter'.at = "take" /\ getter'.start = getter.start
        /\ getter'.timeout = getter.timeout
    <3> DEFINE T == Timeouts \cup {NoTimeout}
               N == 0..MaxNow
    <3>1. getter \in [at : GetterPlaces, start : N, seen : N, timeout : T, slept : N, wake : Nat]
      BY <1>1, Zenon DEF GetterType, Getter
    <3> HIDE DEF T, N
    <3> QED BY <2>1, <3>1
  <2>3. getter.at # "out" /\ getter'.at # "out"
    BY <2>1, <2>2
  <2> QED BY <2>1, <2>2, <2>3, <1>1, <1>6, RequestStays, Zenon
<1> QED BY <1>3, <1>4, <1>5, <1>7, <1>8, Zenon

\* A call of get() is a request.
LEMMA CallImplements ==
  ASSUME IInv, GetCall
  PROVE  Contract!Ask
<1>1. PICK t \in Timeouts :
        getter' = [at |-> "check", start |-> now, seen |-> now, timeout |-> t,
                   slept |-> now, wake |-> now]
  BY Zenon DEF GetCall
<1>2. getter.at = "out" /\ UNCHANGED <<queue, puts, closed, answer, now>>
  BY Zenon DEF GetCall
<1>3. Request = <<>> /\ Contents' = Contents
  BY <1>2, Zenon DEF Request, Contents
<1>4. getter'.at = "check" /\ getter'.start = now /\ getter'.timeout = t
  BY <1>1
<1>5. getter'.at # "out"
  BY <1>4
<1>6. Request' = <<[start |-> now, timeout |-> t]>>
  BY <1>4, <1>5, Zenon DEF Request
<1>7. \E u \in Timeouts : Request' = <<[start |-> now, timeout |-> u]>>
  BY <1>6, Zenon
<1> QED BY <1>2, <1>3, <1>7, Zenon DEF Contract!Ask, Request, Contents

\* The end is told of when the queue is closed and empty.
LEMMA CheckImplements ==
  ASSUME IInv, GetCheck
  PROVE  Contract!AnswerClosed \/ UNCHANGED Seen
<1>1. GetterType
  BY TypeParts, Zenon DEF IInv
<1>2. getter.at = "check" /\ UNCHANGED <<queue, puts, closed, now>>
  BY Zenon DEF GetCheck
<1>3. Request = <<[start |-> getter.start, timeout |-> getter.timeout]>>
  BY <1>2 DEF Request
<1>4. CASE queue = <<>> /\ closed
  <2>1. answer' = None /\ getter' = [getter EXCEPT !.at = "out"]
    BY <1>4, Zenon DEF GetCheck, Return
  <2>2. getter'.at = "out"
    BY <2>1, <1>1, GetterGoes DEF GetterPlaces
  <2>3. Request' = <<>> /\ Request # <<>>
    BY <2>2, <1>3 DEF Request
  <2>4. Contents = {} /\ Contents' = Contents
    BY <1>2, <1>4 DEF Contents
  <2> QED BY <1>2, <1>4, <2>1, <2>3, <2>4, Zenon
          DEF Contract!AnswerClosed, Contract!Closed, None, Request, Contents
<1>5. CASE ~(queue = <<>> /\ closed)
  <2> DEFINE w == now + Sleep
  <2>1. /\ getter' = [getter EXCEPT !.at = "wait", !.slept = now, !.wake = w]
        /\ answer' = answer
    BY <1>5, Zenon DEF GetCheck
  <2> HIDE DEF w
  <2>2. getter'.at = "wait" /\ getter'.start = getter.start /\ getter'.timeout = getter.timeout
    <3> DEFINE T == Timeouts \cup {NoTimeout}
               N == 0..MaxNow
    <3>1. getter \in [at : GetterPlaces, start : N, seen : N, timeout : T, slept : N, wake : Nat]
      BY <1>1, Zenon DEF GetterType, Getter
    <3> HIDE DEF T, N
    <3> QED BY <2>1, <3>1
  <2>3. getter.at # "out" /\ getter'.at # "out"
    BY <1>2, <2>2
  <2>4. Request' = Request
    BY <2>2, <2>3, <1>1, RequestStays
  <2> QED BY <1>2, <2>1, <2>4, Zenon DEF Seen, Contents
<1> QED BY <1>4, <1>5

\* The first item of the list is the one to leave; and if it is not due when the timeout
\* is over, none was.
LEMMA TakeImplements ==
  ASSUME IInv, GetTake
  PROVE  Contract!AnswerItem \/ Contract!AnswerTimedOut \/ UNCHANGED Seen
<1>1. GetterType /\ QueueType /\ PutterType /\ OneHoldsLock /\ Listed /\ Clocked /\ NowType
  BY TypeParts, Zenon DEF IInv
<1>2. getter.at = "take" /\ ~lock /\ UNCHANGED <<puts, closed, now>>
  BY Zenon DEF GetTake
<1>3. Request = <<[start |-> getter.start, timeout |-> getter.timeout]>>
  BY <1>2 DEF Request
<1>4. InOrder(queue) /\ queue \in Seq(Item)
  BY <1>1, <1>2, NoneSorts, Zenon DEF Listed, QueueType
<1> DEFINE n == Len(queue)
<1>5. n \in Nat /\ DOMAIN queue = 1..n /\ \A i \in 1..n : queue[i] \in Item
  BY <1>4
<1>6. /\ getter.start \in Nat /\ getter.seen \in Nat /\ now \in Nat
      /\ getter.start <= getter.seen /\ getter.seen <= now
  BY <1>1, GetterIs, Numbers DEF Clocked, NowType
<1>7. CASE queue # <<>> /\ queue[1].stamp < getter.seen
  <2> DEFINE x == queue[1]
  <2>1. /\ queue' = Tail(queue) /\ answer' = Answered(x)
        /\ getter' = [getter EXCEPT !.at = "out"]
    BY <1>7, Zenon DEF GetTake, Return
  <2>2. getter'.at = "out"
    BY <2>1, <1>1, GetterGoes DEF GetterPlaces
  <2>3. Request' = <<>> /\ Request # <<>>
    BY <2>2, <1>3 DEF Request
  <2>4. n >= 1 /\ 1 \in 1..n
    BY <1>5, <1>7, <1>4, EmptySeq
  <2>5. x \in Item /\ x \in Contents
    BY <1>5, <2>4 DEF Contents
  <2>6. x.stamp < now
    BY <2>5, <1>6, <1>7, ItemIs
  <2>7. \A i \in 2..n : Precedes(x, queue[i]) /\ queue[i] # x
    <3> TAKE i \in 2..n
    <3>1. i \in 1..n /\ 1 < i
      BY <1>5
    <3>2. Precedes(x, queue[i])
      BY <3>1, <2>4, <1>4, <1>5 DEF InOrder
    <3>3. x.stamp \in Int /\ x.id \in Nat
      BY <2>5, ItemIs
    <3> QED BY <3>2, <3>3 DEF Precedes
  <2>8. \A y \in Contents \ {x} : Precedes(x, y)
    <3> TAKE y \in Contents \ {x}
    <3>1. PICK i \in 1..n : y = queue[i]
      BY <1>5 DEF Contents
    <3>2. i \in 2..n
      BY <3>1, <2>4, <1>5
    <3> QED BY <3>1, <3>2, <2>7
  <2>9. Contents' = Contents \ {x}
    <3>1. /\ DOMAIN queue' = 1..(n - 1)
          /\ \A i \in 1..(n - 1) : queue'[i] = queue[i + 1]
      BY <2>1, <1>4, <1>7, HeadTailProperties, LenProperties
    <3>2. ASSUME NEW y \in Contents' PROVE y \in Contents \ {x}
      <4>1. PICK i \in 1..(n - 1) : y = queue'[i]
        BY <3>1 DEF Contents
      <4>2. y = queue[i + 1] /\ i + 1 \in 1..n /\ i + 1 \in 2..n
        BY <4>1, <3>1, <1>5
      <4>3. y \in Contents
        BY <4>2, <1>5 DEF Contents
      <4> QED BY <4>2, <4>3, <2>7
    <3>3. ASSUME NEW y \in Contents \ {x} PROVE y \in Contents'
      <4>1. PICK i \in 1..n : y = queue[i]
        BY <1>5 DEF Contents
      <4>2. i # 1
        BY <4>1
      <4>3. i - 1 \in 1..(n - 1) /\ (i - 1) + 1 = i
        BY <4>1, <4>2, <1>5
      <4>4. y = queue'[i - 1] /\ i - 1 \in DOMAIN queue'
        BY <4>1, <4>3, <3>1
      <4> QED BY <4>4 DEF Contents
    <3> QED BY <3>2, <3>3, Zenon
  <2> HIDE DEF x
  <2>10. /\ \A y \in Contents \ {x} : Contract!Before(x, y)
         /\ answer' = Contract!Answered(x)
    BY <2>1, <2>8, Zenon DEF Precedes, Contract!Before, Contract!Answered, Answered, x
  <2>11. Contract!AnswerItem
    BY <1>2, <2>3, <2>5, <2>6, <2>9, <2>10, Zenon DEF Contract!AnswerItem, Request, Contents
  <2> QED BY <2>11
<1>8. CASE /\ ~(queue # <<>> /\ queue[1].stamp < getter.seen)
           /\ getter.timeout # NoTimeout /\ getter.seen - getter.start >= getter.timeout
  <2>1. answer' = TimedOut /\ queue' = queue /\ getter' = [getter EXCEPT !.at = "out"]
    BY <1>8, Zenon DEF GetTake, Return
  <2>2. getter'.at = "out"
    BY <2>1, <1>1, GetterGoes DEF GetterPlaces
  <2>3. Request' = <<>> /\ Request # <<>>
    BY <2>2, <1>3 DEF Request
  <2>4. getter.timeout \in Nat
    BY <1>1, <1>8, GetterIs
  <2> DEFINE d == getter.start + getter.timeout
  <2>5. now >= d /\ getter.seen >= d /\ d \in Nat
    BY <2>4, <1>6, <1>8
  <2>6. \A y \in Contents : y.stamp >= d
    <3> TAKE y \in Contents
    <3>1. PICK i \in 1..n : y = queue[i]
      BY <1>5 DEF Contents
    <3>2. 1 \in 1..n /\ queue # <<>>
      BY <3>1, <1>5
    <3>3. queue[1].stamp >= getter.seen /\ queue[1].stamp \in Int /\ y.stamp \in Int
      BY <3>1, <3>2, <1>5, <1>6, <1>8, ItemIs
    <3>4. i = 1 \/ Precedes(queue[1], queue[i])
      BY <3>1, <3>2, <1>4, <1>5 DEF InOrder
    <3>5. y.stamp >= queue[1].stamp
      BY <3>1, <3>3, <3>4 DEF Precedes
    <3> QED BY <3>3, <3>5, <2>5, <1>6
  <2>7. Request[1].start = getter.start /\ Request[1].timeout = getter.timeout
    BY <1>3
  <2>8. /\ Request[1].timeout # NoTimeout
        /\ now >= Request[1].start + Request[1].timeout
        /\ \A y \in Contents : y.stamp >= Request[1].start + Request[1].timeout
    BY <2>5, <2>6, <2>7, <1>8
  <2>9. Contents' = Contents
    BY <2>1, Zenon DEF Contents
  <2>10. Contract!AnswerTimedOut
    BY <1>2, <2>1, <2>3, <2>8, <2>9, Zenon
       DEF Contract!AnswerTimedOut, Contract!TimedOut, TimedOut, Request, Contents
  <2> QED BY <2>10
<1>9. CASE /\ ~(queue # <<>> /\ queue[1].stamp < getter.seen)
           /\ ~(getter.timeout # NoTimeout /\ getter.seen - getter.start >= getter.timeout)
  <2>1. answer' = answer /\ queue' = queue /\ getter' = [getter EXCEPT !.at = "check"]
    BY <1>9, Zenon DEF GetTake
  <2>2. getter'.at = "check" /\ getter'.start = getter.start /\ getter'.timeout = getter.timeout
    BY <2>1, <1>1, GetterGoes DEF GetterPlaces
  <2>3. getter.at # "out" /\ getter'.at # "out"
    BY <1>2, <2>2
  <2>4. Request' = Request
    BY <2>2, <2>3, <1>1, RequestStays
  <2> QED BY <1>2, <2>1, <2>4, Zenon DEF Seen, Contents
<1> QED BY <1>7, <1>8, <1>9, Zenon

\* Every step is one of the contract's, or its users see none.
LEMMA StepContract ==
  IInv /\ [Next]_vars => [Contract!Next]_Contract!vars
<1> SUFFICES ASSUME IInv, [Next]_vars PROVE Contract!Next \/ UNCHANGED Contract!vars
  OBVIOUS
<1>1. UNCHANGED Seen => UNCHANGED Contract!vars
  BY Zenon DEF Contract!vars, Seen, Contents, Request
<1>2. ASSUME NEW t \in Producers, PutAppend(t) PROVE Contract!Next
  BY <1>2, PutImplements, Zenon DEF Contract!Next
<1>3. ASSUME NEW t \in Producers, PutSort(t) \/ PutSet(t) PROVE UNCHANGED Seen
  BY <1>3, SortStutters, OthersStutter, Zenon
<1>4. CASE CloseFlag
  <2>1. closed' = TRUE /\ UNCHANGED <<queue, puts, getter, answer, now>>
    BY <1>4, Zenon DEF CloseFlag
  <2>2. Contract!Close
    BY <2>1, Zenon DEF Contract!Close
  <2> QED BY <2>2, Zenon DEF Contract!Next
<1>5. CASE GetCall
  BY <1>5, CallImplements, Zenon DEF Contract!Next
<1>6. CASE GetCheck
  BY <1>6, <1>1, CheckImplements, Zenon DEF Contract!Next
<1>7. CASE GetTake
  BY <1>7, <1>1, TakeImplements, Zenon DEF Contract!Next
<1>8. CASE CloseSet \/ GetWake \/ GetClear \/ UNCHANGED vars
  BY <1>8, <1>1, OthersStutter, Zenon
<1>9. CASE Tick
  <2>1. now' = now + 1 /\ UNCHANGED <<queue, puts, closed, getter, answer>>
    BY <1>9, Zenon DEF Tick
  <2>2. Contract!Tick
    BY <2>1, Zenon DEF Contract!Tick
  <2> QED BY <2>2, Zenon DEF Contract!Next
<1> QED BY <1>1, <1>2, <1>3, <1>4, <1>5, <1>6, <1>7, <1>8, <1>9, Zenon DEF Next

\* The queue implements the delay queue.
THEOREM QueueImplementsContract == Spec => ImplementsContract
BY InvariantHolds, InitContract, StepContract, PTL DEF Spec, ImplementsContract, Contract!Spec

=============================================================================
