----------------------------- MODULE TimedQueue -----------------------------
(***************************************************************************)
(* The queue that delays positions between the thread that enqueues them   *)
(* and the thread that scores them: a sorted list, a lock, an event and a  *)
(* flag. One step per stretch of code between two points where another     *)
(* thread can get in.                                                      *)
(*                                                                         *)
(* What is put in is abstracted to its number in order of arrival.         *)
(***************************************************************************)
EXTENDS Integers, SequencesExt

CONSTANTS
  Producers,  \* the threads that put
  Stamps,     \* the release times items are put in with
  Timeouts,   \* the timeouts get() is called with
  NoTimeout,  \* get() without a timeout
  IdleWait,   \* how long get() sleeps on an empty queue (10 s)
  MaxPuts,    \* bound: calls of put()
  MaxNow      \* bound: the last time of day looked at

ASSUME TimedQueueAssumption ==
  /\ Stamps \subseteq Int
  /\ NoTimeout \notin Int
  /\ Timeouts \subseteq Nat \cup {NoTimeout}
  /\ IdleWait \in Nat \ {0}
  /\ MaxPuts \in Nat /\ MaxNow \in Nat

VARIABLES
  queue,   \* _queue: records [id, stamp]
  event,   \* _ready_event is set
  closed,  \* _closed
  lock,    \* _lock is held by a producer in the middle of put()
  putter,  \* putter[t]: where thread t is in put()
  closer,  \* where some thread is in close()
  getter,  \* the consumer in get(): its place and its local variables
  puts,    \* put() calls so far
  answer,  \* how the last get() ended
  now      \* the time of day

vars == <<queue, event, closed, lock, putter, closer, getter, puts, answer, now>>

Item == [id : 1..MaxPuts, stamp : Stamps]

NoAnswer == [how |-> "none yet"]
TimedOut == [how |-> "timed out"]
None     == [how |-> "closed"]
Answered(x) == [how |-> "item", item |-> x]

Smaller(a, b) == IF a < b THEN a ELSE b
Greater(a, b) == IF a > b THEN a ELSE b

-----------------------------------------------------------------------------
(* put().                                                                  *)

\* What a stable sort makes of a sorted list with one item appended: the item goes after
\* all that are not released later.
SortLast_EqualsFirst(q) ==
  LET x == q[Len(q)]
      rest == Front(q)
  IN  InsertAt(rest, 1 + Cardinality({i \in DOMAIN rest : rest[i].stamp < x.stamp}), x)
SortLast(q) ==
  LET x == q[Len(q)]
      rest == Front(q)
  IN  InsertAt(rest, 1 + Cardinality({i \in DOMAIN rest : rest[i].stamp <= x.stamp}), x)

PutAppend(t) ==
  /\ putter[t] = "idle" /\ ~lock /\ puts < MaxPuts
  /\ lock' = TRUE
  /\ \E s \in Stamps : queue' = Append(queue, [id |-> puts + 1, stamp |-> s])
  /\ puts' = puts + 1
  /\ putter' = [putter EXCEPT ![t] = "sort"]
  /\ UNCHANGED <<event, closed, closer, getter, answer, now>>

PutSort(t) ==
  /\ putter[t] = "sort"
  /\ queue' = SortLast(queue)
  /\ putter' = [putter EXCEPT ![t] = "set"]
  /\ UNCHANGED <<event, closed, lock, closer, getter, puts, answer, now>>

\* Setting the event and leaving the lock.
PutSet(t) ==
  /\ putter[t] = "set"
  /\ event' = TRUE
  /\ lock' = FALSE
  /\ putter' = [putter EXCEPT ![t] = "idle"]
  /\ UNCHANGED <<queue, closed, closer, getter, puts, answer, now>>

-----------------------------------------------------------------------------
(* close(), which takes no lock.                                           *)

CloseFlag ==
  /\ closer = "idle"
  /\ closed' = TRUE /\ closer' = "set"
  /\ UNCHANGED <<queue, event, lock, putter, getter, puts, answer, now>>

CloseSet ==
  /\ closer = "set"
  /\ event' = TRUE /\ closer' = "done"
  /\ UNCHANGED <<queue, closed, lock, putter, getter, puts, answer, now>>

-----------------------------------------------------------------------------
(* get().                                                                  *)

\* seen is the local variable now: the time when the clock was last read.
GetCall ==
  /\ getter.at = "out"
  /\ \E t \in Timeouts :
       getter' = [at |-> "check", start |-> now, seen |-> now, timeout |-> t,
                  slept |-> now, wake |-> now]
  /\ UNCHANGED <<queue, event, closed, lock, putter, closer, puts, answer, now>>

Return(a) ==
  /\ answer' = a
  /\ getter' = [getter EXCEPT !.at = "out"]

Sleep_Unclamped ==
  LET internal == IF queue # <<>> THEN queue[1].stamp - getter.seen
                  ELSE IdleWait
      external == getter.timeout - (getter.seen - getter.start)
  IN  IF getter.timeout = NoTimeout THEN internal ELSE Smaller(external, internal)
Sleep ==
  LET internal == IF queue # <<>> THEN Greater(0, queue[1].stamp - getter.seen)
                  ELSE IdleWait
      external == getter.timeout - (getter.seen - getter.start)
  IN  IF getter.timeout = NoTimeout THEN internal ELSE Smaller(external, internal)

GetCheck ==
  /\ getter.at = "check" /\ ~lock
  /\ IF queue = <<>> /\ closed
     THEN Return(None)
     ELSE /\ getter' = [getter EXCEPT !.at = "wait",
                                      !.slept = now, !.wake = now + Sleep]
          /\ UNCHANGED answer
  /\ UNCHANGED <<queue, event, closed, lock, putter, closer, puts, now>>

\* Time goes on after MaxNow, so that every sleep ends.
GetWake ==
  /\ getter.at = "wait" /\ (event \/ now >= getter.wake \/ now = MaxNow)
  /\ getter' = [getter EXCEPT !.at = "clear"]
  /\ UNCHANGED <<queue, event, closed, lock, putter, closer, puts, answer, now>>

GetClear_StaleClock ==
  /\ getter.at = "clear"
  /\ event' = FALSE
  /\ getter' = [getter EXCEPT !.at = "take"]
  /\ UNCHANGED <<queue, closed, lock, putter, closer, puts, answer, now>>
GetClear ==
  /\ getter.at = "clear"
  /\ event' = FALSE
  /\ getter' = [getter EXCEPT !.at = "take", !.seen = now]
  /\ UNCHANGED <<queue, closed, lock, putter, closer, puts, answer, now>>

GetTake ==
  /\ getter.at = "take" /\ ~lock
  /\ IF queue # <<>> /\ queue[1].stamp < getter.seen
     THEN queue' = Tail(queue) /\ Return(Answered(queue[1]))
     ELSE /\ UNCHANGED queue
          /\ IF /\ getter.timeout # NoTimeout
                /\ getter.seen - getter.start >= getter.timeout
             THEN Return(TimedOut)
             ELSE /\ getter' = [getter EXCEPT !.at = "check"]
                  /\ UNCHANGED answer
  /\ UNCHANGED <<event, closed, lock, putter, closer, puts, now>>

-----------------------------------------------------------------------------
(* The specification.                                                      *)

Init ==
  /\ queue = <<>> /\ event = FALSE /\ closed = FALSE /\ lock = FALSE
  /\ putter = [t \in Producers |-> "idle"] /\ closer = "idle"
  /\ getter = [at |-> "out", start |-> 0, seen |-> 0, timeout |-> NoTimeout,
               slept |-> 0, wake |-> 0]
  /\ puts = 0 /\ answer = NoAnswer /\ now = 0

Tick ==
  /\ now < MaxNow
  /\ now' = now + 1
  /\ UNCHANGED <<queue, event, closed, lock, putter, closer, getter, puts, answer>>

Finishing(t) == PutSort(t) \/ PutSet(t)
Getting == GetCheck \/ GetWake \/ GetClear \/ GetTake

Next ==
  \/ \E t \in Producers : PutAppend(t) \/ PutSort(t) \/ PutSet(t)
  \/ CloseFlag \/ CloseSet
  \/ GetCall \/ GetCheck \/ GetWake \/ GetClear \/ GetTake
  \/ Tick

Spec == Init /\ [][Next]_vars

(***************************************************************************)
(* Threads that have started a call get to run, time passes, and the       *)
(* consumer's loop calls get() again after each answer. Nobody has to call *)
(* put() or close().                                                       *)
(***************************************************************************)
Fairness ==
  /\ \A t \in Producers : WF_vars(Finishing(t))
  /\ WF_vars(CloseSet)
  /\ WF_vars(GetCall) /\ WF_vars(Getting)
  /\ WF_vars(Tick)

FairSpec == Spec /\ Fairness

-----------------------------------------------------------------------------
(* Properties.                                                             *)

TypeOK ==
  /\ queue \in Seq(Item) /\ Len(queue) <= MaxPuts
  /\ event \in BOOLEAN /\ closed \in BOOLEAN /\ lock \in BOOLEAN
  /\ putter \in [Producers -> {"idle", "sort", "set"}]
  /\ closer \in {"idle", "set", "done"}
  /\ getter \in [at : {"out", "check", "wait", "clear", "take"},
                 start : 0..MaxNow, seen : 0..MaxNow,
                 timeout : Timeouts \cup {NoTimeout},
                 slept : 0..MaxNow, wake : Nat]
  /\ puts \in 0..MaxPuts /\ now \in 0..MaxNow
  /\ answer \in {NoAnswer, TimedOut, None} \cup {Answered(x) : x \in Item}

Resting == \A t \in Producers : putter[t] = "idle"

\* The queue implements the delay queue: items leave when they are due, the
\* earliest first and in order of arrival among equals (test_message_in_the_
\* past), each once; timeouts and the end are reported only when they are due.
Contract == INSTANCE DelayQueue WITH
  contents <- {queue[i] : i \in DOMAIN queue},
  shut <- closed,
  request <- IF getter.at = "out" THEN <<>>
             ELSE <<[start |-> getter.start, timeout |-> getter.timeout]>>,
  clock <- now
ImplementsContract == Contract!Spec

\* Every item that is put in is handed out: no interleaving of put(), close()
\* and get() leaves the consumer asleep on it.
EveryItemDelivered ==
  \A n \in 1..MaxPuts :
    (puts >= n) ~> (\A i \in DOMAIN queue : queue[i].id # n)
=============================================================================
