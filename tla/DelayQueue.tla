----------------------------- MODULE DelayQueue -----------------------------
(***************************************************************************)
(* What the timed queue promises its users, without locks, events or       *)
(* sorting: items are put in with a release time, one consumer asks for    *)
(* them, and each request has one answer.                                  *)
(***************************************************************************)
EXTENDS Integers

CONSTANTS
  Stamps,     \* the release times items are put in with
  Timeouts,   \* the timeouts of requests; NoTimeout is one of them
  NoTimeout,  \* get() without a timeout
  MaxPuts     \* bound: items put in during one behaviour

VARIABLES
  contents,   \* the items inside: [id, stamp], numbered in order of arrival
  puts,       \* items put in so far
  shut,       \* close() was called
  request,    \* the pending request: <<>> or <<[start, timeout]>>
  answer,     \* the answer to the last request
  clock       \* the time of day

vars == <<contents, puts, shut, request, answer, clock>>

Item == [id : 1..MaxPuts, stamp : Stamps]

NoAnswer == [how |-> "none yet"]
TimedOut == [how |-> "timed out"]
Closed   == [how |-> "closed"]
Answered(x) == [how |-> "item", item |-> x]

Init ==
  /\ contents = {} /\ puts = 0 /\ shut = FALSE
  /\ request = <<>> /\ answer = NoAnswer /\ clock = 0

Put ==
  /\ puts < MaxPuts
  /\ \E s \in Stamps :
       contents' = contents \cup {[id |-> puts + 1, stamp |-> s]}
  /\ puts' = puts + 1
  /\ UNCHANGED <<shut, request, answer, clock>>

Close ==
  /\ shut' = TRUE
  /\ UNCHANGED <<contents, puts, request, answer, clock>>

Ask ==
  /\ request = <<>>
  /\ \E t \in Timeouts : request' = <<[start |-> clock, timeout |-> t]>>
  /\ UNCHANGED <<contents, puts, shut, answer, clock>>

\* x leaves before y: it is released earlier, or at the same time and arrived
\* first.
Before(x, y) == x.stamp < y.stamp \/ (x.stamp = y.stamp /\ x.id < y.id)

AnswerItem ==
  /\ request # <<>>
  /\ \E x \in contents :
       /\ x.stamp < clock
       /\ \A y \in contents \ {x} : Before(x, y)
       /\ contents' = contents \ {x}
       /\ answer' = Answered(x)
  /\ request' = <<>>
  /\ UNCHANGED <<puts, shut, clock>>

\* A request only times out after its timeout, and not while an item waits
\* that could have been handed out before that.
AnswerTimedOut ==
  /\ request # <<>>
  /\ LET r == request[1]
     IN  /\ r.timeout # NoTimeout
         /\ clock >= r.start + r.timeout
         /\ \A x \in contents : x.stamp >= r.start + r.timeout
  /\ request' = <<>> /\ answer' = TimedOut
  /\ UNCHANGED <<contents, puts, shut, clock>>

AnswerClosed ==
  /\ request # <<>> /\ shut /\ contents = {}
  /\ request' = <<>> /\ answer' = Closed
  /\ UNCHANGED <<contents, puts, shut, clock>>

Tick ==
  /\ clock' = clock + 1
  /\ UNCHANGED <<contents, puts, shut, request, answer>>

Next == \/ Put \/ Close \/ Ask \/ AnswerItem \/ AnswerTimedOut
        \/ AnswerClosed \/ Tick

Spec == Init /\ [][Next]_vars
=============================================================================
