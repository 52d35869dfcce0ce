---------------------- MODULE ContestantProcessorProofs ----------------------
(***************************************************************************)
(* Proofs about ContestantProcessor, for any flights, batches, delay and   *)
(* limits: the types of its variables; that the gatekeeper is given the    *)
(* positions in the order they were flown; that none of a live run is      *)
(* given before the delay is over; and that a recalculation whose batch is *)
(* in the order of its times gives all of it.                              *)
(***************************************************************************)
EXTENDS ContestantProcessor, ListLemmas

\* The positions a calculator may come to see: a live one's are due before time ends.
Flown(c) == IF c.live THEN {p \in Position : p.time + Delay < MaxNow} ELSE Position

One(P) == {x \in Seq(P) : Len(x) = 1}

\* What redis may hold: only a recalculation's ends with a sentinel.
Item(c) == IF c.live THEN One(Flown(c)) ELSE One(Flown(c)) \cup {Sentinel}

\* What the timed queue may hold: a live position is released after the delay.
Entry(c) == {e \in [item : Item(c), release : Int] :
               c.live => e.release = e.item[1].time + Delay}

MainPlaces ==
  {"wait", "loop", "refresh", "refresh again", "get", "process", "decide", "check",
   "command", "finish", "drain", "pop", "done", "RedisEmpty", "DoesNotExist"}
EnqueuerPlaces ==
  {"start", "loop", "pop", "len", "tail", "put", "sort", "check", "command", "exited",
   "IndexError", "DoesNotExist"}

\* What Traccar has recorded is the beginning of the flight.
Recorded ==
  /\ server \in Seq(Flown(conf))
  /\ conf.live => /\ Len(server) <= Len(conf.track)
                  /\ \A i \in DOMAIN server : server[i] = conf.track[i]

WorldOK ==
  /\ conf \in [live : {TRUE}, track : Flights] \cup [live : {FALSE}, track : Batches]
  /\ now \in 0..MaxNow /\ finished_by \in Int /\ commands \in 0..MaxCommands
  /\ Recorded
  /\ sent \subseteq DOMAIN server

FlagsOK == {requested, deleted, sorting, loaded, terminated} \subseteq BOOLEAN

\* A position that the main thread has taken is due.
MainOK ==
  /\ main \in [at : MainPlaces, previous : One(Position) \cup {NoPosition},
               item : One(Flown(conf)) \cup {NoPosition}]
  /\ main.at = "process" => main.item # NoPosition
  /\ conf.live /\ main.item # NoPosition => main.item[1].time + Delay < now

\* What the enqueuer puts into the timed queue; only the end of a batch has a release
\* time of its own.
EnqueuerOK ==
  /\ enqueuer \in [at : EnqueuerPlaces, x : [item : One(Position) \cup {Sentinel}, release : Int]]
  /\ enqueuer.at = "put" => enqueuer.x \in Entry(conf)
  /\ enqueuer.at \in {"len", "tail"} => ~conf.live /\ enqueuer.x.item = Sentinel

QueuesOK == redis \in Seq(Item(conf)) /\ timed \in Seq(Entry(conf))

\* No position that was given to the gatekeeper is later than the last one considered.
Ordered ==
  /\ processed \in Seq(Position)
  /\ InTimeOrder
  /\ \A i \in DOMAIN processed : /\ main.previous # NoPosition
                                 /\ processed[i].time <= main.previous[1].time

\* Each thread sends one entry at most: then the track is terminated, or the thread is
\* gone.
MainMaySend == main.at = "command" \/ (~terminated /\ main.at # "DoesNotExist")
EnqueuerMaySend == enqueuer.at = "command" \/ (~terminated /\ enqueuer.at # "DoesNotExist")
EntriesOK ==
  /\ entries \in 0..2
  /\ MainMaySend \/ EnqueuerMaySend => entries <= 1
  /\ MainMaySend /\ EnqueuerMaySend => entries = 0

IInv ==
  /\ WorldOK /\ FlagsOK /\ MainOK /\ EnqueuerOK /\ QueuesOK
  /\ Ordered /\ EntriesOK

-----------------------------------------------------------------------------
(* Positions and items.                                                    *)

LEMMA Numbers ==
  /\ Delay \in Nat /\ BufferedLimit \in Nat /\ FinishedBy \in Nat
  /\ MaxCommands \in Nat /\ MaxNow \in Nat
BY ProcessorAssumption

\* Of a position only its time is compared.
LEMMA Times == \A p \in Position : p.time \in Int
BY DEF Position

\* An item that is not the sentinel is one position.
LEMMA OneIs ==
  ASSUME NEW P
  PROVE  /\ \A p \in P : <<p>> \in One(P)
         /\ \A x \in One(P) : x # NoPosition /\ x[1] \in P
         /\ NoPosition \notin One(P)
BY DEF One, NoPosition

LEMMA OneOfMore ==
  ASSUME NEW P, NEW Q, P \subseteq Q
  PROVE  One(P) \subseteq One(Q)
<1>1. ASSUME NEW x \in Seq(P) PROVE x \in Seq(Q)
  OBVIOUS
<1> QED BY <1>1 DEF One

LEMMA FlownIs ==
  ASSUME NEW c
  PROVE  /\ Flown(c) \subseteq Position
         /\ c.live => \A p \in Flown(c) : p.time + Delay < MaxNow
         /\ c.live => \A p \in Position : p.time + Delay < MaxNow => p \in Flown(c)
         /\ ~c.live => Flown(c) = Position
BY Zenon DEF Flown

LEMMA ItemIs ==
  ASSUME NEW c
  PROVE  /\ One(Flown(c)) \subseteq Item(c)
         /\ \A x \in Item(c) : x # Sentinel => x \in One(Flown(c))
         /\ Sentinel \in Item(c) => ~c.live
         /\ ~c.live => Sentinel \in Item(c)
<1>1. Sentinel \notin One(Flown(c))
  BY OneIs, Zenon DEF Sentinel, NoPosition
<1> QED BY <1>1, Zenon DEF Item

\* The beginning of a flight that is over before a time is what comes before it.
LEMMA BeforeIs ==
  ASSUME NEW ps \in Seq(Position), NEW t \in Int,
         \A i, j \in DOMAIN ps : i < j => ps[i].time < ps[j].time
  PROVE  /\ Before(t, ps) \in 0..Len(ps)
         /\ \A i \in 1..Before(t, ps) : ps[i].time < t
<1> DEFINE D == {i \in DOMAIN ps : ps[i].time < t}
<1>1. Len(ps) \in Nat /\ DOMAIN ps = 1..Len(ps)
  OBVIOUS
<1>2. D \in SUBSET (1..Len(ps))
  BY <1>1
<1>3. ASSUME NEW i \in 1..Len(ps), NEW j \in 1..Len(ps), i < j, j \in D PROVE i \in D
  <2>1. ps[i].time \in Int /\ ps[j].time \in Int
    <3>1. ps[i] \in Position /\ ps[j] \in Position
      BY <1>1
    <3> QED BY <3>1, Times
  <2>2. ps[i].time < ps[j].time /\ ps[j].time < t
    BY <1>1, <1>3
  <2> QED BY <2>1, <2>2, <1>1
<1>4. Cardinality(D) \in 0..Len(ps) /\ D = 1..Cardinality(D)
  <2> HIDE DEF D
  <2> QED BY <1>1, <1>2, <1>3, Counted
<1>5. Before(t, ps) = Cardinality(D)
  BY DEF Before
<1>6. \A i \in D : ps[i].time < t
  OBVIOUS
<1> HIDE DEF D
<1> QED BY <1>4, <1>5, <1>6

-----------------------------------------------------------------------------
(* What Cleaned keeps.                                                     *)

\* A number of positions that is considered, after a previous one, leaves those in order
\* that are later than it.
Kept(P, previous, s) ==
  /\ s \in [previous : One(Position) \cup {NoPosition}, kept : Seq(P)]
  /\ \A i, j \in DOMAIN s.kept : i < j => s.kept[i].time < s.kept[j].time
  /\ \A i \in DOMAIN s.kept : /\ s.previous # NoPosition
                              /\ s.kept[i].time <= s.previous[1].time
                              /\ previous # NoPosition => previous[1].time < s.kept[i].time
  /\ previous # NoPosition => /\ s.previous # NoPosition
                              /\ previous[1].time <= s.previous[1].time

LEMMA ConsiderKeeps ==
  ASSUME NEW P \in SUBSET Position, NEW p \in P,
         NEW previous \in One(Position) \cup {NoPosition}, NEW s, Kept(P, previous, s)
  PROVE  Kept(P, previous, Consider(s, p))
<1> DEFINE r == Consider(s, p)
           Previous == One(Position) \cup {NoPosition}
<1>1. /\ s \in [previous : Previous, kept : Seq(P)]
      /\ s.previous \in Previous /\ s.kept \in Seq(P)
  BY DEF Kept
<1>2. p \in Position /\ p.time \in Int /\ <<p>> \in One(Position) /\ <<p>>[1] = p
      /\ <<p>> # NoPosition
  BY Times, OneIs
<1>3. \A x \in Previous : x # NoPosition => x[1].time \in Int
  BY Times, OneIs
<1>4. Len(s.kept) \in Nat /\ DOMAIN s.kept = 1..Len(s.kept)
      /\ \A i \in DOMAIN s.kept : s.kept[i].time \in Int
  <2>1. \A i \in 1..Len(s.kept) : s.kept[i] \in Position
    BY <1>1
  <2> QED BY <1>1, <2>1, Times
<1>5. CASE /\ s.previous # NoPosition
           /\ p.spot = s.previous[1].spot \/ s.previous[1].time >= p.time
  <2>1. r = [s EXCEPT !.previous = IF s.previous[1].time < p.time THEN <<p>> ELSE s.previous]
    BY <1>5, Zenon DEF Consider
  <2>2. /\ r.kept = s.kept /\ r \in [previous : Previous, kept : Seq(P)]
        /\ r.previous # NoPosition
        /\ r.previous = IF s.previous[1].time < p.time THEN <<p>> ELSE s.previous
    BY <2>1, <1>1, <1>2, <1>5
  <2>3. s.previous[1].time <= r.previous[1].time
    BY <2>2, <1>1, <1>2, <1>3, <1>5
  <2>4. r.previous[1].time \in Int /\ s.previous[1].time \in Int
    BY <2>2, <1>1, <1>2, <1>3, <1>5
  <2>5. \A i \in DOMAIN s.kept : s.kept[i].time <= r.previous[1].time
    BY <2>3, <2>4, <1>4 DEF Kept
  <2>6. previous # NoPosition => previous[1].time <= r.previous[1].time
    BY <2>3, <2>4, <1>3 DEF Kept
  <2> HIDE DEF r, Previous
  <2>7. \A i, j \in DOMAIN r.kept : i < j => r.kept[i].time < r.kept[j].time
    BY <2>2 DEF Kept
  <2>8. \A i \in DOMAIN r.kept : /\ r.previous # NoPosition
                                 /\ r.kept[i].time <= r.previous[1].time
                                 /\ previous # NoPosition => previous[1].time < r.kept[i].time
    BY <2>2, <2>5 DEF Kept
  <2>9. previous # NoPosition => /\ r.previous # NoPosition
                                 /\ previous[1].time <= r.previous[1].time
    BY <2>2, <2>6
  <2> QED BY <2>2, <2>7, <2>8, <2>9, Zenon DEF Kept, r, Previous
<1>6. CASE ~ /\ s.previous # NoPosition
             /\ p.spot = s.previous[1].spot \/ s.previous[1].time >= p.time
  <2>1. r = [previous |-> <<p>>, kept |-> Append(s.kept, p)]
    BY <1>6, Zenon DEF Consider
  <2> DEFINE k == Append(s.kept, p)
             n == Len(s.kept)
  <2>2. /\ r.kept = k /\ r.previous = <<p>>
        /\ k \in Seq(P) /\ DOMAIN k = 1..(n + 1)
        /\ \A i \in 1..n : k[i] = s.kept[i]
        /\ k[n + 1] = p
    BY <2>1, <1>1, AppendProperties
  <2>3. r \in [previous : Previous, kept : Seq(P)]
    BY <2>1, <2>2, <1>2
  <2>4. \A i \in 1..n : s.kept[i].time < p.time
    BY <1>1, <1>2, <1>3, <1>4, <1>6 DEF Kept
  <2>5. previous # NoPosition => previous[1].time < p.time
    BY <1>1, <1>2, <1>3, <1>6 DEF Kept
  <2>6. \A i \in 1..n : previous # NoPosition => previous[1].time < s.kept[i].time
    BY <1>4 DEF Kept
  <2>7. \A i, j \in 1..n : i < j => s.kept[i].time < s.kept[j].time
    BY <1>4 DEF Kept
  <2> HIDE DEF r, k
  <2>8. \A i, j \in 1..(n + 1) : i < j => k[i].time < k[j].time
    <3> TAKE i, j \in 1..(n + 1)
    <3> HAVE i < j
    <3>1. i \in 1..n /\ (j \in 1..n \/ j = n + 1)
      BY <1>4
    <3> QED BY <3>1, <2>2, <2>4, <2>7
  <2>9. \A i \in 1..(n + 1) : /\ k[i].time <= p.time
                              /\ previous # NoPosition => previous[1].time < k[i].time
    <3> TAKE i \in 1..(n + 1)
    <3>1. i \in 1..n \/ i = n + 1
      BY <1>4
    <3>2. CASE i \in 1..n
      BY <3>2, <2>2, <2>4, <2>6, <1>2, <1>4, SMTT(30)
    <3>3. CASE i = n + 1
      BY <3>3, <2>2, <2>5, <1>2
    <3> QED BY <3>1, <3>2, <3>3
  <2>10. previous # NoPosition => previous[1].time <= p.time
    BY <2>5, <1>2, <1>3
  <2>11. \A i, j \in DOMAIN r.kept : i < j => r.kept[i].time < r.kept[j].time
    BY <2>2, <2>8
  <2>12. \A i \in DOMAIN r.kept : /\ r.previous # NoPosition
                                  /\ r.kept[i].time <= r.previous[1].time
                                  /\ previous # NoPosition => previous[1].time < r.kept[i].time
    BY <2>2, <2>9, <1>2
  <2>13. previous # NoPosition => /\ r.previous # NoPosition
                                  /\ previous[1].time <= r.previous[1].time
    BY <2>2, <2>10, <1>2
  <2> QED BY <2>3, <2>11, <2>12, <2>13, Zenon DEF Kept, r
<1> QED BY <1>5, <1>6

\* Cleaned considers one position after the other.
LEMMA CleanedKeeps ==
  ASSUME NEW P \in SUBSET Position, NEW ps \in Seq(P),
         NEW previous \in One(Position) \cup {NoPosition}
  PROVE  Kept(P, previous, Cleaned(previous, ps))
<1> DEFINE n == Len(ps)
           s == [previous |-> previous, kept |-> <<>>]
           S == {r \in [previous : One(Position) \cup {NoPosition}, kept : Seq(P)] :
                   Kept(P, previous, r)}
           g == [z \in S \X (1..n) |-> Consider(z[1], ps[z[2]])]
           F(f) == f = [i \in 0..n |-> IF i = 0 THEN s ELSE Consider(f[i - 1], ps[i])]
<1>1. n \in Nat /\ \A i \in 1..n : ps[i] \in P
  OBVIOUS
<1>2. s \in S
  <2>1. s \in [previous : One(Position) \cup {NoPosition}, kept : Seq(P)]
    OBVIOUS
  <2>2. DOMAIN s.kept = {} /\ s.previous = previous
    OBVIOUS
  <2>3. previous # NoPosition => previous[1].time \in Int
    BY Times, OneIs
  <2> HIDE DEF s
  <2> QED BY <2>1, <2>2, <2>3 DEF Kept
<1>3. g \in [S \X (1..n) -> S]
  <2>1. ASSUME NEW z \in S \X (1..n) PROVE g[z] \in S
    <3>1. z[1] \in S /\ z[2] \in 1..n /\ ps[z[2]] \in P
      BY <1>1
    <3>2. Kept(P, previous, z[1])
      BY <3>1
    <3>3. Kept(P, previous, Consider(z[1], ps[z[2]]))
      <4> DEFINE r == z[1]
                 p == ps[z[2]]
      <4> HIDE DEF r, p, S
      <4>1. Kept(P, previous, r) /\ p \in P
        BY <3>1, <3>2 DEF r, p
      <4> QED BY <4>1, ConsiderKeeps DEF r, p
    <3>4. Consider(z[1], ps[z[2]]) \in S
      BY <3>3, Zenon DEF Kept
    <3> QED BY <3>4
  <2> QED BY <2>1
<1>4. PICK f \in [0..n -> S] : f[0] = s /\ \A i \in 1..n : f[i] = g[<<f[i - 1], i>>]
  <2>1. n \in Nat /\ g \in Steps(S, n)
    BY <1>1, <1>3, Zenon DEF Steps
  <2>2. PICK f : IsFold(f, S, n, g, s)
    <3> HIDE DEF s, S, g, n
    <3> QED BY <2>1, <1>2, FoldExists, Zenon
  <2> QED BY <2>2, Zenon DEF IsFold
<1>5. F(f)
  <2>1. ASSUME NEW i \in 0..n
        PROVE  f[i] = IF i = 0 THEN s ELSE Consider(f[i - 1], ps[i])
    <3>1. CASE i = 0
      BY <3>1, <1>4
    <3>2. CASE i # 0
      <4>1. i \in 1..n /\ i - 1 \in 0..n
        BY <3>2, <1>1
      <4>2. f[i] = g[<<f[i - 1], i>>] /\ f[i - 1] \in S
        BY <4>1, <1>4
      <4>3. <<f[i - 1], i>> \in S \X (1..n)
        BY <4>1, <4>2
      <4>4. g[<<f[i - 1], i>>] = Consider(f[i - 1], ps[i])
        <5> HIDE DEF S, n
        <5> QED BY <4>3
      <4> QED BY <4>2, <4>4, <3>2
    <3> QED BY <3>1, <3>2
  <2> HIDE DEF s, S, g, n
  <2> QED BY <2>1, <1>4
<1> DEFINE u == CHOOSE h : F(h)
<1>6. Cleaned(previous, ps) = u[n]
  BY DEF Cleaned
<1>7. F(u)
  <2> HIDE DEF F
  <2> QED BY <1>5, Zenon
<1>8. u[n] \in S
  <2> DEFINE T == {i \in 0..n : u[i] \in S}
  <2>1. \A i \in 0..n : u[i] = IF i = 0 THEN s ELSE Consider(u[i - 1], ps[i])
    <3> HIDE DEF u, s
    <3> QED BY <1>7
  <2>2. 0 \in T
    <3> HIDE DEF u, s, S
    <3> QED BY <2>1, <1>1, <1>2
  <2>3. ASSUME NEW i \in 1..n, i - 1 \in T PROVE i \in T
    <3> HIDE DEF u, s, S
    <3>1. u[i - 1] \in S /\ i \in 0..n /\ i # 0
      BY <2>3
    <3>2. u[i] = Consider(u[i - 1], ps[i])
      BY <2>1, <3>1
    <3>3. <<u[i - 1], i>> \in S \X (1..n)
      BY <3>1
    <3>4. g[<<u[i - 1], i>>] = Consider(u[i - 1], ps[i]) /\ g[<<u[i - 1], i>>] \in S
      BY <3>3, <1>3
    <3> QED BY <3>1, <3>2, <3>4
  <2>4. 0..n \subseteq T
    <3> HIDE DEF T, n
    <3> QED BY <2>2, <2>3, <1>1, UpTo
  <2> QED
    <3> HIDE DEF u, S, n
    <3> QED BY <2>4, <1>1
<1> QED
  <2> HIDE DEF u, s, n
  <2> QED BY <1>6, <1>8

-----------------------------------------------------------------------------
(* What a step can change.                                                 *)

\* The steps that change what is outside of the calculator.
LEMMA WorldChanges ==
  ASSUME [Next]_vars
  PROVE  \/ UNCHANGED world
         \/ MainDecide \/ Record \/ Send \/ Request \/ Expire \/ Delete \/ Tick
<1>1. CASE MainStep
  BY <1>1, Zenon DEF MainStep, MainStart, MainLoop, MainRefreshScores, MainRefreshContestant,
     MainGetPosition, MainGetSentinel, MainTimedOut, MainProcess, MainCheck, MainCommand,
     MainFinish, MainDrain, MainPop
<1>2. CASE EnqueuerStep
  BY <1>2, Zenon DEF EnqueuerStep, EnqueueHistory, EnqueuerLoop, EnqueuerPop, EnqueuerEmpty,
     EnqueuerLen, EnqueuerTail, EnqueuerPut, EnqueuerSorted, EnqueuerCheck, EnqueuerCommand
<1>3. CASE UNCHANGED vars
  BY <1>3, Zenon DEF vars
<1> QED BY <1>1, <1>2, <1>3, Zenon DEF Next

\* The steps that change the queues.
LEMMA QueuesChange ==
  ASSUME [Next]_vars
  PROVE  \/ UNCHANGED <<redis, timed>>
         \/ MainGetPosition \/ MainGetSentinel \/ MainPop \/ EnqueueHistory \/ EnqueuerPop
         \/ EnqueuerPut \/ Send
<1>1. CASE MainStep
  BY <1>1, Zenon DEF MainStep, MainStart, MainLoop, MainRefreshScores, MainRefreshContestant,
     MainTimedOut, MainProcess, MainDecide, MainCheck, MainCommand, MainFinish, MainDrain
<1>2. CASE EnqueuerStep
  BY <1>2, Zenon DEF EnqueuerStep, EnqueuerLoop, EnqueuerEmpty, EnqueuerLen, EnqueuerTail,
     EnqueuerSorted, EnqueuerCheck, EnqueuerCommand
<1>3. CASE UNCHANGED vars
  BY <1>3, Zenon DEF vars
<1> QED BY <1>1, <1>2, <1>3, Zenon
        DEF Next, Record, Request, Expire, Delete, Tick

\* What the threads have in hand changes when they take and process it; otherwise they
\* only move on.
LEMMA MainChanges ==
  ASSUME [Next]_vars
  PROVE  \/ UNCHANGED main
         \/ \E at \in MainPlaces \ {"process", "command"} : MainGoes(at)
         \/ MainCheck \/ MainGetPosition \/ MainProcess
<1>1. CASE MainStep
  <2>1. CASE MainStart
    BY <2>1, Zenon DEF MainStart, MainPlaces
  <2>2. CASE MainLoop
    BY <2>2, Zenon DEF MainLoop, MainPlaces, OrRaise
  <2>3. CASE MainRefreshScores
    BY <2>3, Zenon DEF MainRefreshScores, MainPlaces, OrRaise
  <2>4. CASE MainRefreshContestant
    BY <2>4, Zenon DEF MainRefreshContestant, MainPlaces
  <2>5. CASE MainGetSentinel
    BY <2>5, Zenon DEF MainGetSentinel, MainPlaces, OrRaise
  <2>6. CASE MainTimedOut
    BY <2>6, Zenon DEF MainTimedOut, MainPlaces
  <2>7. CASE MainDecide
    BY <2>7, Zenon DEF MainDecide, MainPlaces, OrRaise
  <2>9. CASE MainCommand
    BY <2>9, Zenon DEF MainCommand, MainPlaces, OrRaise
  <2>10. CASE MainFinish
    BY <2>10, Zenon DEF MainFinish, MainPlaces, OrRaise
  <2>11. CASE MainDrain
    BY <2>11, Zenon DEF MainDrain, MainPlaces
  <2>12. CASE MainPop
    BY <2>12, Zenon DEF MainPop, MainPlaces
  <2> QED BY <1>1, <2>1, <2>2, <2>3, <2>4, <2>5, <2>6, <2>7, <2>9, <2>10, <2>11, <2>12,
             Zenon DEF MainStep
<1>2. CASE EnqueuerStep
  BY <1>2, Zenon DEF EnqueuerStep, EnqueueHistory, EnqueuerLoop, EnqueuerPop, EnqueuerEmpty,
     EnqueuerLen, EnqueuerTail, EnqueuerPut, EnqueuerSorted, EnqueuerCheck, EnqueuerCommand
<1>3. CASE UNCHANGED vars
  BY <1>3, Zenon DEF vars, threads
<1> QED BY <1>1, <1>2, <1>3, Zenon
        DEF Next, Record, Send, Request, Expire, Delete, Tick, threads

LEMMA EnqueuerChanges ==
  ASSUME [Next]_vars
  PROVE  \/ UNCHANGED enqueuer
         \/ \E at \in EnqueuerPlaces \ {"len", "tail", "put", "command"} : EnqueuerGoes(at)
         \/ EnqueuerCheck
         \/ EnqueuerPop \/ EnqueuerLen \/ EnqueuerTail
<1>1. CASE EnqueuerStep
  BY <1>1, Zenon DEF EnqueuerStep, EnqueueHistory, EnqueuerLoop, EnqueuerEmpty,
     EnqueuerPut, EnqueuerSorted, EnqueuerCommand, EnqueuerPlaces, OrRaise
<1>2. CASE MainStep
  BY <1>2, Zenon DEF MainStep, MainStart, MainLoop, MainRefreshScores, MainRefreshContestant,
     MainGetPosition, MainGetSentinel, MainTimedOut, MainProcess, MainDecide, MainCheck,
     MainCommand, MainFinish, MainDrain, MainPop
<1>3. CASE UNCHANGED vars
  BY <1>3, Zenon DEF vars, threads
<1> QED BY <1>1, <1>2, <1>3, Zenon
        DEF Next, Record, Send, Request, Expire, Delete, Tick, threads

\* A thread that finds that it shall stop goes on to say so.
LEMMA CheckGoes ==
  /\ MainCheck => \/ \E at \in MainPlaces \ {"process", "command"} : MainGoes(at)
                  \/ ~terminated /\ \E at \in MainPlaces \ {"process"} : MainGoes(at)
  /\ EnqueuerCheck =>
       \/ \E at \in EnqueuerPlaces \ {"len", "tail", "put", "command"} : EnqueuerGoes(at)
       \/ ~terminated /\ \E at \in EnqueuerPlaces \ {"len", "tail", "put"} : EnqueuerGoes(at)
<1>1. MainCheck => MainGoes("loop") \/ (~terminated /\ MainGoes("command"))
  BY Zenon DEF MainCheck, Commanded
<1>2. EnqueuerCheck => EnqueuerGoes("loop") \/ (~terminated /\ EnqueuerGoes("command"))
  BY Zenon DEF EnqueuerCheck, Commanded
<1>3. /\ "loop" \in MainPlaces \ {"process", "command"}
      /\ "command" \in MainPlaces \ {"process"}
      /\ "loop" \in EnqueuerPlaces \ {"len", "tail", "put", "command"}
      /\ "command" \in EnqueuerPlaces \ {"len", "tail", "put"}
  BY Zenon DEF MainPlaces, EnqueuerPlaces
<1> HIDE DEF MainPlaces, EnqueuerPlaces
<1> QED BY <1>1, <1>2, <1>3, Zenon

\* Nobody changes whom the calculator is for, and time does not go back.
LEMMA ConfStays ==
  ASSUME [Next]_vars
  PROVE  conf' = conf
<1>1. UNCHANGED world => conf' = conf
  BY Zenon DEF world
<1> QED BY <1>1, WorldChanges, Zenon
        DEF MainDecide, Record, Send, Request, Expire, Delete, Tick

LEMMA NowGoesOn ==
  ASSUME WorldOK, [Next]_vars
  PROVE  now \in Int /\ now' \in Int /\ now <= now' /\ now' \in 0..MaxNow
<1>1. now \in 0..MaxNow /\ MaxNow \in Nat
  BY Numbers DEF WorldOK
<1>2. now' = now \/ Tick
  <2>1. UNCHANGED world => now' = now
    BY Zenon DEF world
  <2> QED BY <2>1, WorldChanges, Zenon
          DEF MainDecide, Record, Send, Request, Expire, Delete
<1>3. CASE now' = now
  BY <1>1, <1>3
<1>4. CASE Tick
  BY <1>1, <1>4 DEF Tick
<1> QED BY <1>2, <1>3, <1>4

-----------------------------------------------------------------------------
(* The world.                                                              *)

LEMMA WorldStep ==
  ASSUME WorldOK, [Next]_vars
  PROVE  WorldOK'
<1> USE DEF WorldOK
<1>1. conf' = conf
  BY ConfStays
<1>2. conf' \in [live : {TRUE}, track : Flights] \cup [live : {FALSE}, track : Batches]
  BY <1>1, Zenon
<1>3. now' \in 0..MaxNow
  BY NowGoesOn
<1>4. finished_by' \in Int
  <2>1. finished_by' = finished_by \/ MainDecide
    <3>1. UNCHANGED world => finished_by' = finished_by
      BY Zenon DEF world
    <3> QED BY <3>1, WorldChanges, Zenon DEF Record, Send, Request, Expire, Delete, Tick
  <2>2. CASE MainDecide
    <3>1. finished_by' = finished_by \/ finished_by' = now
      BY <2>2, Zenon DEF MainDecide
    <3>2. now \in Int
      BY NowGoesOn
    <3> QED BY <3>1, <3>2, Zenon
  <2> QED BY <2>1, <2>2, Zenon
<1>5. commands' \in 0..MaxCommands
  <2>1. commands' = commands \/ (commands' = commands + 1 /\ commands < MaxCommands)
    <3>1. UNCHANGED world => commands' = commands
      BY Zenon DEF world
    <3> QED BY <3>1, WorldChanges, Zenon DEF MainDecide, Record, Send, Request, Expire, Delete, Tick
  <2> QED BY <2>1, Numbers
<1>6. server' = server \/ Record
  <2>1. UNCHANGED world => server' = server
    BY Zenon DEF world
  <2> QED BY <2>1, WorldChanges, Zenon DEF MainDecide, Send, Request, Expire, Delete, Tick
<1>7. Recorded'
  <2>1. CASE server' = server
    BY <2>1, <1>1, Zenon DEF Recorded
  <2>2. CASE Record
    <3> DEFINE n == Len(server)
               P == Flown(conf)
    <3>1. /\ conf.live /\ n < Len(conf.track)
          /\ server' = Append(server, conf.track[n + 1])
      BY <2>2 DEF Record
    <3>2. conf.track \in Flights
      BY <3>1
    <3>3. /\ conf.track \in Seq(Position)
          /\ \A i \in 1..Len(conf.track) : conf.track[i].time + Delay < MaxNow
          /\ Len(conf.track) \in Nat
      BY <3>2, TrackAssumption
    <3>4. n \in Nat /\ server \in Seq(P) /\ \A i \in 1..n : server[i] = conf.track[i]
      BY <3>1 DEF Recorded
    <3>5. conf.track[n + 1] \in P
      <4>1. conf.track[n + 1] \in Position /\ conf.track[n + 1].time + Delay < MaxNow
        BY <3>1, <3>3, <3>4
      <4> QED BY <4>1, <3>1, FlownIs, Zenon
    <3> DEFINE s == Append(server, conf.track[n + 1])
    <3>6. /\ s \in Seq(P) /\ Len(s) = n + 1 /\ DOMAIN s = 1..(n + 1)
          /\ \A i \in 1..n : s[i] = server[i]
          /\ s[n + 1] = conf.track[n + 1]
      <4> HIDE DEF P
      <4> QED BY <3>4, <3>5, AppendProperties
    <3>7. Len(s) <= Len(conf.track)
      BY <3>6, <3>1, <3>3, <3>4
    <3>8. \A i \in DOMAIN s : s[i] = conf.track[i]
      <4> TAKE i \in DOMAIN s
      <4>1. i \in 1..n \/ i = n + 1
        BY <3>6, <3>4
      <4> HIDE DEF s
      <4> QED BY <4>1, <3>6, <3>4
    <3> HIDE DEF s
    <3>9. server' = s
      BY <3>1 DEF s
    <3> QED BY <3>6, <3>7, <3>8, <3>9, <1>1, Zenon DEF Recorded
  <2> QED BY <1>6, <2>1, <2>2
<1>8. sent' \subseteq DOMAIN server'
  <2>1. DOMAIN server \subseteq DOMAIN server'
    <3>1. CASE server' = server
      BY <3>1
    <3>2. CASE Record
      <4>1. /\ server' = Append(server, conf.track[Len(server) + 1])
        BY <3>2 DEF Record
      <4>2. server \in Seq(Flown(conf))
        BY DEF Recorded
      <4> QED BY <4>1, <4>2
    <3> QED BY <1>6, <3>1, <3>2
  <2>2. sent' = sent \/ \E i \in DOMAIN server : sent' = sent \cup {i}
    <3>1. UNCHANGED world => sent' = sent
      BY Zenon DEF world
    <3> QED BY <3>1, WorldChanges, Zenon DEF MainDecide, Record, Send, Request, Expire, Delete, Tick
  <2> QED BY <2>1, <2>2, Zenon
<1> QED BY <1>2, <1>3, <1>4, <1>5, <1>7, <1>8, Zenon


-----------------------------------------------------------------------------
(* The flags.                                                              *)

LEMMA TerminatedStep ==
  ASSUME [Next]_vars
  PROVE  \/ terminated' = terminated
         \/ terminated' = (terminated \/ ~deleted)
         \/ terminated' = (terminated \/ deleted)
<1>1. CASE MainStep
  BY <1>1, Zenon DEF MainStep, MainStart, MainLoop, MainRefreshScores, MainRefreshContestant,
     MainGetPosition, MainGetSentinel, MainTimedOut, MainProcess, MainDecide, MainCheck,
     MainCommand, MainFinish, MainDrain, MainPop, NotifyTermination
<1>2. CASE EnqueuerStep
  BY <1>2, Zenon DEF EnqueuerStep, EnqueueHistory, EnqueuerLoop, EnqueuerPop, EnqueuerEmpty,
     EnqueuerLen, EnqueuerTail, EnqueuerPut, EnqueuerSorted, EnqueuerCheck, EnqueuerCommand,
     NotifyTermination
<1>3. CASE UNCHANGED vars
  BY <1>3, Zenon DEF vars, threads
<1> QED BY <1>1, <1>2, <1>3, Zenon
        DEF Next, Record, Send, Request, Expire, Delete, Tick, threads

LEMMA LoadingStep ==
  ASSUME [Next]_vars
  PROVE  \/ UNCHANGED <<sorting, loaded>>
         \/ sorting' = TRUE /\ loaded' = loaded
         \/ sorting' = FALSE /\ loaded' = TRUE
<1>1. CASE MainStep
  BY <1>1, Zenon DEF MainStep, MainStart, MainLoop, MainRefreshScores, MainRefreshContestant,
     MainGetPosition, MainGetSentinel, MainTimedOut, MainProcess, MainDecide, MainCheck,
     MainCommand, MainFinish, MainDrain, MainPop
<1>2. CASE EnqueuerStep
  BY <1>2, Zenon DEF EnqueuerStep, EnqueueHistory, EnqueuerLoop, EnqueuerPop, EnqueuerEmpty,
     EnqueuerLen, EnqueuerTail, EnqueuerPut, EnqueuerSorted, EnqueuerCheck, EnqueuerCommand
<1>3. CASE UNCHANGED vars
  BY <1>3, Zenon DEF vars, threads
<1> QED BY <1>1, <1>2, <1>3, Zenon
        DEF Next, Record, Send, Request, Expire, Delete, Tick, threads

LEMMA FlagsStep ==
  ASSUME FlagsOK, [Next]_vars
  PROVE  FlagsOK'
<1> DEFINE F(x) == x \in BOOLEAN
<1>1. F(requested) /\ F(deleted) /\ F(sorting) /\ F(loaded) /\ F(terminated)
  BY Zenon DEF FlagsOK
<1>2. F(requested') /\ F(deleted')
  <2>1. UNCHANGED world => requested' = requested /\ deleted' = deleted
    BY Zenon DEF world
  <2>2. requested' \in {requested, TRUE, FALSE} /\ deleted' \in {deleted, TRUE}
    BY <2>1, WorldChanges, Zenon DEF MainDecide, Record, Send, Request, Expire, Delete, Tick
  <2> QED BY <1>1, <2>2, Zenon
<1>3. F(sorting') /\ F(loaded')
  BY <1>1, LoadingStep, Zenon
<1>4. F(terminated')
  BY <1>1, TerminatedStep, Zenon
<1> QED BY <1>2, <1>3, <1>4, Zenon DEF FlagsOK

-----------------------------------------------------------------------------
(* The threads and the queues.                                             *)

\* What the main thread takes from the timed queue is due, and a position of a live run
\* is due when the delay is over.
LEMMA DueIsFlown ==
  ASSUME WorldOK, QueuesOK, Due, timed[1].item # Sentinel
  PROVE  /\ timed[1].item \in One(Flown(conf))
         /\ conf.live => timed[1].item[1].time + Delay < now
<1> DEFINE e == timed[1]
<1>1. e \in Entry(conf)
  BY DEF QueuesOK, Due
<1>2. e.item \in Item(conf) /\ e.release \in Int
  BY <1>1, Zenon DEF Entry
<1>3. e.item \in One(Flown(conf)) /\ e.item[1] \in Flown(conf)
  BY <1>2, ItemIs, OneIs, Zenon
<1>4. ASSUME conf.live PROVE e.item[1].time + Delay < now
  <2>1. e.release = e.item[1].time + Delay /\ e.item[1].time + Delay < MaxNow
    BY <1>1, <1>3, <1>4, FlownIs, Zenon DEF Entry
  <2>2. e.release < now \/ now = MaxNow
    BY Zenon DEF Due
  <2> QED BY <2>1, <2>2
<1> QED BY <1>3, <1>4

LEMMA MainRecord ==
  ASSUME MainOK, NEW at \in MainPlaces, MainGoes(at)
  PROVE  /\ main'.at = at /\ main'.previous = main.previous /\ main'.item = main.item
         /\ main' \in [at : MainPlaces, previous : One(Position) \cup {NoPosition},
                       item : One(Flown(conf)) \cup {NoPosition}]
<1> DEFINE P == One(Position) \cup {NoPosition}
           I == One(Flown(conf)) \cup {NoPosition}
<1>1. main \in [at : MainPlaces, previous : P, item : I] /\ main' = [main EXCEPT !.at = at]
  BY DEF MainOK, MainGoes
<1> HIDE DEF P, I
<1> QED BY <1>1 DEF P, I

\* What is processed: what Cleaned keeps of positions that are due.
LEMMA WithBufferedIs ==
  ASSUME WorldOK, MainOK, main.at = "process", NEW fetches \in BOOLEAN
  PROVE  /\ WithBuffered(main.item[1], fetches) \in Seq(Position)
         /\ conf.live => WithBuffered(main.item[1], fetches)
                           \in Seq({q \in Position : q.time + Delay < now})
<1> DEFINE p == main.item[1]
           Q == {q \in Position : conf.live => q.time + Delay < now}
           w == WithBuffered(p, fetches)
<1>1. p \in Flown(conf) /\ (conf.live => p.time + Delay < now) /\ p \in Position
  <2>1. main.item \in One(Flown(conf)) \cup {NoPosition} /\ main.item # NoPosition
    BY DEF MainOK
  <2> QED BY <2>1, OneIs, FlownIs DEF MainOK
<1>2. p \in Q /\ p.time \in Int
  BY <1>1, Times
<1>3. w \in Seq(Q)
  <2>1. CASE w = <<p>>
    <3> HIDE DEF Q, w
    <3> QED BY <2>1, <1>2
  <2>2. CASE w # <<p>>
    <3> DEFINE a == Before(main.previous[1].time + 1, server)
               b == Before(p.time, server)
    <3>1. /\ conf.live /\ main.previous # NoPosition
          /\ w = SubSeq(server, a + 1, b) \o <<p>>
      BY <2>2, Zenon DEF WithBuffered
    <3>2. /\ server \in Seq(Position)
          /\ \A i, j \in DOMAIN server : i < j => server[i].time < server[j].time
      <4>1. conf.track \in Flights
        BY <3>1 DEF WorldOK
      <4>2. /\ conf.track \in Seq(Position)
            /\ \A i, j \in DOMAIN conf.track : i < j => conf.track[i].time < conf.track[j].time
        BY <4>1, TrackAssumption
      <4>3. /\ server \in Seq(Flown(conf)) /\ Len(server) <= Len(conf.track)
            /\ \A i \in DOMAIN server : server[i] = conf.track[i]
        BY <3>1 DEF WorldOK, Recorded
      <4>4. server \in Seq(Position)
        BY <4>3, FlownIs
      <4>5. DOMAIN server \subseteq DOMAIN conf.track
        BY <4>2, <4>3, <4>4
      <4> QED BY <4>2, <4>3, <4>4, <4>5
    <3>3. main.previous[1].time \in Int
      <4>1. main.previous \in One(Position) \cup {NoPosition}
        BY DEF MainOK
      <4> QED BY <4>1, <3>1, OneIs, Times
    <3>4. a \in Nat /\ b \in 0..Len(server) /\ \A i \in 1..b : server[i].time < p.time
      <4>1. a \in 0..Len(server)
        <5> DEFINE t == main.previous[1].time + 1
        <5>1. t \in Int
          BY <3>3
        <5> HIDE DEF t
        <5>2. Before(t, server) \in 0..Len(server)
          BY <5>1, <3>2, BeforeIs
        <5> QED BY <5>2 DEF t
      <4>2. b \in 0..Len(server) /\ \A i \in 1..b : server[i].time < p.time
        BY <3>2, <1>2, BeforeIs
      <4> QED BY <4>1, <4>2
    <3> HIDE DEF a, b
    <3>5. \A i \in (a + 1)..b : server[i] \in Q
      <4> TAKE i \in (a + 1)..b
      <4>1. i \in 1..b /\ i \in 1..Len(server)
        BY <3>4, <3>2
      <4>2. server[i] \in Position /\ server[i].time < p.time
        BY <4>1, <3>2, <3>4
      <4>3. server[i].time \in Int /\ now \in Int
        BY <4>2, Times DEF WorldOK
      <4>4. server[i].time + Delay < now
        BY <4>2, <4>3, <1>1, <1>2, <3>1, Numbers
      <4> QED BY <4>2, <4>4
    <3> HIDE DEF Q
    <3>6. SubSeq(server, a + 1, b) \in Seq(Q)
      <4>1. a + 1 \in Int /\ b \in Int
        BY <3>4
      <4> QED BY <4>1, <3>5, SubSeqProperties
    <3>7. SubSeq(server, a + 1, b) \o <<p>> \in Seq(Q)
      BY <3>6, <1>2
    <3> QED BY <3>1, <3>7
  <2> QED BY <2>1, <2>2
<1>4. Q \subseteq Position /\ (conf.live => Q \subseteq {q \in Position : q.time + Delay < now})
  OBVIOUS
<1> HIDE DEF Q, w
<1>5. Seq(Q) \subseteq Seq(Position)
  BY <1>4
<1>6. conf.live => Seq(Q) \subseteq Seq({q \in Position : q.time + Delay < now})
  BY <1>4
<1>7. w \in Seq(Position)
  BY <1>3, <1>5, Zenon
<1>8. conf.live => w \in Seq({q \in Position : q.time + Delay < now})
  BY <1>3, <1>6, Zenon
<1> QED BY <1>7, <1>8, Zenon DEF w

\* The positions a live run may have given to the gatekeeper.
Past == {q \in Position : conf.live => q.time + Delay < now}

LEMMA ProcessKeeps ==
  ASSUME WorldOK, MainOK, MainProcess
  PROVE  \E c \in [previous : One(Position) \cup {NoPosition}, kept : Seq(Past)] :
           /\ Kept(Past, main.previous, c)
           /\ processed' \in {processed, processed \o c.kept}
           /\ main' = [at |-> main'.at, previous |-> c.previous, item |-> NoPosition]
           /\ main'.at \in {"decide", "DoesNotExist"}
<1>1. main.at = "process"
  BY Zenon DEF MainProcess
<1>2. PICK fetches \in BOOLEAN :
        LET c == Cleaned(main.previous, WithBuffered(main.item[1], fetches))
            raises == deleted /\ c.kept # <<>>
        IN  /\ processed' = IF raises THEN processed ELSE processed \o c.kept
            /\ main' = [at |-> IF raises THEN "DoesNotExist" ELSE "decide",
                        previous |-> c.previous, item |-> NoPosition]
  BY Zenon DEF MainProcess
<1> DEFINE ps == WithBuffered(main.item[1], fetches)
           c == Cleaned(main.previous, ps)
<1>3. ps \in Seq(Past)
  <2>1. conf.live => {q \in Position : q.time + Delay < now} = Past
    BY DEF Past
  <2>2. ~conf.live => Position = Past
    BY DEF Past
  <2> QED BY <1>1, <2>1, <2>2, WithBufferedIs, Zenon
<1>4. Past \in SUBSET Position /\ main.previous \in One(Position) \cup {NoPosition}
  BY DEF Past, MainOK
<1>5. Kept(Past, main.previous, c)
  <2> HIDE DEF ps
  <2> QED BY <1>3, <1>4, CleanedKeeps
<1>6. c \in [previous : One(Position) \cup {NoPosition}, kept : Seq(Past)]
  <2> HIDE DEF c
  <2> QED BY <1>5, Zenon DEF Kept
<1> DEFINE raises == deleted /\ c.kept # <<>>
<1>7. /\ processed' \in {processed, processed \o c.kept}
      /\ main' = [at |-> IF raises THEN "DoesNotExist" ELSE "decide",
                  previous |-> c.previous, item |-> NoPosition]
  BY <1>2, Zenon
<1> HIDE DEF ps, c, raises
<1>8. /\ main' = [at |-> main'.at, previous |-> c.previous, item |-> NoPosition]
      /\ main'.at \in {"decide", "DoesNotExist"}
  BY <1>7
<1> QED BY <1>5, <1>6, <1>7, <1>8, Zenon

LEMMA MainOKStep ==
  ASSUME WorldOK, MainOK, QueuesOK, [Next]_vars
  PROVE  MainOK'
<1> DEFINE R == [at : MainPlaces, previous : One(Position) \cup {NoPosition},
                 item : One(Flown(conf)) \cup {NoPosition}]
<1>1. conf' = conf
  BY ConfStays
<1>2. main \in R /\ (main.at = "process" => main.item # NoPosition)
      /\ (conf.live /\ main.item # NoPosition => main.item[1].time + Delay < now)
  BY DEF MainOK
<1>3. now \in Int /\ now' \in Int /\ now <= now'
  BY NowGoesOn
<1>4. main.item # NoPosition => main.item[1].time \in Int
  <2>1. main.item \in One(Flown(conf)) \cup {NoPosition}
    BY <1>2
  <2> QED BY <2>1, OneIs, FlownIs, Times
<1>5. conf.live /\ main.item # NoPosition => main.item[1].time + Delay < now'
  BY <1>2, <1>3, <1>4, Numbers
<1>6. CASE UNCHANGED main
  BY <1>1, <1>2, <1>5, <1>6, Zenon DEF MainOK
<1>7. CASE \E at \in MainPlaces \ {"process"} : MainGoes(at)
  <2>1. PICK at \in MainPlaces \ {"process"} : MainGoes(at)
    BY <1>7
  <2>2. main' \in R /\ main'.item = main.item /\ main'.at # "process"
    BY <2>1, MainRecord
  <2> QED BY <2>2, <1>1, <1>5, Zenon DEF MainOK
<1>8. CASE MainGetPosition
  <2> DEFINE x == timed[1].item
  <2>1. /\ Due /\ x # Sentinel
        /\ main' = [main EXCEPT !.at = "process", !.item = x]
        /\ UNCHANGED world
    BY <1>8, Zenon DEF MainGetPosition
  <2>2. x \in One(Flown(conf)) /\ (conf.live => x[1].time + Delay < now)
    BY <2>1, DueIsFlown
  <2>3. now' = now
    BY <2>1, Zenon DEF world
  <2> HIDE DEF x
  <2>4. main'.item = x /\ main'.at = "process" /\ main' \in R
    <3>1. "process" \in MainPlaces
      BY Zenon DEF MainPlaces
    <3> DEFINE P == One(Position) \cup {NoPosition}
               I == One(Flown(conf)) \cup {NoPosition}
    <3>2. main \in [at : MainPlaces, previous : P, item : I] /\ x \in I
      BY <1>2, <2>2
    <3> HIDE DEF P, I
    <3>3. main' \in [at : MainPlaces, previous : P, item : I]
      BY <3>1, <3>2, <2>1
    <3>4. main'.item = x /\ main'.at = "process"
      BY <3>2, <2>1
    <3> QED BY <3>3, <3>4 DEF P, I
  <2>5. x # NoPosition
    BY <2>1 DEF Sentinel, NoPosition
  <2> QED BY <2>2, <2>3, <2>4, <2>5, <1>1, Zenon DEF MainOK
<1>9. CASE MainProcess
  <2> DEFINE P == One(Position) \cup {NoPosition}
             I == One(Flown(conf)) \cup {NoPosition}
  <2>1. PICK c \in [previous : P, kept : Seq(Past)] :
          /\ main' = [at |-> main'.at, previous |-> c.previous, item |-> NoPosition]
          /\ main'.at \in {"decide", "DoesNotExist"}
    BY <1>9, ProcessKeeps, Zenon
  <2>2. {"decide", "DoesNotExist"} \subseteq MainPlaces /\ NoPosition \in I
    BY DEF MainPlaces
  <2> HIDE DEF P, I
  <2>3. main' \in [at : MainPlaces, previous : P, item : I]
    BY <2>1, <2>2
  <2>4. main'.item = NoPosition /\ main'.at # "process"
    BY <2>1
  <2>5. main' \in R
    BY <2>3 DEF P, I
  <2> QED BY <2>4, <2>5, <1>1, Zenon DEF MainOK
<1> QED BY <1>6, <1>7, <1>8, <1>9, MainChanges, CheckGoes, Zenon

LEMMA EntryIs ==
  ASSUME NEW c, NEW p \in Flown(c)
  PROVE  [item |-> <<p>>, release |-> Release(p)] \in Entry(c)
<1> DEFINE e == [item |-> <<p>>, release |-> Release(p)]
<1>1. <<p>> \in Item(c)
  BY OneIs, ItemIs, Zenon
<1>2. p.time \in Int /\ Release(p) = p.time + Delay /\ Release(p) \in Int
  <2>1. p.time \in Int
    BY FlownIs, Times
  <2> QED BY <2>1, Numbers DEF Release
<1>3. e \in [item : Item(c), release : Int]
  BY <1>1, <1>2
<1>4. e.release = e.item[1].time + Delay
  BY <1>2
<1> HIDE DEF e
<1> QED BY <1>3, <1>4, Zenon DEF Entry, e

LEMMA EnqueuerRecord ==
  ASSUME EnqueuerOK, NEW at \in EnqueuerPlaces, EnqueuerGoes(at)
  PROVE  /\ enqueuer'.at = at
         /\ enqueuer' \in [at : EnqueuerPlaces,
                           x : [item : One(Position) \cup {Sentinel}, release : Int]]
<1> DEFINE X == [item : One(Position) \cup {Sentinel}, release : Int]
<1>1. enqueuer \in [at : EnqueuerPlaces, x : X] /\ enqueuer' = [enqueuer EXCEPT !.at = at]
  BY DEF EnqueuerOK, EnqueuerGoes
<1> HIDE DEF X
<1> QED BY <1>1 DEF X

\* The time at which a batch's sentinel is released may be any.
LEMMA SentinelIs ==
  ASSUME NEW c, ~c.live, NEW t \in Int
  PROVE  [item |-> Sentinel, release |-> t] \in Entry(c)
<1>1. Sentinel \in Item(c)
  BY ItemIs
<1> DEFINE e == [item |-> Sentinel, release |-> t]
<1>2. e \in [item : Item(c), release : Int]
  BY <1>1
<1> QED
  <2> HIDE DEF e
  <2> QED BY <1>2, Zenon DEF Entry, e

LEMMA EnqueuerOKStep ==
  ASSUME WorldOK, EnqueuerOK, QueuesOK, [Next]_vars
  PROVE  EnqueuerOK'
<1> DEFINE M == One(Position) \cup {Sentinel}
           X == [item : M, release : Int]
           R == [at : EnqueuerPlaces, x : X]
<1>1. conf' = conf
  BY ConfStays
<1>2. enqueuer \in R
  BY DEF EnqueuerOK
<1>3. now \in Int
  BY NowGoesOn
<1>4. {"len", "tail", "put", "IndexError"} \subseteq EnqueuerPlaces
  BY DEF EnqueuerPlaces
<1>5. CASE UNCHANGED enqueuer
  BY <1>1, <1>5, Zenon DEF EnqueuerOK
<1>6. CASE \E at \in EnqueuerPlaces \ {"len", "tail", "put"} : EnqueuerGoes(at)
  <2>1. PICK at \in EnqueuerPlaces \ {"len", "tail", "put"} : EnqueuerGoes(at)
    BY <1>6
  <2>2. enqueuer' \in R /\ enqueuer'.at \notin {"len", "tail", "put"}
    BY <2>1, EnqueuerRecord
  <2> QED BY <2>2, Zenon DEF EnqueuerOK
<1>7. CASE EnqueuerPop
  <2> DEFINE y == redis[1]
             r == IF y = Sentinel THEN now ELSE Release(y[1])
  <2>1. /\ redis # <<>>
        /\ enqueuer' = [at |-> IF y = Sentinel THEN "len" ELSE "put",
                        x |-> [item |-> y, release |-> r]]
    BY <1>7, Zenon DEF EnqueuerPop
  <2>2. y \in Item(conf)
    BY <2>1 DEF QueuesOK
  <2>3. CASE y = Sentinel
    <3>1. enqueuer'.at = "len" /\ enqueuer'.x = [item |-> Sentinel, release |-> now]
          /\ enqueuer' \in R
      BY <2>1, <2>3, <1>3, <1>4
    <3>2. ~conf.live
      BY <2>2, <2>3, ItemIs, Zenon
    <3>3. enqueuer'.x.item = Sentinel
      BY <3>1
    <3> QED BY <3>1, <3>2, <3>3, <1>1, Zenon DEF EnqueuerOK
  <2>4. CASE y # Sentinel
    <3>1. y \in One(Flown(conf))
      BY <2>2, <2>4, ItemIs, Zenon
    <3>2. y[1] \in Flown(conf) /\ y = <<y[1]>>
      <4>1. y \in Seq(Flown(conf)) /\ Len(y) = 1
        BY <3>1, Zenon DEF One
      <4> QED BY <4>1
    <3>3. [item |-> y, release |-> Release(y[1])] \in Entry(conf)
      BY <3>2, EntryIs, Zenon
    <3>4. y \in One(Position) /\ Release(y[1]) \in Int
      <4>1. One(Flown(conf)) \subseteq One(Position)
        BY FlownIs, OneOfMore, Zenon
      <4>2. y[1].time \in Int
        BY <3>2, FlownIs, Times
      <4> QED BY <4>1, <4>2, <3>1, Numbers DEF Release
    <3>5. /\ enqueuer'.at = "put" /\ enqueuer'.x = [item |-> y, release |-> Release(y[1])]
      BY <2>1, <2>4
    <3>6. enqueuer' \in R
      <4> DEFINE z == [item |-> y, release |-> Release(y[1])]
      <4>1. enqueuer' = [at |-> "put", x |-> z] /\ z \in X
        BY <2>1, <2>4, <3>4
      <4> HIDE DEF z, X
      <4> QED BY <4>1, <1>4
    <3> HIDE DEF y, R, X, M
    <3>7. enqueuer'.x \in Entry(conf)
      BY <3>3, <3>5
    <3>8. enqueuer'.at \notin {"len", "tail"}
      BY <3>5
    <3> QED BY <3>6, <3>7, <3>8, <1>1, Zenon DEF EnqueuerOK, R, X, M
  <2> QED BY <2>3, <2>4
<1>8. ASSUME NEW t \in Int, NEW at \in {"put", "tail"},
             enqueuer.at \in {"len", "tail"},
             enqueuer' = [enqueuer EXCEPT !.at = at, !.x.release = t]
      PROVE  EnqueuerOK'
  <2>1. ~conf.live /\ enqueuer.x.item = Sentinel
    BY <1>8, Zenon DEF EnqueuerOK
  <2>2. enqueuer' \in R /\ enqueuer'.at = at
        /\ enqueuer'.x = [enqueuer.x EXCEPT !.release = t] /\ enqueuer.x \in X
    <3> HIDE DEF M
    <3> QED BY <1>8, <1>2, <1>4
  <2>3. enqueuer'.x = [item |-> Sentinel, release |-> t] /\ enqueuer'.x.item = Sentinel
    <3> HIDE DEF M
    <3> QED BY <2>1, <2>2
  <2>4. enqueuer'.x \in Entry(conf)
    BY <2>1, <2>3, SentinelIs
  <2> QED BY <2>1, <2>2, <2>3, <2>4, <1>1, Zenon DEF EnqueuerOK
<1>9. CASE EnqueuerLen
  <2>1. \E at \in {"put", "tail"} : enqueuer' = [enqueuer EXCEPT !.at = at, !.x.release = now]
    BY <1>9, Zenon DEF EnqueuerLen
  <2>2. enqueuer.at = "len"
    BY <1>9, Zenon DEF EnqueuerLen
  <2> QED BY <2>1, <2>2, <1>3, <1>8
<1>10. CASE EnqueuerTail
  <2>1. CASE timed = <<>>
    <3>1. EnqueuerGoes("IndexError")
      BY <1>10, <2>1, Zenon DEF EnqueuerTail
    <3>2. enqueuer' \in R /\ enqueuer'.at = "IndexError"
      BY <3>1, <1>4, EnqueuerRecord
    <3>3. enqueuer'.at \notin {"len", "tail", "put"}
      BY <3>2
    <3> QED BY <3>2, <3>3, Zenon DEF EnqueuerOK
  <2>2. CASE timed # <<>>
    <3> DEFINE t == TailRelease
    <3>1. enqueuer' = [enqueuer EXCEPT !.at = "put", !.x.release = t]
      BY <1>10, <2>2, Zenon DEF EnqueuerTail
    <3>2. t \in Int
      <4>1. timed[Len(timed)] \in Entry(conf)
        BY <2>2 DEF QueuesOK
      <4>2. timed[Len(timed)].release \in Int
        BY <4>1, Zenon DEF Entry
      <4> QED BY <4>2 DEF TailRelease
    <3>3. enqueuer.at = "tail"
      BY <1>10, Zenon DEF EnqueuerTail
    <3> HIDE DEF t
    <3> QED BY <3>1, <3>2, <3>3, <1>8
  <2> QED BY <2>1, <2>2
<1> QED BY <1>5, <1>6, <1>7, <1>9, <1>10, EnqueuerChanges, CheckGoes, Zenon

\* An item is put into the list, wherever its release time puts it.
LEMMA InsertIs ==
  ASSUME NEW S, NEW q \in Seq(S), NEW x \in S
  PROVE  Insert(q, x) \in Seq(S)
<1> DEFINE D == {i \in DOMAIN q : q[i].release <= x.release}
<1>1. Len(q) \in Nat /\ D \in SUBSET (1..Len(q))
  BY Zenon, LenProperties
<1>2. Cardinality(D) \in 0..Len(q)
  <2> HIDE DEF D
  <2> QED BY <1>1, Counted
<1>3. 1 + Cardinality(D) \in 1..(Len(q) + 1)
  <2> HIDE DEF D
  <2> QED BY <1>1, <1>2
<1>4. Insert(q, x) = InsertAt(q, 1 + Cardinality(D), x)
  BY DEF Insert
<1> QED
  <2> DEFINE k == 1 + Cardinality(D)
  <2>1. k \in 1..(Len(q) + 1)
    BY <1>3
  <2> HIDE DEF k
  <2>2. Inserts(InsertAt(q, k, x), S, q, k, x)
    BY <2>1, InsertAtIs
  <2> QED BY <2>2, <1>4, Zenon DEF Inserts, k

LEMMA QueuesOKStep ==
  ASSUME WorldOK, EnqueuerOK, QueuesOK, [Next]_vars
  PROVE  QueuesOK'
<1>1. conf' = conf
  BY ConfStays
<1>2. redis \in Seq(Item(conf)) /\ timed \in Seq(Entry(conf)) /\ server \in Seq(Flown(conf))
  BY DEF QueuesOK, WorldOK, Recorded
<1> SUFFICES redis' \in Seq(Item(conf)) /\ timed' \in Seq(Entry(conf))
  BY <1>1, Zenon DEF QueuesOK
<1>3. CASE UNCHANGED <<redis, timed>>
  BY <1>2, <1>3
<1>4. CASE MainGetPosition \/ MainGetSentinel
  <2>1. timed' = Tail(timed) /\ timed # <<>> /\ redis' = redis
    BY <1>4, Zenon DEF MainGetPosition, MainGetSentinel, Due
  <2> QED BY <2>1, <1>2, HeadTailProperties
<1>5. CASE MainPop \/ EnqueuerPop
  <2>1. timed' = timed /\ (redis' = redis \/ (redis # <<>> /\ redis' = Tail(redis)))
    BY <1>5, Zenon DEF MainPop, EnqueuerPop
  <2> QED BY <2>1, <1>2, HeadTailProperties
<1>6. CASE EnqueueHistory
  <2> DEFINE h == [i \in DOMAIN server |-> [item |-> <<server[i]>>, release |-> Release(server[i])]]
  <2>1. redis' = redis /\ timed' \in {<<>>, h}
    BY <1>6, Zenon DEF EnqueueHistory
  <2>2. h \in Seq(Entry(conf))
    <3>1. DOMAIN server = 1..Len(server) /\ Len(server) \in Nat
      BY <1>2
    <3>2. \A i \in 1..Len(server) : h[i] \in Entry(conf)
      <4> TAKE i \in 1..Len(server)
      <4>1. server[i] \in Flown(conf)
        BY <1>2
      <4>2. [item |-> <<server[i]>>, release |-> Release(server[i])] \in Entry(conf)
        BY <4>1, EntryIs
      <4> QED BY <4>2, <3>1, Zenon
    <3>3. h = [i \in 1..Len(server) |-> h[i]]
      BY <3>1, Zenon
    <3> HIDE DEF h
    <3> QED BY <3>1, <3>2, <3>3
  <2>3. <<>> \in Seq(Entry(conf))
    OBVIOUS
  <2> HIDE DEF h
  <2> QED BY <2>1, <2>2, <2>3, <1>2, Zenon
<1>7. CASE EnqueuerPut
  <2>1. redis' = redis /\ timed' = Insert(timed, enqueuer.x) /\ enqueuer.at = "put"
    BY <1>7, Zenon DEF EnqueuerPut
  <2>2. enqueuer.x \in Entry(conf)
    BY <2>1, Zenon DEF EnqueuerOK
  <2>3. Insert(timed, enqueuer.x) \in Seq(Entry(conf))
    BY <2>2, <1>2, InsertIs
  <2> QED BY <2>1, <2>3, <1>2, Zenon
<1>8. CASE Send
  <2>1. PICK i \in DOMAIN server : redis' = Append(redis, <<server[i]>>) /\ timed' = timed
    BY <1>8, Zenon DEF Send
  <2>2. server[i] \in Flown(conf)
    BY <1>2
  <2>3. <<server[i]>> \in Item(conf)
    BY <2>2, OneIs, ItemIs, Zenon
  <2> QED BY <2>1, <2>3, <1>2, AppendProperties
<1> QED BY <1>3, <1>4, <1>5, <1>6, <1>7, <1>8, QueuesChange, Zenon

-----------------------------------------------------------------------------
(* What the gatekeeper is given.                                           *)

LEMMA ProcessedChanges ==
  ASSUME [Next]_vars
  PROVE  processed' = processed \/ MainProcess
<1>1. CASE MainStep
  BY <1>1, Zenon DEF MainStep, MainStart, MainLoop, MainRefreshScores, MainRefreshContestant,
     MainGetPosition, MainGetSentinel, MainTimedOut, MainDecide, MainCheck, MainCommand,
     MainFinish, MainDrain, MainPop
<1>2. CASE EnqueuerStep
  BY <1>2, Zenon DEF EnqueuerStep, EnqueueHistory, EnqueuerLoop, EnqueuerPop, EnqueuerEmpty,
     EnqueuerLen, EnqueuerTail, EnqueuerPut, EnqueuerSorted, EnqueuerCheck, EnqueuerCommand
<1>3. CASE UNCHANGED vars
  BY <1>3, Zenon DEF vars
<1> QED BY <1>1, <1>2, <1>3, Zenon
        DEF Next, Record, Send, Request, Expire, Delete, Tick

\* What was given before is not later than the last position considered, and what is given
\* now is later than that.
LEMMA OrderedStep ==
  ASSUME WorldOK, MainOK, QueuesOK, Ordered, [Next]_vars
  PROVE  Ordered'
<1>1. CASE ~MainProcess
  <2>1. processed' = processed
    BY <1>1, ProcessedChanges
  <2>2. main'.previous = main.previous
    <3>1. CASE UNCHANGED main
      BY <3>1
    <3>2. CASE \E at \in MainPlaces \ {"process"} : MainGoes(at)
      BY <3>2, MainRecord
    <3>3. CASE MainGetPosition
      <4> DEFINE P == One(Position) \cup {NoPosition}
                 I == One(Flown(conf)) \cup {NoPosition}
      <4>1. main \in [at : MainPlaces, previous : P, item : I]
        BY DEF MainOK
      <4>2. main' = [main EXCEPT !.at = "process", !.item = timed[1].item]
        BY <3>3, Zenon DEF MainGetPosition
      <4> HIDE DEF P, I
      <4> QED BY <4>1, <4>2
    <3> QED BY <1>1, <3>1, <3>2, <3>3, MainChanges, CheckGoes, Zenon
  <2> QED BY <2>1, <2>2, Zenon DEF Ordered, InTimeOrder
<1>2. CASE MainProcess
  <2>1. PICK c \in [previous : One(Position) \cup {NoPosition}, kept : Seq(Past)] :
           /\ Kept(Past, main.previous, c)
           /\ processed' \in {processed, processed \o c.kept}
           /\ main' = [at |-> main'.at, previous |-> c.previous, item |-> NoPosition]
    BY <1>2, ProcessKeeps, Zenon
  <2> DEFINE k == c.kept
             n == Len(processed)
             last == main.previous
             next == c.previous
  <2>2. main'.previous = next
    BY <2>1
  <2>3. /\ \A i, j \in DOMAIN k : i < j => k[i].time < k[j].time
        /\ \A i \in DOMAIN k : /\ next # NoPosition
                               /\ k[i].time <= next[1].time
                               /\ last # NoPosition => last[1].time < k[i].time
        /\ last # NoPosition => next # NoPosition /\ last[1].time <= next[1].time
    BY <2>1, Zenon DEF Kept
  <2>4. /\ processed \in Seq(Position)
        /\ \A i, j \in DOMAIN processed : i < j => processed[i].time < processed[j].time
        /\ \A i \in DOMAIN processed : last # NoPosition /\ processed[i].time <= last[1].time
    BY Zenon DEF Ordered, InTimeOrder
  <2>5. k \in Seq(Position)
    <3>1. k \in Seq(Past) /\ Past \subseteq Position
      BY DEF Past
    <3> HIDE DEF k
    <3> QED BY <3>1
  <2>6. last # NoPosition => last[1].time \in Int /\ next[1].time \in Int
    <3>1. last \in One(Position) \cup {NoPosition} /\ next \in One(Position) \cup {NoPosition}
      BY DEF MainOK
    <3> HIDE DEF last, next
    <3> QED BY <3>1, <2>3, OneIs, Times
  <2> DEFINE times(q) == \A i \in DOMAIN q : q[i].time \in Int
  <2>7. times(processed) /\ times(k)
    <3> HIDE DEF k
    <3> QED BY <2>4, <2>5, Times
  <2>8. n \in Nat /\ DOMAIN processed = 1..n /\ Len(k) \in Nat /\ DOMAIN k = 1..Len(k)
    <3> HIDE DEF k
    <3> QED BY <2>4, <2>5
  <2> HIDE DEF k, last, next
  <2>9. \A i \in DOMAIN processed : next # NoPosition /\ processed[i].time <= next[1].time
    BY <2>3, <2>4, <2>6, <2>7
  <2>10. CASE processed' = processed
    <3>1. InTimeOrder'
      BY <2>4, <2>10, Zenon DEF InTimeOrder
    <3> QED BY <3>1, <2>2, <2>4, <2>9, <2>10, Zenon DEF Ordered
  <2>11. CASE processed' = processed \o k
    <3> DEFINE q == processed \o k
    <3>1. /\ q \in Seq(Position) /\ DOMAIN q = 1..(n + Len(k))
          /\ \A i \in 1..n : q[i] = processed[i]
          /\ \A i \in (n + 1)..(n + Len(k)) : i - n \in 1..Len(k) /\ q[i] = k[i - n]
      BY <2>4, <2>5, <2>8, ConcatProperties
    <3> HIDE DEF q
    <3>2. \A i, j \in DOMAIN q : i < j => q[i].time < q[j].time
      <4> TAKE i, j \in DOMAIN q
      <4> HAVE i < j
      <4>1. CASE j \in 1..n
        <5>1. i \in 1..n
          BY <4>1, <3>1, <2>8
        <5> QED BY <4>1, <5>1, <3>1, <2>4, <2>8
      <4>2. CASE i \in 1..n /\ j \in (n + 1)..(n + Len(k))
        <5>1. processed[i].time <= last[1].time /\ last # NoPosition /\ processed[i].time \in Int
          BY <4>2, <2>4, <2>7, <2>8
        <5>2. last[1].time < k[j - n].time /\ k[j - n].time \in Int
          BY <4>2, <5>1, <3>1, <2>3, <2>7, <2>8
        <5> QED BY <4>2, <5>1, <5>2, <2>6, <3>1
      <4>3. CASE i \in (n + 1)..(n + Len(k)) /\ j \in (n + 1)..(n + Len(k))
        <5>1. i - n < j - n
          BY <4>3, <2>8
        <5>2. k[i - n].time < k[j - n].time
          BY <4>3, <5>1, <3>1, <2>3, <2>8
        <5> QED BY <4>3, <5>2, <3>1
      <4> QED BY <4>1, <4>2, <4>3, <3>1, <2>8
    <3>3. \A i \in DOMAIN q : next # NoPosition /\ q[i].time <= next[1].time
      <4> TAKE i \in DOMAIN q
      <4>1. CASE i \in 1..n
        BY <4>1, <3>1, <2>9, <2>8
      <4>2. CASE i \in (n + 1)..(n + Len(k))
        BY <4>2, <3>1, <2>3, <2>8
      <4> QED BY <4>1, <4>2, <3>1, <2>8
    <3>4. processed' = q
      BY <2>11 DEF q
    <3>5. InTimeOrder'
      BY <3>2, <3>4, Zenon DEF InTimeOrder
    <3> QED BY <3>1, <3>3, <3>4, <3>5, <2>2, Zenon DEF Ordered
  <2> QED BY <2>1, <2>10, <2>11 DEF k
<1> QED BY <1>1, <1>2

\* What is given to the gatekeeper by one step is due.
LEMMA NothingEarlyStep ==
  ASSUME WorldOK, MainOK, Ordered, [Next]_vars
  PROVE  \A i \in DOMAIN processed' \ DOMAIN processed :
           conf.live => processed'[i].time + Delay < now
<1>1. CASE processed' = processed
  BY <1>1
<1>2. CASE MainProcess /\ processed' # processed
  <2>1. PICK c \in [previous : One(Position) \cup {NoPosition}, kept : Seq(Past)] :
           processed' \in {processed, processed \o c.kept}
    BY <1>2, ProcessKeeps, Zenon
  <2> DEFINE k == c.kept
             n == Len(processed)
  <2>2. processed \in Seq(Position) /\ k \in Seq(Past)
    BY Zenon DEF Ordered
  <2>3. processed' = processed \o k
    BY <2>1, <1>2, Zenon
  <2>4. k \in Seq(Position)
    <3>1. Past \subseteq Position
      BY DEF Past
    <3> HIDE DEF k
    <3> QED BY <2>2, <3>1
  <2> HIDE DEF k
  <2>5. \A i \in DOMAIN processed' \ DOMAIN processed : processed'[i] \in Past
    <3> DEFINE q == processed \o k
    <3>1. /\ DOMAIN q = 1..(n + Len(k)) /\ DOMAIN processed = 1..n /\ n \in Nat /\ Len(k) \in Nat
          /\ \A i \in (n + 1)..(n + Len(k)) : i - n \in 1..Len(k) /\ q[i] = k[i - n]
      BY <2>2, <2>4, ConcatProperties
    <3>2. \A i \in 1..Len(k) : k[i] \in Past
      BY <2>2
    <3> HIDE DEF q
    <3>3. \A i \in DOMAIN q \ DOMAIN processed : q[i] \in Past
      BY <3>1, <3>2
    <3> QED BY <2>3, <3>3 DEF q
  <2> QED BY <2>5, Zenon DEF Past
<1> QED BY <1>1, <1>2, ProcessedChanges

-----------------------------------------------------------------------------
(* The entries of a termination.                                           *)

\* A thread that sends an entry has ended the track, or dies.
LEMMA EntriesChange ==
  ASSUME [Next]_vars, MainOK, EnqueuerOK
  PROVE  \/ entries' = entries
         \/ MainCommand
         \/ EnqueuerCommand
<1>1. CASE MainStep
  BY <1>1, Zenon DEF MainStep, MainStart, MainLoop, MainRefreshScores, MainRefreshContestant,
     MainGetPosition, MainGetSentinel, MainTimedOut, MainProcess, MainDecide, MainCheck,
     MainFinish, MainDrain, MainPop
<1>2. CASE EnqueuerStep
  BY <1>2, Zenon DEF EnqueuerStep, EnqueueHistory, EnqueuerLoop, EnqueuerPop, EnqueuerEmpty,
     EnqueuerLen, EnqueuerTail, EnqueuerPut, EnqueuerSorted, EnqueuerCheck
<1>3. CASE UNCHANGED vars
  BY <1>3, Zenon DEF vars, threads
<1> QED BY <1>1, <1>2, <1>3, Zenon
        DEF Next, Record, Send, Request, Expire, Delete, Tick, threads

\* A track that has been terminated stays so.
LEMMA StaysTerminated ==
  ASSUME [Next]_vars, terminated
  PROVE  terminated'
BY TerminatedStep, Zenon

\* A thread that may not send an entry any more never may again.
LEMMA MainSendsNoMore ==
  ASSUME [Next]_vars, MainOK, MainMaySend'
  PROVE  MainMaySend
<1> SUFFICES ASSUME main.at # "command", terminated \/ main.at = "DoesNotExist" PROVE FALSE
  BY Zenon DEF MainMaySend
<1>1. CASE main.at = "DoesNotExist"
  <2>1. UNCHANGED main
    <3>1. ~MainStep
      BY <1>1 DEF MainStep, MainStart, MainLoop, MainRefreshScores, MainRefreshContestant,
         MainGetPosition, MainGetSentinel, MainTimedOut, MainProcess, MainDecide, MainCheck,
         MainCommand, MainFinish, MainDrain, MainPop
    <3>2. CASE EnqueuerStep
      BY <3>2, Zenon DEF EnqueuerStep, EnqueueHistory, EnqueuerLoop, EnqueuerPop, EnqueuerEmpty,
         EnqueuerLen, EnqueuerTail, EnqueuerPut, EnqueuerSorted, EnqueuerCheck, EnqueuerCommand
    <3>3. CASE UNCHANGED vars
      BY <3>3, Zenon DEF vars, threads
    <3> QED BY <3>1, <3>2, <3>3, Zenon
            DEF Next, Record, Send, Request, Expire, Delete, Tick, threads
  <2>2. main'.at = "DoesNotExist"
    BY <1>1, <2>1
  <2> QED BY <2>2 DEF MainMaySend
<1>2. CASE terminated
  <2>1. terminated' /\ main'.at = "command"
    BY <1>2, StaysTerminated, Zenon DEF MainMaySend
  <2>2. CASE UNCHANGED main
    BY <2>1, <2>2
  <2>3. CASE \E at \in MainPlaces \ {"process", "command"} : MainGoes(at)
    <3>1. PICK at \in MainPlaces : MainGoes(at) /\ at # "command"
      BY <2>3, Zenon
    <3> QED BY <3>1, <2>1, MainRecord
  <2>4. CASE MainGetPosition
    <3> DEFINE P == One(Position) \cup {NoPosition}
               I == One(Flown(conf)) \cup {NoPosition}
    <3>1. /\ main' = [main EXCEPT !.at = "process", !.item = timed[1].item]
          /\ main \in [at : MainPlaces, previous : P, item : I]
      BY <2>4, Zenon DEF MainGetPosition, MainOK
    <3> HIDE DEF P, I
    <3> QED BY <3>1, <2>1
  <2>5. CASE MainProcess
    <3>1. \E at \in {"DoesNotExist", "decide"} : \E r, x :
            main' = [at |-> at, previous |-> r, item |-> x]
      BY <2>5, Zenon DEF MainProcess
    <3> QED BY <3>1, <2>1
  <2> QED BY <2>2, <2>3, <2>4, <2>5, <1>2, MainChanges, CheckGoes, Zenon
<1> QED BY <1>1, <1>2

LEMMA EnqueuerSendsNoMore ==
  ASSUME [Next]_vars, EnqueuerOK, EnqueuerMaySend'
  PROVE  EnqueuerMaySend
<1> SUFFICES ASSUME enqueuer.at # "command", terminated \/ enqueuer.at = "DoesNotExist"
             PROVE  FALSE
  BY Zenon DEF EnqueuerMaySend
<1> DEFINE X == [item : One(Position) \cup {Sentinel}, release : Int]
<1>1. enqueuer \in [at : EnqueuerPlaces, x : X]
  BY DEF EnqueuerOK
<1>2. CASE enqueuer.at = "DoesNotExist"
  <2>1. UNCHANGED enqueuer
    <3>1. ~EnqueuerStep
      BY <1>2 DEF EnqueuerStep, EnqueueHistory, EnqueuerLoop, EnqueuerPop, EnqueuerEmpty,
         EnqueuerLen, EnqueuerTail, EnqueuerPut, EnqueuerSorted, EnqueuerCheck, EnqueuerCommand
    <3>2. CASE MainStep
      BY <3>2, Zenon DEF MainStep, MainStart, MainLoop, MainRefreshScores, MainRefreshContestant,
         MainGetPosition, MainGetSentinel, MainTimedOut, MainProcess, MainDecide, MainCheck,
         MainCommand, MainFinish, MainDrain, MainPop
    <3>3. CASE UNCHANGED vars
      BY <3>3, Zenon DEF vars, threads
    <3> QED BY <3>1, <3>2, <3>3, Zenon
            DEF Next, Record, Send, Request, Expire, Delete, Tick, threads
  <2>2. enqueuer'.at = "DoesNotExist"
    BY <1>2, <2>1
  <2> QED BY <2>2 DEF EnqueuerMaySend
<1>3. CASE terminated
  <2>1. terminated' /\ enqueuer'.at = "command"
    BY <1>3, StaysTerminated, Zenon DEF EnqueuerMaySend
  <2>2. CASE UNCHANGED enqueuer
    BY <2>1, <2>2
  <2>3. CASE \E at \in EnqueuerPlaces \ {"len", "tail", "put", "command"} : EnqueuerGoes(at)
    <3>1. PICK at \in EnqueuerPlaces : EnqueuerGoes(at) /\ at # "command"
      BY <2>3, Zenon
    <3> QED BY <3>1, <2>1, EnqueuerRecord
  <2>4. CASE EnqueuerPop
    <3>1. \E at \in {"len", "put"} : \E y : enqueuer' = [at |-> at, x |-> y]
      BY <2>4, Zenon DEF EnqueuerPop
    <3> QED BY <3>1, <2>1
  <2>5. CASE EnqueuerLen \/ EnqueuerTail
    <3>1. \/ EnqueuerGoes("IndexError")
          \/ \E at \in {"put", "tail"} : \E t : enqueuer' = [enqueuer EXCEPT !.at = at, !.x.release = t]
      BY <2>5, Zenon DEF EnqueuerLen, EnqueuerTail
    <3> HIDE DEF X
    <3>2. enqueuer'.at \in {"IndexError", "put", "tail"}
      BY <3>1, <1>1 DEF EnqueuerGoes
    <3> QED BY <3>2, <2>1
  <2> QED BY <2>2, <2>3, <2>4, <2>5, <1>3, EnqueuerChanges, CheckGoes, Zenon
<1> QED BY <1>2, <1>3

LEMMA SenderIsDone ==
  /\ MainOK /\ MainCommand => MainMaySend /\ ~MainMaySend'
  /\ EnqueuerOK /\ EnqueuerCommand => EnqueuerMaySend /\ ~EnqueuerMaySend'
<1>1. ASSUME MainOK, MainCommand PROVE MainMaySend /\ ~MainMaySend'
  <2>1. MainMaySend
    BY <1>1, Zenon DEF MainMaySend, MainCommand
  <2>2. CASE deleted
    <3>1. MainGoes("DoesNotExist")
      BY <1>1, <2>2, Zenon DEF MainCommand, OrRaise
    <3>2. main'.at = "DoesNotExist"
      BY <3>1, <1>1, MainRecord DEF MainPlaces
    <3> QED BY <2>1, <3>2 DEF MainMaySend
  <2>3. CASE ~deleted
    <3>1. MainGoes("loop") /\ terminated'
      BY <1>1, <2>3, Zenon DEF MainCommand, OrRaise, NotifyTermination
    <3>2. main'.at = "loop"
      BY <3>1, <1>1, MainRecord DEF MainPlaces
    <3>3. main'.at # "command"
      BY <3>2
    <3> QED BY <2>1, <3>1, <3>3, Zenon DEF MainMaySend
  <2> QED BY <2>2, <2>3
<1>2. ASSUME EnqueuerOK, EnqueuerCommand PROVE EnqueuerMaySend /\ ~EnqueuerMaySend'
  <2>1. EnqueuerMaySend
    BY <1>2, Zenon DEF EnqueuerMaySend, EnqueuerCommand
  <2>2. CASE deleted
    <3>1. EnqueuerGoes("DoesNotExist")
      BY <1>2, <2>2, Zenon DEF EnqueuerCommand, OrRaise
    <3>2. enqueuer'.at = "DoesNotExist"
      BY <3>1, <1>2, EnqueuerRecord DEF EnqueuerPlaces
    <3> QED BY <2>1, <3>2 DEF EnqueuerMaySend
  <2>3. CASE ~deleted
    <3>1. EnqueuerGoes("loop") /\ terminated'
      BY <1>2, <2>3, Zenon DEF EnqueuerCommand, OrRaise, NotifyTermination
    <3>2. enqueuer'.at = "loop"
      BY <3>1, <1>2, EnqueuerRecord DEF EnqueuerPlaces
    <3>3. enqueuer'.at # "command"
      BY <3>2
    <3> QED BY <2>1, <3>1, <3>3, Zenon DEF EnqueuerMaySend
  <2> QED BY <2>2, <2>3
<1> QED BY <1>1, <1>2

LEMMA EntriesStep ==
  ASSUME MainOK, EnqueuerOK, EntriesOK, [Next]_vars
  PROVE  EntriesOK'
<1> DEFINE m == MainMaySend
           e == EnqueuerMaySend
<1>1. entries \in 0..2 /\ (m \/ e => entries <= 1) /\ (m /\ e => entries = 0)
  BY Zenon DEF EntriesOK
<1>2. (m' => m) /\ (e' => e)
  BY MainSendsNoMore, EnqueuerSendsNoMore, Zenon
<1> HIDE DEF m, e
<1>3. CASE entries' = entries
  <2>1. entries' \in 0..2 /\ (m' \/ e' => entries' <= 1) /\ (m' /\ e' => entries' = 0)
    BY <1>1, <1>2, <1>3, Zenon
  <2> QED BY <2>1, Zenon DEF EntriesOK, m, e
<1>4. CASE entries' = entries + 1 /\ m /\ ~m'
  <2>1. entries' \in 0..2 /\ (e => entries' = 1)
    BY <1>1, <1>4
  <2>2. e => entries' <= 1
    BY <2>1
  <2> QED BY <1>2, <1>4, <2>1, <2>2, Zenon DEF EntriesOK, m, e
<1>5. CASE entries' = entries + 1 /\ e /\ ~e'
  <2>1. entries' \in 0..2 /\ (m => entries' = 1)
    BY <1>1, <1>5
  <2>2. m => entries' <= 1
    BY <2>1
  <2> QED BY <1>2, <1>5, <2>1, <2>2, Zenon DEF EntriesOK, m, e
<1>6. MainCommand => entries' = entries + 1 /\ m /\ ~m'
  BY SenderIsDone, Zenon DEF MainCommand, m
<1>7. EnqueuerCommand => entries' = entries + 1 /\ e /\ ~e'
  BY SenderIsDone, Zenon DEF EnqueuerCommand, e
<1> QED BY <1>3, <1>4, <1>5, <1>6, <1>7, EntriesChange, Zenon

-----------------------------------------------------------------------------
(* The invariant.                                                          *)

LEMMA InitInvariant == Init => IInv
<1> SUFFICES ASSUME Init PROVE IInv
  OBVIOUS
<1> USE DEF Init
<1>1. conf \in [live : {TRUE}, track : Flights] \cup [live : {FALSE}, track : Batches]
  OBVIOUS
<1>2. conf.live \in BOOLEAN /\ (conf.live => conf.track \in Flights)
      /\ (~conf.live => conf.track \in Batches)
  BY <1>1
<1>3. conf.track \in Seq(Position) /\ conf.track \in Seq(Flown(conf))
  <2>1. CASE conf.live
    <3>1. /\ conf.track \in Seq(Position)
          /\ \A i \in DOMAIN conf.track : conf.track[i].time + Delay < MaxNow
      BY <1>2, <2>1, TrackAssumption
    <3>2. \A i \in DOMAIN conf.track : conf.track[i] \in Flown(conf)
      BY <3>1, <2>1, FlownIs
    <3> QED BY <3>1, <3>2
  <2>2. CASE ~conf.live
    <3>1. conf.track \in Seq(Position)
      BY <1>2, <2>2, TrackAssumption
    <3> QED BY <3>1, <2>2, FlownIs, Zenon
  <2> QED BY <2>1, <2>2
<1>4. Recorded
  <2>1. CASE conf.live
    <3> DEFINE b == Before(0, conf.track)
    <3>1. server = SubSeq(conf.track, 1, b)
      BY <2>1
    <3>2. b \in 0..Len(conf.track)
      <4>1. \A i, j \in DOMAIN conf.track : i < j => conf.track[i].time < conf.track[j].time
        BY <1>2, <2>1, TrackAssumption
      <4> QED BY <4>1, <1>3, BeforeIs
    <3> HIDE DEF b
    <3>3. /\ server \in Seq(Flown(conf)) /\ Len(server) = b
          /\ \A i \in 1..b : server[i] = conf.track[i]
      <4>1. \A i \in 1..b : conf.track[i] \in Flown(conf)
        BY <1>3, <3>2
      <4>2. b \in Int
        BY <3>2
      <4> DEFINE t == conf.track
                 S == Flown(conf)
      <4> HIDE DEF t, S
      <4>3. /\ SubSeq(t, 1, b) \in Seq(S) /\ Len(SubSeq(t, 1, b)) = IF 1 <= b THEN b - 1 + 1 ELSE 0
            /\ \A i \in 1..(b - 1 + 1) : SubSeq(t, 1, b)[i] = t[1 + i - 1]
        BY <4>1, <4>2, SubSeqProperties DEF t, S
      <4>4. b \in Nat /\ (IF 1 <= b THEN b - 1 + 1 ELSE 0) = b /\ 1..(b - 1 + 1) = 1..b
            /\ \A i \in 1..b : 1 + i - 1 = i
        BY <3>2
      <4> HIDE DEF Init
      <4> DEFINE q == SubSeq(t, 1, b)
      <4>5. q \in Seq(S) /\ Len(q) = b /\ \A i \in 1..b : q[i] = t[i]
        <5> HIDE DEF q
        <5> QED BY <4>3, <4>4 DEF q
      <4> QED BY <3>1, <4>5, Zenon DEF t, S
    <3>4. Len(conf.track) \in Nat /\ DOMAIN server = 1..b
      BY <1>3, <3>3
    <3> QED BY <3>2, <3>3, <3>4 DEF Recorded
  <2>2. CASE ~conf.live
    <3>1. server = <<>>
      BY <2>2, Zenon
    <3>2. server \in Seq(Flown(conf))
      BY <3>1, EmptySeq, Zenon
    <3> QED BY <3>2, <2>2, Zenon DEF Recorded
  <2> QED BY <2>1, <2>2
<1>5. WorldOK
  <2>1. now \in 0..MaxNow /\ finished_by \in Int /\ commands \in 0..MaxCommands
    BY Numbers
  <2>2. sent \subseteq DOMAIN server
    OBVIOUS
  <2> QED BY <1>1, <1>4, <2>1, <2>2, Zenon DEF WorldOK
<1>6. FlagsOK
  BY Zenon DEF FlagsOK
<1>7. main.at = "wait" /\ main.previous = NoPosition /\ main.item = NoPosition
  OBVIOUS
<1>8. MainOK
  <2> DEFINE P == One(Position) \cup {NoPosition}
             I == One(Flown(conf)) \cup {NoPosition}
  <2>1. "wait" \in MainPlaces /\ NoPosition \in P /\ NoPosition \in I
    BY DEF MainPlaces
  <2> HIDE DEF P, I
  <2>2. main \in [at : MainPlaces, previous : P, item : I]
    BY <2>1
  <2>3. main.at # "process"
    BY <1>7
  <2> QED BY <2>2, <2>3, <1>7, Zenon DEF MainOK, P, I
<1>9. EnqueuerOK
  <2> DEFINE M == One(Position) \cup {Sentinel}
             x == [item |-> NoPosition, release |-> 0]
  <2>1. "start" \in EnqueuerPlaces /\ NoPosition \in M
    BY DEF EnqueuerPlaces, NoPosition, Sentinel
  <2> HIDE DEF M
  <2>2. x \in [item : M, release : Int]
    BY <2>1
  <2>3. enqueuer = [at |-> "start", x |-> x]
    OBVIOUS
  <2> HIDE DEF x
  <2>4. enqueuer \in [at : EnqueuerPlaces, x : [item : M, release : Int]]
    BY <2>1, <2>2, <2>3
  <2>5. enqueuer.at \notin {"put", "len", "tail"}
    BY <2>3
  <2> QED BY <2>4, <2>5, Zenon DEF EnqueuerOK, M
<1>10. QueuesOK
  <2>1. timed \in Seq(Entry(conf))
    OBVIOUS
  <2>2. CASE conf.live
    <3>1. redis = <<>>
      BY <2>2, Zenon
    <3>2. redis \in Seq(Item(conf))
      BY <3>1, EmptySeq, Zenon
    <3> QED BY <2>1, <3>2 DEF QueuesOK
  <2>3. CASE ~conf.live
    <3> DEFINE t == conf.track
               r == [i \in DOMAIN t |-> <<t[i]>>]
    <3>1. redis = r \o <<Sentinel>>
      BY <2>3
    <3>2. Sentinel \in Item(conf)
      BY <2>3, ItemIs, Zenon
    <3>3. r \in Seq(Item(conf))
      <4>1. DOMAIN t = 1..Len(t) /\ Len(t) \in Nat
        BY <1>3
      <4>2. \A i \in 1..Len(t) : r[i] \in Item(conf)
        <5> TAKE i \in 1..Len(t)
        <5>1. t[i] \in Flown(conf)
          BY <1>3
        <5>2. <<t[i]>> \in Item(conf)
          BY <5>1, OneIs, ItemIs, Zenon
        <5> QED BY <5>2, <4>1, Zenon
      <4>3. r = [i \in 1..Len(t) |-> r[i]]
        BY <4>1, Zenon
      <4> DEFINE n == Len(t)
                 S == Item(conf)
      <4>4. n \in Nat /\ \A i \in 1..n : r[i] \in S
        BY <4>1, <4>2
      <4> HIDE DEF r, n, S
      <4>5. [i \in 1..n |-> r[i]] \in Seq(S)
        BY <4>4
      <4> QED BY <4>3, <4>5 DEF n, S
    <3>4. <<Sentinel>> \in Seq(Item(conf))
      BY <3>2
    <3> HIDE DEF r
    <3>5. r \o <<Sentinel>> \in Seq(Item(conf))
      BY <3>3, <3>4, ConcatProperties
    <3> QED BY <3>1, <3>5, <2>1, Zenon DEF QueuesOK
  <2> QED BY <2>2, <2>3
<1>11. Ordered
  <2>1. processed = <<>> /\ DOMAIN processed = {} /\ processed \in Seq(Position)
    OBVIOUS
  <2> QED BY <2>1, Zenon DEF Ordered, InTimeOrder
<1>12. EntriesOK
  <2>1. entries = 0 /\ entries <= 1 /\ entries \in 0..2
    OBVIOUS
  <2> QED BY <2>1, Zenon DEF EntriesOK
<1> QED BY <1>5, <1>6, <1>8, <1>9, <1>10, <1>11, <1>12, Zenon DEF IInv

LEMMA StepInvariant == IInv /\ [Next]_vars => IInv'
BY WorldStep, FlagsStep, MainOKStep, EnqueuerOKStep, QueuesOKStep, OrderedStep, EntriesStep, Zenon
   DEF IInv

\* Every state of every run is as IInv says.
THEOREM InvariantHolds == Spec => []IInv
BY InitInvariant, StepInvariant, PTL DEF Spec

LEMMA InvariantTypes == IInv => TypeOK
<1> SUFFICES ASSUME IInv PROVE TypeOK
  OBVIOUS
<1> USE DEF IInv
<1>1. /\ finished_by \in Int /\ now \in 0..MaxNow /\ commands \in 0..MaxCommands
      /\ sent \subseteq DOMAIN server
  BY Zenon DEF WorldOK
<1>2. \A i \in DOMAIN server : server[i] \in Position
  <2>1. server \in Seq(Flown(conf)) /\ Flown(conf) \subseteq Position
    BY FlownIs, Zenon DEF WorldOK, Recorded
  <2> QED BY <2>1
<1>3. /\ requested \in BOOLEAN /\ deleted \in BOOLEAN /\ sorting \in BOOLEAN
      /\ loaded \in BOOLEAN /\ terminated \in BOOLEAN
  BY Zenon DEF FlagsOK
<1>4. \A i \in DOMAIN redis : redis[i] \in Seq(Position)
  <2>1. \A x \in Item(conf) : x \in Seq(Position)
    <3> TAKE x \in Item(conf)
    <3>1. CASE x = Sentinel
      BY <3>1 DEF Sentinel
    <3>2. CASE x # Sentinel
      <4>1. x \in One(Flown(conf)) /\ One(Flown(conf)) \subseteq One(Position)
        BY <3>2, ItemIs, FlownIs, OneOfMore, Zenon
      <4> QED BY <4>1, Zenon DEF One
    <3> QED BY <3>1, <3>2
  <2>2. redis \in Seq(Item(conf))
    BY Zenon DEF QueuesOK
  <2>3. \A i \in DOMAIN redis : redis[i] \in Item(conf)
    BY <2>2
  <2> QED BY <2>1, <2>3, Zenon
<1>5. \A i \in DOMAIN timed : timed[i].release \in Int
  <2>1. timed \in Seq(Entry(conf))
    BY Zenon DEF QueuesOK
  <2>2. \A i \in DOMAIN timed : timed[i] \in Entry(conf)
    BY <2>1
  <2>3. \A e \in Entry(conf) : e.release \in Int
    BY DEF Entry
  <2> QED BY <2>2, <2>3, Zenon
<1>6. \A i \in DOMAIN processed : processed[i] \in Position
  <2>1. processed \in Seq(Position)
    BY Zenon DEF Ordered
  <2> QED BY <2>1
<1>7. main.at = "process" => main.item # NoPosition
  BY Zenon DEF MainOK
<1>8. entries \in 0..2
  BY Zenon DEF EntriesOK
<1> QED BY <1>1, <1>2, <1>3, <1>4, <1>5, <1>6, <1>7, <1>8, Zenon DEF TypeOK

\* The variables keep their types, and no more than two entries tell of a termination:
\* each thread sends one at most.
THEOREM TypesHold == Spec => []TypeOK
BY InvariantHolds, InvariantTypes, PTL

\* From wherever the positions come, and in whatever order: those the gatekeeper is given
\* were flown one after the other.
THEOREM InTimeOrderHolds == Spec => []InTimeOrder
<1>1. IInv => InTimeOrder
  BY Zenon DEF IInv, Ordered
<1> QED BY <1>1, InvariantHolds, PTL

\* No position of a live run is scored before the delay is over.
THEOREM NothingEarlyHolds == Spec => NothingEarly
<1> DEFINE A == \A i \in DOMAIN processed' \ DOMAIN processed :
                  conf.live => processed'[i].time + Delay < now
<1>1. IInv /\ [Next]_vars => [A]_processed
  BY NothingEarlyStep, Zenon DEF IInv
<1> QED BY <1>1, InvariantHolds, PTL DEF NothingEarly, Spec


-----------------------------------------------------------------------------
(* A recalculation that is left alone: its batch goes through both queues  *)
(* in one piece, in the order of its times.                                *)

BatchesInOrder ==
  \A b \in Batches : \A i, j \in DOMAIN b : i <= j => b[i].time <= b[j].time

\* The items of a batch, the end among them; how many have left redis, and how many the
\* timed queue; how many positions the main thread has considered.
Whole(i) == IF i <= Len(conf.track) THEN <<conf.track[i]>> ELSE Sentinel
Held == IF enqueuer.at \in {"len", "tail", "put", "IndexError"} THEN 1 ELSE 0
Popped == Len(conf.track) + 1 - Len(redis)
Given == Popped - Held - Len(timed)
Considered == IF main.at = "process" \/ Given > Len(conf.track) THEN Given - 1 ELSE Given

\* What lies in the queues and in the hands of the enqueuer is the rest of the batch.
QueuesHoldRest ==
  /\ Len(redis) <= Len(conf.track) + 1 /\ Given >= 0
  /\ \A i \in DOMAIN redis : redis[i] = Whole(Popped + i)
  /\ \A i \in DOMAIN timed :
       /\ timed[i].item = Whole(Given + i)
       /\ Given + i <= Len(conf.track) => timed[i].release = Release(conf.track[Given + i])
  /\ enqueuer.at = "start" => timed = <<>>
  /\ Held = 1 => Popped >= 1 /\ enqueuer.x.item = Whole(Popped)
  /\ enqueuer.at \in {"len", "tail", "IndexError"} => enqueuer.x.item = Sentinel
  /\ enqueuer.at = "put" =>
       IF Popped <= Len(conf.track) THEN enqueuer.x.release = Release(conf.track[Popped])
       ELSE \A i \in DOMAIN timed : timed[i].release <= enqueuer.x.release

\* The run ends with the end of the batch, and nobody else ends it.
EndsWithBatch ==
  /\ server = <<>> /\ ~requested /\ ~deleted
  /\ terminated => Given = Len(conf.track) + 1
  /\ main.at \in {"finish", "drain", "done"} => terminated
  /\ main.at \notin {"command", "pop", "RedisEmpty", "DoesNotExist"}
  /\ enqueuer.at \notin {"command", "DoesNotExist"}
  /\ main.at = "process" => Given \in 1..Len(conf.track) /\ main.item = Whole(Given)

\* After the first k positions: the last that was later than all before it is the one to
\* compare with, and those that were elsewhere were given to the gatekeeper.
Reached(b, k, previous, done) ==
  /\ k = 0 => previous = NoPosition
  /\ k > 0 => \E r \in 1..k : /\ previous = <<b[r]>> /\ Later(b, r)
                              /\ \A i \in 1..k : b[i].time <= b[r].time
  /\ {done[i] : i \in DOMAIN done} = {b[i] : i \in {j \in Moves(b) : j <= k}}

BatchInv ==
  ~conf.live /\ commands = 0 =>
    QueuesHoldRest /\ EndsWithBatch /\ Reached(conf.track, Considered, main.previous, processed)

\* Positions, queues and their lengths when a batch is processed.
LEMMA BatchTypes ==
  ASSUME IInv, ~conf.live
  PROVE  /\ conf.track \in Batches /\ conf.track \in Seq(Position)
         /\ Len(conf.track) \in Nat /\ DOMAIN conf.track = 1..Len(conf.track)
         /\ \A i \in 1..Len(conf.track) : conf.track[i] \in Position /\ conf.track[i].time \in Int
         /\ redis \in Seq(Item(conf)) /\ Len(redis) \in Nat /\ DOMAIN redis = 1..Len(redis)
         /\ timed \in Seq(Entry(conf)) /\ Len(timed) \in Nat /\ DOMAIN timed = 1..Len(timed)
         /\ \A i \in DOMAIN timed : timed[i].release \in Int
         /\ Held \in {0, 1} /\ Popped \in Int /\ Given \in Int /\ commands \in Nat
<1> USE DEF IInv
<1>1. conf.track \in Batches /\ conf.track \in Seq(Position)
  <2>1. conf \in [live : {TRUE}, track : Flights] \cup [live : {FALSE}, track : Batches]
    BY DEF WorldOK
  <2>2. conf.track \in Batches
    BY <2>1
  <2> QED BY <2>2, TrackAssumption
<1>2. /\ Len(conf.track) \in Nat /\ DOMAIN conf.track = 1..Len(conf.track)
      /\ \A i \in 1..Len(conf.track) : conf.track[i] \in Position
  BY <1>1
<1>3. \A i \in 1..Len(conf.track) : conf.track[i].time \in Int
  BY <1>2, Times
<1>4. redis \in Seq(Item(conf)) /\ timed \in Seq(Entry(conf))
  BY DEF QueuesOK
<1>5. /\ Len(redis) \in Nat /\ DOMAIN redis = 1..Len(redis)
      /\ Len(timed) \in Nat /\ DOMAIN timed = 1..Len(timed)
      /\ \A i \in DOMAIN timed : timed[i] \in Entry(conf)
  BY <1>4
<1>6. \A e \in Entry(conf) : e.release \in Int
  BY Zenon DEF Entry
<1>7. Held \in {0, 1}
  BY DEF Held
<1>8. Popped \in Int /\ Given \in Int
  BY <1>2, <1>5, <1>7 DEF Popped, Given
<1>9. commands \in Nat
  <2>1. commands \in 0..MaxCommands /\ MaxCommands \in Nat
    BY Numbers DEF WorldOK
  <2> QED BY <2>1
<1> QED BY <1>1, <1>2, <1>3, <1>4, <1>5, <1>6, <1>7, <1>8, <1>9

\* Only the last item of a batch is not a position.
LEMMA WholeIs ==
  ASSUME Len(conf.track) \in Nat, NEW i \in Int
  PROVE  /\ Whole(i) = Sentinel <=> i > Len(conf.track)
         /\ i <= Len(conf.track) => Whole(i)[1] = conf.track[i]
<1>1. Sentinel # <<conf.track[i]>>
  BY DEF Sentinel
<1> QED BY <1>1 DEF Whole

\* What the queues hold stays the rest of the batch as long as nothing is moved.
LEMMA RestStays ==
  ASSUME QueuesHoldRest, UNCHANGED <<conf, redis, timed>>,
         \/ UNCHANGED enqueuer
         \/ {enqueuer.at, enqueuer'.at} \subseteq EnqueuerPlaces \ {"start", "len", "tail", "put", "IndexError"}
  PROVE  QueuesHoldRest' /\ Given' = Given
<1>1. conf' = conf /\ redis' = redis /\ timed' = timed
  OBVIOUS
<1>2. Held' = Held
  BY DEF Held
<1>3. Popped' = Popped /\ Given' = Given
  BY <1>1, <1>2 DEF Popped, Given
<1>4. \A i : Whole(i)' = Whole(i)
  BY <1>1 DEF Whole
<1>5. CASE UNCHANGED enqueuer
  BY <1>1, <1>2, <1>3, <1>4, <1>5, Zenon DEF QueuesHoldRest
<1>6. CASE {enqueuer.at, enqueuer'.at}
             \subseteq EnqueuerPlaces \ {"start", "len", "tail", "put", "IndexError"}
  <2>1. Held' = 0
    BY <1>6 DEF Held
  <2>2. Held' # 1 /\ enqueuer'.at \notin {"start", "len", "tail", "put", "IndexError"}
    BY <2>1, <1>6
  <2>3. /\ Len(redis) <= Len(conf.track) + 1 /\ Given >= 0
        /\ \A i \in DOMAIN redis : redis[i] = Whole(Popped + i)
        /\ \A i \in DOMAIN timed :
             /\ timed[i].item = Whole(Given + i)
             /\ Given + i <= Len(conf.track) => timed[i].release = Release(conf.track[Given + i])
    BY DEF QueuesHoldRest
  <2>4. \A t : Release(t)' = Release(t)
    BY DEF Release
  <2>5. /\ (Len(redis) <= Len(conf.track) + 1 /\ Given >= 0)'
        /\ (\A i \in DOMAIN redis : redis[i] = Whole(Popped + i))'
        /\ (\A i \in DOMAIN timed :
             /\ timed[i].item = Whole(Given + i)
             /\ Given + i <= Len(conf.track) => timed[i].release = Release(conf.track[Given + i]))'
    BY <1>1, <1>3, <1>4, <2>3 DEF Release
  <2>6. (/\ enqueuer.at = "start" => timed = <<>>
         /\ Held = 1 => Popped >= 1 /\ enqueuer.x.item = Whole(Popped)
         /\ enqueuer.at \in {"len", "tail", "IndexError"} => enqueuer.x.item = Sentinel
         /\ enqueuer.at = "put" =>
              IF Popped <= Len(conf.track) THEN enqueuer.x.release = Release(conf.track[Popped])
              ELSE \A i \in DOMAIN timed : timed[i].release <= enqueuer.x.release)'
    BY <2>2
  <2> QED BY <2>5, <2>6, <1>3, Zenon DEF QueuesHoldRest
<1> QED BY <1>5, <1>6

\* The main thread takes the first item.
LEMMA RestAfterGet ==
  ASSUME IInv, ~conf.live, QueuesHoldRest, timed # <<>>, timed' = Tail(timed),
         UNCHANGED <<conf, redis, enqueuer>>
  PROVE  /\ QueuesHoldRest' /\ Given' = Given + 1
         /\ Given < Len(conf.track) + 1 /\ timed[1].item = Whole(Given + 1)
<1> DEFINE N == Len(conf.track)
<1>1. /\ N \in Nat /\ Len(redis) \in Nat /\ Len(timed) \in Nat /\ DOMAIN timed = 1..Len(timed)
      /\ timed \in Seq(Entry(conf)) /\ Held \in {0, 1} /\ Popped \in Int /\ Given \in Int
      /\ \A i \in DOMAIN timed : timed[i].release \in Int
  BY BatchTypes
<1>2. Len(timed) > 0
  BY <1>1
<1>3. /\ timed' \in Seq(Entry(conf)) /\ Len(timed') = Len(timed) - 1
      /\ DOMAIN timed' = 1..(Len(timed) - 1)
      /\ \A i \in 1..(Len(timed) - 1) : timed'[i] = timed[i + 1]
  <2>1. /\ Tail(timed) \in Seq(Entry(conf)) /\ Len(Tail(timed)) = Len(timed) - 1
        /\ \A i \in 1..Len(Tail(timed)) : Tail(timed)[i] = timed[i + 1]
    BY <1>1, HeadTailProperties
  <2> QED BY <2>1, LenProperties
<1>4. Held' = Held /\ Popped' = Popped /\ conf' = conf /\ redis' = redis /\ enqueuer' = enqueuer
  BY DEF Held, Popped
<1>5. Given' = Given + 1
  BY <1>1, <1>3, <1>4 DEF Given
<1>6. \A i : Whole(i)' = Whole(i)
  BY <1>4 DEF Whole
<1>7. /\ Len(redis) <= N + 1 /\ Given >= 0
      /\ \A i \in DOMAIN redis : redis[i] = Whole(Popped + i)
      /\ \A i \in DOMAIN timed :
           /\ timed[i].item = Whole(Given + i)
           /\ Given + i <= N => timed[i].release = Release(conf.track[Given + i])
      /\ enqueuer.at = "start" => timed = <<>>
      /\ Held = 1 => Popped >= 1 /\ enqueuer.x.item = Whole(Popped)
      /\ enqueuer.at \in {"len", "tail", "IndexError"} => enqueuer.x.item = Sentinel
      /\ enqueuer.at = "put" =>
           IF Popped <= N THEN enqueuer.x.release = Release(conf.track[Popped])
           ELSE \A i \in DOMAIN timed : timed[i].release <= enqueuer.x.release
  BY DEF QueuesHoldRest
<1>8. Given < N + 1 /\ timed[1].item = Whole(Given + 1)
  <2>1. Given + Len(timed) <= Popped /\ Popped <= N + 1
    BY <1>1 DEF Given, Popped
  <2> QED BY <2>1, <1>1, <1>2, <1>7
<1>9. \A i \in DOMAIN timed' :
        /\ timed'[i].item = Whole((Given + 1) + i)
        /\ (Given + 1) + i <= N => timed'[i].release = Release(conf.track[(Given + 1) + i])
  <2> TAKE i \in DOMAIN timed'
  <2>1. i \in 1..(Len(timed) - 1) /\ i + 1 \in DOMAIN timed /\ Given + (i + 1) = (Given + 1) + i
    BY <1>1, <1>3
  <2> QED BY <2>1, <1>3, <1>7
<1>10. \A i \in DOMAIN timed' : \E j \in DOMAIN timed : timed'[i] = timed[j]
  <2> TAKE i \in DOMAIN timed'
  <2>1. i + 1 \in DOMAIN timed /\ timed'[i] = timed[i + 1]
    BY <1>1, <1>3
  <2> QED BY <2>1
<1>11. enqueuer.at # "start"
  BY <1>2, <1>7
<1>12. /\ (Len(redis) <= Len(conf.track) + 1 /\ Given >= 0)'
       /\ (\A i \in DOMAIN redis : redis[i] = Whole(Popped + i))'
  BY <1>1, <1>4, <1>5, <1>6, <1>7
<1>13. (\A i \in DOMAIN timed :
          /\ timed[i].item = Whole(Given + i)
          /\ Given + i <= Len(conf.track) => timed[i].release = Release(conf.track[Given + i]))'
  BY <1>4, <1>5, <1>6, <1>9 DEF Release
<1>14. (/\ enqueuer.at = "start" => timed = <<>>
        /\ Held = 1 => Popped >= 1 /\ enqueuer.x.item = Whole(Popped)
        /\ enqueuer.at \in {"len", "tail", "IndexError"} => enqueuer.x.item = Sentinel)'
  BY <1>4, <1>6, <1>7, <1>11
<1>15. (enqueuer.at = "put" =>
          IF Popped <= Len(conf.track) THEN enqueuer.x.release = Release(conf.track[Popped])
          ELSE \A i \in DOMAIN timed : timed[i].release <= enqueuer.x.release)'
  BY <1>4, <1>7, <1>10 DEF Release
<1> QED BY <1>5, <1>8, <1>12, <1>13, <1>14, <1>15 DEF QueuesHoldRest

\* The history of a batch is empty.
LEMMA RestAfterHistory ==
  ASSUME IInv, ~conf.live, QueuesHoldRest, server = <<>>, EnqueueHistory
  PROVE  QueuesHoldRest' /\ Given' = Given
<1> DEFINE h == [i \in DOMAIN server |-> [item |-> <<server[i]>>, release |-> Release(server[i])]]
<1>1. h = <<>>
  <2>1. DOMAIN server = {}
    OBVIOUS
  <2> QED BY <2>1
<1>2. enqueuer.at = "start" /\ timed' = <<>> /\ EnqueuerGoes("loop") /\ conf' = conf /\ redis' = redis
  BY <1>1 DEF EnqueueHistory, world
<1>3. enqueuer'.at = "loop"
  <2>1. "loop" \in EnqueuerPlaces
    BY DEF EnqueuerPlaces
  <2> QED BY <2>1, <1>2, EnqueuerRecord DEF IInv
<1>4. Held = 0 /\ Held' = 0 /\ timed = <<>>
  BY <1>2, <1>3 DEF Held, QueuesHoldRest
<1>5. Popped' = Popped /\ Given' = Given
  BY <1>2, <1>4 DEF Popped, Given
<1>6. \A i : Whole(i)' = Whole(i)
  BY <1>2 DEF Whole
<1>7. DOMAIN timed' = {}
  BY <1>2
<1>8. (Len(redis) <= Len(conf.track) + 1 /\ Given >= 0)'
      /\ (\A i \in DOMAIN redis : redis[i] = Whole(Popped + i))'
  BY <1>2, <1>5, <1>6 DEF QueuesHoldRest
<1> QED BY <1>2, <1>3, <1>4, <1>5, <1>7, <1>8 DEF QueuesHoldRest

\* The enqueuer takes the first item of redis.
LEMMA RestAfterPop ==
  ASSUME IInv, ~conf.live, QueuesHoldRest, EnqueuerPop
  PROVE  QueuesHoldRest' /\ Given' = Given
<1> DEFINE N == Len(conf.track)
           x == redis[1]
<1>1. /\ N \in Nat /\ Len(redis) \in Nat /\ DOMAIN redis = 1..Len(redis) /\ Len(timed) \in Nat
      /\ redis \in Seq(Item(conf)) /\ Popped \in Int /\ Given \in Int
  BY BatchTypes
<1>2. /\ enqueuer.at = "pop" /\ redis # <<>> /\ redis' = Tail(redis) /\ timed' = timed /\ conf' = conf
      /\ enqueuer' = [at |-> IF x = Sentinel THEN "len" ELSE "put",
                      x |-> [item |-> x, release |-> IF x = Sentinel THEN now ELSE Release(x[1])]]
  BY Zenon DEF EnqueuerPop, world
<1>3. Len(redis) > 0
  BY <1>1, <1>2
<1>4. /\ Len(redis') = Len(redis) - 1
      /\ DOMAIN redis' = 1..(Len(redis) - 1)
      /\ \A i \in 1..(Len(redis) - 1) : redis'[i] = redis[i + 1]
  <2>1. /\ Tail(redis) \in Seq(Item(conf)) /\ Len(Tail(redis)) = Len(redis) - 1
        /\ \A i \in 1..Len(Tail(redis)) : Tail(redis)[i] = redis[i + 1]
    BY <1>1, <1>2, HeadTailProperties
  <2> QED BY <2>1, <1>2, LenProperties
<1>5. /\ Len(redis) <= N + 1 /\ Given >= 0
      /\ \A i \in DOMAIN redis : redis[i] = Whole(Popped + i)
  BY DEF QueuesHoldRest
<1>6. /\ enqueuer'.at = IF x = Sentinel THEN "len" ELSE "put"
      /\ enqueuer'.x.item = x
      /\ x # Sentinel => enqueuer'.x.release = Release(x[1])
  BY <1>2
<1>7. Held = 0 /\ Held' = 1
  BY <1>2, <1>6 DEF Held
<1>8. Popped' = Popped + 1 /\ Given' = Given
  BY <1>1, <1>2, <1>4, <1>7 DEF Popped, Given
<1>9. \A i : Whole(i)' = Whole(i)
  BY <1>2 DEF Whole
<1>10. x = Whole(Popped + 1) /\ Popped + 1 >= 1
  <2>1. 1 \in DOMAIN redis
    BY <1>1, <1>3
  <2> QED BY <2>1, <1>1, <1>5 DEF Popped
<1>11. /\ x = Sentinel <=> Popped + 1 > N
       /\ Popped + 1 <= N => x[1] = conf.track[Popped + 1]
  BY <1>1, <1>10, WholeIs
<1> HIDE DEF x, N
<1>12. \A i \in 1..(Len(redis) - 1) : redis'[i] = Whole((Popped + 1) + i)
  <2> TAKE i \in 1..(Len(redis) - 1)
  <2>1. i + 1 \in DOMAIN redis /\ Popped + (i + 1) = (Popped + 1) + i
    BY <1>1
  <2> QED BY <2>1, <1>4, <1>5
<1>13. (/\ Len(redis) <= Len(conf.track) + 1 /\ Given >= 0
        /\ \A i \in DOMAIN redis : redis[i] = Whole(Popped + i))'
  BY <1>1, <1>2, <1>4, <1>5, <1>8, <1>9, <1>12 DEF N
<1>14. (\A i \in DOMAIN timed :
          /\ timed[i].item = Whole(Given + i)
          /\ Given + i <= Len(conf.track) => timed[i].release = Release(conf.track[Given + i]))'
  BY <1>2, <1>8, <1>9 DEF QueuesHoldRest, Release
<1>15. (/\ enqueuer.at = "start" => timed = <<>>
        /\ Held = 1 => Popped >= 1 /\ enqueuer.x.item = Whole(Popped)
        /\ enqueuer.at \in {"len", "tail", "IndexError"} => enqueuer.x.item = Sentinel)'
  BY <1>6, <1>8, <1>9, <1>10 DEF Sentinel
<1>16. (enqueuer.at = "put" =>
          IF Popped <= Len(conf.track) THEN enqueuer.x.release = Release(conf.track[Popped])
          ELSE \A i \in DOMAIN timed : timed[i].release <= enqueuer.x.release)'
  <2>1. CASE x = Sentinel
    BY <2>1, <1>6
  <2>2. CASE x # Sentinel
    <3>1. Popped + 1 <= N /\ enqueuer'.x.release = Release(conf.track[Popped + 1])
      BY <2>2, <1>1, <1>6, <1>11
    <3> QED BY <3>1, <1>2, <1>8 DEF N, Release
  <2> QED BY <2>1, <2>2
<1> QED BY <1>8, <1>13, <1>14, <1>15, <1>16, Zenon DEF QueuesHoldRest

\* When the end of the batch has left redis, the timed queue holds positions in order.
LEMMA RestIsSorted ==
  ASSUME IInv, ~conf.live, BatchesInOrder, QueuesHoldRest,
         Held = 1
  PROVE  /\ Given + Len(timed) = Popped - 1 /\ Popped <= Len(conf.track) + 1
         /\ \A i, j \in DOMAIN timed : i <= j => timed[i].release <= timed[j].release
         /\ Popped <= Len(conf.track) =>
              \A i \in DOMAIN timed : timed[i].release <= Release(conf.track[Popped])
<1> DEFINE N == Len(conf.track)
           T == conf.track
<1>1. /\ N \in Nat /\ Len(redis) \in Nat /\ Len(timed) \in Nat /\ DOMAIN timed = 1..Len(timed)
      /\ Popped \in Int /\ Given \in Int /\ DOMAIN T = 1..N
      /\ \A i \in 1..N : T[i].time \in Int
  BY BatchTypes
<1>2. Given + Len(timed) = Popped - 1 /\ Popped <= N + 1 /\ Given >= 0
  BY <1>1 DEF Given, Popped, QueuesHoldRest
<1>3. \A i, j \in 1..N : i <= j => T[i].time <= T[j].time
  <2>1. T \in Batches
    BY BatchTypes
  <2> QED BY <2>1, <1>1 DEF BatchesInOrder
<1>4. \A i, j \in 1..N : i <= j => Release(T[i]) <= Release(T[j])
  <2> TAKE i, j \in 1..N
  <2> HAVE i <= j
  <2>1. T[i].time <= T[j].time /\ T[i].time \in Int /\ T[j].time \in Int
    BY <1>1, <1>3
  <2> QED BY <2>1, Numbers DEF Release
<1>5. \A i \in DOMAIN timed : timed[i].release = Release(T[Given + i]) /\ Given + i \in 1..N
                              /\ Given + i < Popped
  <2> TAKE i \in DOMAIN timed
  <2>1. Given + i \in 1..N /\ Given + i < Popped
    BY <1>1, <1>2
  <2> QED BY <2>1 DEF QueuesHoldRest
<1> HIDE DEF T, N
<1>6. \A i, j \in DOMAIN timed : i <= j => timed[i].release <= timed[j].release
  <2> TAKE i, j \in DOMAIN timed
  <2> HAVE i <= j
  <2>1. Given + i <= Given + j
    BY <1>1
  <2> QED BY <2>1, <1>4, <1>5
<1>7. Popped <= N => \A i \in DOMAIN timed : timed[i].release <= Release(T[Popped])
  <2> HAVE Popped <= N
  <2> TAKE i \in DOMAIN timed
  <2>1. Given + i \in 1..N /\ Given + i < Popped /\ Popped \in 1..N /\ Given + i <= Popped
    BY <1>1, <1>2, <1>5
  <2> QED BY <2>1, <1>4, <1>5
<1> QED BY <1>2, <1>6, <1>7 DEF N, T

\* The enqueuer looks for the release time of the end.
LEMMA RestAfterLook ==
  ASSUME IInv, ~conf.live, BatchesInOrder, QueuesHoldRest, EnqueuerLen \/ EnqueuerTail
  PROVE  QueuesHoldRest' /\ Given' = Given
<1> DEFINE N == Len(conf.track)
<1>1. /\ N \in Nat /\ Len(timed) \in Nat /\ DOMAIN timed = 1..Len(timed)
      /\ Popped \in Int /\ Given \in Int /\ \A i \in DOMAIN timed : timed[i].release \in Int
  BY BatchTypes
<1>2. /\ enqueuer.at \in {"len", "tail"} /\ conf' = conf /\ redis' = redis /\ timed' = timed
  BY DEF EnqueuerLen, EnqueuerTail, world
<1>3. Held = 1 /\ enqueuer.x.item = Sentinel /\ enqueuer.x.item = Whole(Popped) /\ Popped >= 1
  BY <1>2 DEF Held, QueuesHoldRest
<1>4. Popped > N
  BY <1>1, <1>3, WholeIs
<1>5. /\ enqueuer'.at \in {"tail", "put", "IndexError"}
      /\ enqueuer'.x.item = enqueuer.x.item
      /\ enqueuer'.at = "put" => \A i \in DOMAIN timed : timed[i].release <= enqueuer'.x.release
  <2> DEFINE M == One(Position) \cup {Sentinel}
  <2>1. enqueuer \in [at : EnqueuerPlaces, x : [item : M, release : Int]]
    BY DEF IInv, EnqueuerOK
  <2> HIDE DEF M
  <2>2. CASE EnqueuerLen
    <3>1. enqueuer' = [enqueuer EXCEPT !.at = IF timed = <<>> THEN "put" ELSE "tail",
                                       !.x.release = now]
      BY <2>2, Zenon DEF EnqueuerLen
    <3>2. enqueuer'.at = IF timed = <<>> THEN "put" ELSE "tail"
      BY <2>1, <3>1
    <3>3. enqueuer'.x.item = enqueuer.x.item
      BY <2>1, <3>1
    <3>4. timed = <<>> => DOMAIN timed = {}
      OBVIOUS
    <3> QED BY <3>2, <3>3, <3>4
  <2>3. CASE EnqueuerTail /\ timed = <<>>
    <3>1. enqueuer' = [enqueuer EXCEPT !.at = "IndexError"]
      BY <2>3, Zenon DEF EnqueuerTail, EnqueuerGoes
    <3> QED BY <2>1, <3>1
  <2>4. CASE EnqueuerTail /\ timed # <<>>
    <3>1. enqueuer' = [enqueuer EXCEPT !.at = "put", !.x.release = TailRelease]
      BY <2>4, Zenon DEF EnqueuerTail
    <3>2. /\ enqueuer'.at = "put" /\ enqueuer'.x.item = enqueuer.x.item
          /\ enqueuer'.x.release = timed[Len(timed)].release + 1
      BY <2>1, <3>1 DEF TailRelease
    <3>3. Len(timed) \in DOMAIN timed
      BY <2>4, <1>1
    <3>4. \A i \in DOMAIN timed : timed[i].release <= timed[Len(timed)].release
      BY <3>3, <1>1, <1>3, RestIsSorted
    <3> QED BY <3>2, <3>3, <3>4, <1>1
  <2> QED BY <2>2, <2>3, <2>4
<1>6. Held' = 1
  BY <1>5 DEF Held
<1>7. Popped' = Popped /\ Given' = Given
  BY <1>2, <1>3, <1>6 DEF Popped, Given
<1>8. \A i : Whole(i)' = Whole(i)
  BY <1>2 DEF Whole
<1>9. (/\ Len(redis) <= Len(conf.track) + 1 /\ Given >= 0
       /\ \A i \in DOMAIN redis : redis[i] = Whole(Popped + i)
       /\ \A i \in DOMAIN timed :
            /\ timed[i].item = Whole(Given + i)
            /\ Given + i <= Len(conf.track) => timed[i].release = Release(conf.track[Given + i]))'
  BY <1>2, <1>7, <1>8 DEF QueuesHoldRest, Release
<1>10. (/\ enqueuer.at = "start" => timed = <<>>
        /\ Held = 1 => Popped >= 1 /\ enqueuer.x.item = Whole(Popped)
        /\ enqueuer.at \in {"len", "tail", "IndexError"} => enqueuer.x.item = Sentinel)'
  BY <1>3, <1>5, <1>7, <1>8 DEF Sentinel
<1>11. (enqueuer.at = "put" =>
          IF Popped <= Len(conf.track) THEN enqueuer.x.release = Release(conf.track[Popped])
          ELSE \A i \in DOMAIN timed : timed[i].release <= enqueuer.x.release)'
  BY <1>1, <1>2, <1>4, <1>5, <1>7
<1> QED BY <1>7, <1>9, <1>10, <1>11, Zenon DEF QueuesHoldRest

\* What is not released before any other item is put at the end.
LEMMA InsertAtEnd ==
  ASSUME NEW S, NEW q \in Seq(S), NEW x \in S, \A i \in DOMAIN q : q[i].release <= x.release
  PROVE  /\ Len(Insert(q, x)) = Len(q) + 1 /\ Insert(q, x)[Len(q) + 1] = x
         /\ \A i \in 1..Len(q) : Insert(q, x)[i] = q[i]
<1> DEFINE D == {i \in DOMAIN q : q[i].release <= x.release}
<1>1. Len(q) \in Nat /\ DOMAIN q = 1..Len(q)
  OBVIOUS
<1>2. D = 1..Len(q)
  BY <1>1
<1>3. Cardinality(D) = Len(q)
  <2>1. Cardinality(1..Len(q)) = IF 1 <= Len(q) THEN Len(q) - 1 + 1 ELSE 0
    BY <1>1, FS_Interval
  <2> HIDE DEF D
  <2> QED BY <2>1, <1>1, <1>2
<1>4. Insert(q, x) = InsertAt(q, 1 + Len(q), x)
  BY <1>3 DEF Insert
<1>5. 1 + Len(q) \in 1..(Len(q) + 1) /\ 1 + Len(q) = Len(q) + 1
  BY <1>1
<1>6. Inserts(InsertAt(q, 1 + Len(q), x), S, q, 1 + Len(q), x)
  BY <1>5, InsertAtIs
<1> HIDE DEF D
<1> QED BY <1>1, <1>4, <1>5, <1>6 DEF Inserts

\* The enqueuer puts what it holds behind what is there.
LEMMA RestAfterPut ==
  ASSUME IInv, ~conf.live, BatchesInOrder, QueuesHoldRest, EnqueuerPut
  PROVE  QueuesHoldRest' /\ Given' = Given
<1> DEFINE N == Len(conf.track)
           x == enqueuer.x
<1>1. /\ N \in Nat /\ Len(timed) \in Nat /\ DOMAIN timed = 1..Len(timed)
      /\ Len(redis) \in Nat /\ DOMAIN redis = 1..Len(redis)
      /\ timed \in Seq(Entry(conf)) /\ Popped \in Int /\ Given \in Int
  BY BatchTypes
<1>2. /\ enqueuer.at = "put" /\ timed' = Insert(timed, x) /\ EnqueuerGoes("sort")
      /\ conf' = conf /\ redis' = redis
  BY DEF EnqueuerPut, world
<1>3. enqueuer'.at = "sort" /\ x \in Entry(conf)
  <2>1. "sort" \in EnqueuerPlaces
    BY DEF EnqueuerPlaces
  <2>2. enqueuer'.at = "sort"
    BY <2>1, <1>2, EnqueuerRecord DEF IInv
  <2> QED BY <2>2, <1>2 DEF IInv, EnqueuerOK
<1>4. Held = 1 /\ Held' = 0
  BY <1>2, <1>3 DEF Held
<1>5. Given + Len(timed) = Popped - 1 /\ Popped <= N + 1
  BY <1>4, RestIsSorted
<1>6. \A i \in DOMAIN timed : timed[i].release <= x.release
  <2>1. CASE Popped <= N
    BY <2>1, <1>2, <1>4, RestIsSorted DEF QueuesHoldRest
  <2>2. CASE ~(Popped <= N)
    BY <2>2, <1>2 DEF QueuesHoldRest
  <2> QED BY <2>1, <2>2
<1>7. x.item = Whole(Popped) /\ (Popped <= N => x.release = Release(conf.track[Popped]))
  BY <1>2, <1>4 DEF QueuesHoldRest
<1> HIDE DEF x
<1>8. /\ Len(timed') = Len(timed) + 1 /\ timed'[Len(timed) + 1] = x
      /\ \A i \in 1..Len(timed) : timed'[i] = timed[i]
      /\ DOMAIN timed' = 1..(Len(timed) + 1)
  <2>1. Insert(timed, x) \in Seq(Entry(conf))
    BY <1>1, <1>3, InsertIs DEF x
  <2>2. DOMAIN timed' = 1..Len(timed')
    BY <2>1, <1>2
  <2>3. \A i \in DOMAIN timed : timed[i].release <= x.release
    BY <1>6
  <2>4. /\ Len(Insert(timed, x)) = Len(timed) + 1 /\ Insert(timed, x)[Len(timed) + 1] = x
        /\ \A i \in 1..Len(timed) : Insert(timed, x)[i] = timed[i]
    <3>1. timed \in Seq(Entry(conf)) /\ x \in Entry(conf)
      BY <1>1, <1>3 DEF x
    <3> QED BY <3>1, <2>3, InsertAtEnd
  <2>5. timed' = Insert(timed, x)
    BY <1>2 DEF x
  <2> QED BY <2>2, <2>4, <2>5
<1>9. Popped' = Popped /\ Given' = Given
  BY <1>1, <1>2, <1>4, <1>8 DEF Popped, Given
<1>10. \A i : Whole(i)' = Whole(i)
  BY <1>2 DEF Whole
<1>11. \A i \in DOMAIN timed' :
         /\ timed'[i].item = Whole(Given + i)
         /\ Given + i <= N => timed'[i].release = Release(conf.track[Given + i])
  <2> TAKE i \in DOMAIN timed'
  <2>1. i \in DOMAIN timed \/ i = Len(timed) + 1
    BY <1>1, <1>8
  <2>2. CASE i \in DOMAIN timed
    BY <2>2, <1>1, <1>8 DEF QueuesHoldRest
  <2>3. CASE i = Len(timed) + 1
    <3>1. Given + i = Popped
      BY <2>3, <1>1, <1>5
    <3> QED BY <3>1, <2>3, <1>7, <1>8
  <2> QED BY <2>1, <2>2, <2>3
<1>12. (/\ Len(redis) <= Len(conf.track) + 1 /\ Given >= 0
        /\ \A i \in DOMAIN redis : redis[i] = Whole(Popped + i)
        /\ \A i \in DOMAIN timed :
             /\ timed[i].item = Whole(Given + i)
             /\ Given + i <= Len(conf.track) => timed[i].release = Release(conf.track[Given + i]))'
  BY <1>2, <1>9, <1>10, <1>11 DEF QueuesHoldRest, Release
<1>13. (/\ enqueuer.at = "start" => timed = <<>>
        /\ Held = 1 => Popped >= 1 /\ enqueuer.x.item = Whole(Popped)
        /\ enqueuer.at \in {"len", "tail", "IndexError"} => enqueuer.x.item = Sentinel
        /\ enqueuer.at = "put" =>
             IF Popped <= Len(conf.track) THEN enqueuer.x.release = Release(conf.track[Popped])
             ELSE \A i \in DOMAIN timed : timed[i].release <= enqueuer.x.release)'
  BY <1>3, <1>4
<1> QED BY <1>9, <1>12, <1>13, Zenon DEF QueuesHoldRest

\* One position is considered by itself.
LEMMA CleanedOne ==
  ASSUME NEW previous, NEW p
  PROVE  Cleaned(previous, <<p>>) = Consider([previous |-> previous, kept |-> <<>>], p)
<1> DEFINE s == [previous |-> previous, kept |-> <<>>]
           ps == <<p>>
           F(h) == h = [i \in 0..Len(ps) |-> IF i = 0 THEN s ELSE Consider(h[i - 1], ps[i])]
           f == [i \in 0..1 |-> IF i = 0 THEN s ELSE Consider(s, p)]
           u == CHOOSE h : F(h)
<1>1. Len(ps) = 1 /\ ps[1] = p
  OBVIOUS
<1>2. F(f)
  <2>1. \A i \in 0..1 : f[i] = IF i = 0 THEN s ELSE Consider(f[i - 1], ps[i])
    <3> HIDE DEF s
    <3> TAKE i \in 0..1
    <3>1. CASE i = 0
      BY <3>1
    <3>2. CASE i = 1
      BY <3>2, <1>1
    <3> QED BY <3>1, <3>2
  <2>2. f = [i \in 0..1 |-> f[i]]
    OBVIOUS
  <2> HIDE DEF f, s, ps
  <2>3. f = [i \in 0..1 |-> IF i = 0 THEN s ELSE Consider(f[i - 1], ps[i])]
    BY <2>1, <2>2
  <2> QED BY <2>3, <1>1
<1>3. F(u)
  <2> HIDE DEF F
  <2> QED BY <1>2, Zenon
<1>4. u[0] = s /\ u[1] = Consider(u[0], p)
  <2> HIDE DEF u, s
  <2>1. \A i \in 0..Len(ps) : u[i] = IF i = 0 THEN s ELSE Consider(u[i - 1], ps[i])
    BY <1>3
  <2> QED BY <2>1, <1>1
<1>5. Cleaned(previous, ps) = u[Len(ps)]
  BY DEF Cleaned
<1> HIDE DEF u, s
<1> QED BY <1>1, <1>4, <1>5 DEF s

\* One more position of the batch is considered.
LEMMA ReachedNext ==
  ASSUME NEW b \in Seq(Position), NEW k \in 0..(Len(b) - 1), NEW done \in Seq(Position),
         NEW previous \in One(Position) \cup {NoPosition}, NEW c,
         c = Consider([previous |-> previous, kept |-> <<>>], b[k + 1]),
         Reached(b, k, previous, done)
  PROVE  Reached(b, k + 1, c.previous, done \o c.kept)
<1> DEFINE p == b[k + 1]
           s == [previous |-> previous, kept |-> <<>>]
           Had == {b[i] : i \in {j \in Moves(b) : j <= k}}
           Has == {b[i] : i \in {j \in Moves(b) : j <= k + 1}}
<1>1. /\ Len(b) \in Nat /\ DOMAIN b = 1..Len(b) /\ k \in Nat /\ k + 1 \in DOMAIN b
      /\ \A i \in DOMAIN b : b[i] \in Position /\ b[i].time \in Int
      /\ <<p>>[1] = p /\ <<p>> # NoPosition
  <2>1. /\ Len(b) \in Nat /\ DOMAIN b = 1..Len(b) /\ k \in Nat /\ k + 1 \in DOMAIN b
        /\ \A i \in DOMAIN b : b[i] \in Position
    OBVIOUS
  <2> QED BY <2>1, Times DEF NoPosition
<1>2. Moves(b) = {i \in DOMAIN b :
        /\ Later(b, i)
        /\ \A j \in 1..(i - 1) :
             Later(b, j) /\ (\A m \in (j + 1)..(i - 1) : ~Later(b, m)) => b[j].spot # b[i].spot}
  BY DEF Moves
<1>3. \A i \in DOMAIN b : Later(b, i) <=> \A j \in 1..(i - 1) : b[j].time < b[i].time
  BY DEF Later
<1>4. {done[i] : i \in DOMAIN done} = Had
  BY DEF Reached
<1>5. c = IF s.previous # NoPosition /\ (p.spot = s.previous[1].spot \/ s.previous[1].time >= p.time)
          THEN [s EXCEPT !.previous = IF s.previous[1].time < p.time THEN <<p>> ELSE s.previous]
          ELSE [previous |-> <<p>>, kept |-> Append(s.kept, p)]
  BY Zenon DEF Consider
<1>6. Append(<<>>, p) = <<p>>
  OBVIOUS
<1> DEFINE drops == previous # NoPosition /\ (p.spot = previous[1].spot \/ previous[1].time >= p.time)
<1>7. /\ drops => /\ c.kept = <<>>
                  /\ c.previous = IF previous[1].time < p.time THEN <<p>> ELSE previous
      /\ ~drops => c.kept = <<p>> /\ c.previous = <<p>>
  <2> HIDE DEF p
  <2>1. s.previous = previous /\ s.kept = <<>>
    OBVIOUS
  <2>2. CASE drops
    <3>1. c = [s EXCEPT !.previous = IF previous[1].time < p.time THEN <<p>> ELSE previous]
      BY <2>1, <2>2, <1>5
    <3> QED BY <3>1, <2>2
  <2>3. CASE ~drops
    <3>1. c = [previous |-> <<p>>, kept |-> <<p>>]
      BY <2>1, <2>3, <1>5, <1>6
    <3> QED BY <3>1, <2>3
  <2> QED BY <2>2, <2>3
<1>8. \A i \in 1..(k + 1) : i \in 1..k \/ i = k + 1
  BY <1>1
<1>9. Has = Had \cup (IF k + 1 \in Moves(b) THEN {p} ELSE {})
  <2>1. \A i \in Moves(b) : i \in 1..Len(b) /\ (i <= k + 1 <=> (i <= k \/ i = k + 1))
    BY <1>1, <1>2
  <2> QED BY <2>1, <1>1
<1>10. /\ done \o <<>> = done
       /\ {(done \o <<p>>)[i] : i \in DOMAIN (done \o <<p>>)}
            = {done[i] : i \in DOMAIN done} \cup {p}
  <2>1. Len(done) \in Nat /\ DOMAIN done = 1..Len(done)
    OBVIOUS
  <2>2. /\ done \o <<p>> \in Seq(Position) /\ Len(done \o <<p>>) = Len(done) + 1
        /\ \A i \in 1..Len(done) : (done \o <<p>>)[i] = done[i]
        /\ (done \o <<p>>)[Len(done) + 1] = p
    BY <1>1, <2>1
  <2> DEFINE d == done \o <<p>>
  <2>3. DOMAIN d = 1..(Len(done) + 1)
    BY <2>2
  <2> HIDE DEF d
  <2>4. {d[i] : i \in DOMAIN d} = {done[i] : i \in DOMAIN done} \cup {p}
    <3>1. \A i \in DOMAIN d : i \in DOMAIN done \/ i = Len(done) + 1
      BY <2>1, <2>3
    <3>2. \A i \in DOMAIN done : d[i] = done[i] /\ i \in DOMAIN d
      BY <2>1, <2>2, <2>3 DEF d
    <3>3. Len(done) + 1 \in DOMAIN d /\ d[Len(done) + 1] = p
      BY <2>1, <2>2, <2>3 DEF d
    <3> HIDE DEF p
    <3> QED BY <3>1, <3>2, <3>3
  <2>5. done \o <<>> = done
    OBVIOUS
  <2> HIDE DEF p
  <2> QED BY <2>4, <2>5 DEF d
<1>11. CASE k = 0
  <2>1. previous = NoPosition
    BY <1>11 DEF Reached
  <2>2. c.kept = <<p>> /\ c.previous = <<p>>
    BY <2>1, <1>7
  <2>3. 1..(k + 1) = {1} /\ k + 1 = 1 /\ 1..(1 - 1) = {}
    BY <1>11
  <2>4. Later(b, k + 1) /\ k + 1 \in Moves(b)
    BY <2>3, <1>1, <1>2, <1>3
  <2>5. \A i \in 1..(k + 1) : b[i].time <= b[k + 1].time
    BY <2>3, <1>1
  <2>6. {(done \o c.kept)[i] : i \in DOMAIN (done \o c.kept)} = Has
    <3> HIDE DEF Has, Had, p
    <3> QED BY <2>2, <2>4, <1>4, <1>9, <1>10
  <2>7. k + 1 # 0 /\ k + 1 \in 1..(k + 1)
    BY <1>1
  <2> QED BY <2>2, <2>4, <2>5, <2>6, <2>7 DEF Reached
<1>12. CASE k # 0
  <2>1. PICK r \in 1..k : /\ previous = <<b[r]>> /\ Later(b, r)
                          /\ \A i \in 1..k : b[i].time <= b[r].time
    BY <1>1, <1>12 DEF Reached
  <2>2. /\ previous # NoPosition /\ previous[1] = b[r] /\ r \in DOMAIN b /\ r \in Nat /\ r <= k
        /\ \A i \in 1..k : i \in DOMAIN b /\ b[i].time \in Int
    <3>1. r \in DOMAIN b /\ r \in Nat /\ r <= k
      BY <1>1
    <3>2. <<b[r]>> # NoPosition /\ <<b[r]>>[1] = b[r]
      BY DEF NoPosition
    <3>3. \A i \in 1..k : i \in DOMAIN b /\ b[i].time \in Int
      BY <1>1
    <3> QED BY <3>1, <3>2, <3>3, <2>1
  <2>3. Later(b, k + 1) <=> b[r].time < p.time
    <3>1. (k + 1) - 1 = k
      BY <1>1
    <3>2. CASE b[r].time < p.time
      <4>1. \A j \in 1..k : b[j].time < b[k + 1].time
        <5> TAKE j \in 1..k
        <5>1. /\ b[j].time \in Int /\ b[r].time \in Int /\ b[k + 1].time \in Int
              /\ b[j].time <= b[r].time /\ b[r].time < b[k + 1].time
          BY <3>2, <2>1, <2>2, <1>1
        <5> QED BY <5>1
      <4> QED BY <4>1, <3>1, <3>2, <1>1, <1>3
    <3>3. CASE ~(b[r].time < p.time)
      BY <3>1, <3>3, <2>1, <2>2, <1>1, <1>3
    <3> QED BY <3>2, <3>3
  <2>4. \A j \in 1..k : (Later(b, j) /\ \A m \in (j + 1)..k : ~Later(b, m)) <=> j = r
    <3> TAKE j \in 1..k
    <3>1. \A m \in (r + 1)..k : ~Later(b, m)
      <4> TAKE m \in (r + 1)..k
      <4>1. m \in 1..k /\ r \in 1..(m - 1) /\ m \in DOMAIN b
        BY <2>2
      <4>2. b[m].time <= b[r].time
        BY <4>1, <2>1
      <4>3. b[m].time \in Int /\ b[r].time \in Int
        BY <4>1, <2>2
      <4>4. ~(b[r].time < b[m].time)
        BY <4>2, <4>3
      <4> QED BY <4>1, <4>4, <1>3
    <3>2. CASE j = r
      BY <3>1, <3>2, <2>1
    <3>3. CASE j < r
      <4>1. r \in (j + 1)..k
        BY <3>3, <2>2
      <4> QED BY <4>1, <2>1, <3>3
    <3>4. CASE j > r
      <4>1. j \in (r + 1)..k
        BY <3>4, <2>2
      <4> QED BY <4>1, <3>1, <3>4
    <3> QED BY <3>2, <3>3, <3>4
  <2>5. k + 1 \in Moves(b) <=> b[r].time < p.time /\ b[r].spot # p.spot
    <3>1. k + 1 \in Moves(b) <=>
            /\ Later(b, k + 1)
            /\ \A j \in 1..k : (Later(b, j) /\ \A m \in (j + 1)..k : ~Later(b, m)) => b[j].spot # p.spot
      <4>1. (k + 1) - 1 = k
        BY <1>1
      <4> QED BY <4>1, <1>1, <1>2
    <3> QED BY <3>1, <2>3, <2>4
  <2>6. k + 1 \in Moves(b) <=> ~drops
    <3>1. drops <=> p.spot = b[r].spot \/ b[r].time >= p.time
      BY <2>2
    <3>2. b[r].time >= p.time <=> ~(b[r].time < p.time)
      BY <2>2, <1>1
    <3> HIDE DEF drops, p
    <3> QED BY <3>1, <3>2, <2>5
  <2>7. {(done \o c.kept)[i] : i \in DOMAIN (done \o c.kept)} = Has
    <3> HIDE DEF Has, Had, drops, p
    <3>1. CASE drops
      BY <3>1, <2>6, <1>4, <1>7, <1>9, <1>10
    <3>2. CASE ~drops
      BY <3>2, <2>6, <1>4, <1>7, <1>9, <1>10
    <3> QED BY <3>1, <3>2
  <2>8. \E q \in 1..(k + 1) : /\ c.previous = <<b[q]>> /\ Later(b, q)
                              /\ \A i \in 1..(k + 1) : b[i].time <= b[q].time
    <3>1. CASE b[r].time < p.time
      <4>1. c.previous = <<p>>
        BY <3>1, <2>2, <1>7
      <4>2. \A i \in 1..(k + 1) : b[i].time <= b[k + 1].time
        <5> TAKE i \in 1..(k + 1)
        <5>1. CASE i \in 1..k
          <6>1. /\ b[i].time \in Int /\ b[r].time \in Int /\ b[k + 1].time \in Int
                /\ b[i].time <= b[r].time /\ b[r].time < b[k + 1].time
            BY <5>1, <3>1, <2>1, <2>2, <1>1
          <6> QED BY <6>1
        <5>2. CASE i = k + 1
          BY <5>2, <1>1
        <5> QED BY <5>1, <5>2, <1>8
      <4>3. k + 1 \in 1..(k + 1)
        BY <1>1
      <4> QED BY <4>1, <4>2, <4>3, <2>3, <3>1
    <3>2. CASE ~(b[r].time < p.time)
      <4>1. drops
        BY <3>2, <2>2, <1>1
      <4>2. c.previous = <<b[r]>>
        BY <4>1, <3>2, <2>1, <2>2, <1>7
      <4>3. \A i \in 1..(k + 1) : b[i].time <= b[r].time
        <5> TAKE i \in 1..(k + 1)
        <5>1. CASE i \in 1..k
          BY <5>1, <2>1
        <5>2. CASE i = k + 1
          BY <5>2, <3>2, <2>2, <1>1
        <5> QED BY <5>1, <5>2, <1>8
      <4>4. r \in 1..(k + 1)
        BY <2>2
      <4> QED BY <4>2, <4>3, <4>4, <2>1
    <3> QED BY <3>1, <3>2
  <2>9. k + 1 # 0
    BY <1>1
  <2> QED BY <2>7, <2>8, <2>9 DEF Reached
<1> QED BY <1>11, <1>12

\* Everything that is said of a batch.
InBatch == QueuesHoldRest /\ EndsWithBatch /\ Reached(conf.track, Considered, main.previous, processed)

\* A step of the main thread that neither takes nor considers a position, nor ends the run.
LEMMA MainMovesOn ==
  ASSUME IInv, ~conf.live, InBatch, NEW at \in MainPlaces, MainGoes(at), main.at # "process",
         at \notin {"process", "command", "pop", "RedisEmpty", "DoesNotExist"},
         at \in {"finish", "drain", "done"} => terminated,
         UNCHANGED <<conf, server, requested, deleted, redis, timed, enqueuer, terminated, processed>>
  PROVE  InBatch'
<1>1. main'.at = at /\ main'.previous = main.previous
  <2>1. main \in [at : MainPlaces, previous : One(Position) \cup {NoPosition},
                  item : One(Flown(conf)) \cup {NoPosition}]
    BY DEF IInv, MainOK
  <2> QED BY <2>1 DEF MainGoes
<1>2. QueuesHoldRest' /\ Given' = Given
  BY RestStays DEF InBatch
<1>3. Considered' = Considered
  BY <1>1, <1>2 DEF Considered
<1>4. EndsWithBatch'
  BY <1>1, <1>2 DEF InBatch, EndsWithBatch
<1>5. \A b, k, q, d : Reached(b, k, q, d)' = Reached(b, k, q, d)
  BY DEF Reached, Later, Moves, NoPosition
<1>6. Reached(conf.track, Considered, main.previous, processed)'
  BY <1>1, <1>3, <1>5 DEF InBatch
<1> QED BY <1>2, <1>4, <1>6 DEF InBatch

\* A step of the enqueuer, or of anybody else who leaves the main thread alone.
LEMMA OthersMoveOn ==
  ASSUME InBatch, QueuesHoldRest', Given' = Given, enqueuer'.at \notin {"command", "DoesNotExist"},
         UNCHANGED <<conf, server, requested, deleted, main, terminated, processed>>
  PROVE  InBatch'
<1>1. Considered' = Considered
  BY DEF Considered
<1>2. EndsWithBatch'
  <2>1. \A i : Whole(i)' = Whole(i)
    BY DEF Whole
  <2> QED BY <2>1 DEF InBatch, EndsWithBatch
<1>3. Reached(conf.track, Considered, main.previous, processed)'
  BY <1>1 DEF InBatch, Reached
<1> QED BY <1>2, <1>3 DEF InBatch

\* The main thread takes a position, or the end.
LEMMA BatchGet ==
  ASSUME IInv, ~conf.live, InBatch, MainGetPosition \/ MainGetSentinel
  PROVE  InBatch'
<1> DEFINE N == Len(conf.track)
<1>1. /\ main.at = "get" /\ timed # <<>> /\ timed' = Tail(timed)
      /\ conf' = conf /\ redis' = redis /\ enqueuer' = enqueuer /\ processed' = processed
      /\ server' = server /\ requested' = requested /\ deleted' = deleted
  BY DEF MainGetPosition, MainGetSentinel, Due, world
<1>2. /\ QueuesHoldRest' /\ Given' = Given + 1 /\ Given < N + 1 /\ timed[1].item = Whole(Given + 1)
  BY <1>1, RestAfterGet DEF InBatch
<1>3. N \in Nat /\ Given \in Int /\ Given >= 0
  BY BatchTypes DEF InBatch, QueuesHoldRest
<1>4. \A i : Whole(i)' = Whole(i)
  BY <1>1 DEF Whole
<1>5. main \in [at : MainPlaces, previous : One(Position) \cup {NoPosition},
                item : One(Flown(conf)) \cup {NoPosition}]
  BY DEF IInv, MainOK
<1>6. /\ ~terminated /\ server = <<>> /\ ~requested /\ ~deleted
      /\ enqueuer.at \notin {"command", "DoesNotExist"}
  BY <1>2, <1>3 DEF InBatch, EndsWithBatch
<1>7. /\ Considered' = Considered /\ main'.previous = main.previous /\ EndsWithBatch'
  <2>1. CASE MainGetPosition
    <3>1. /\ timed[1].item # Sentinel /\ terminated' = terminated
          /\ main' = [main EXCEPT !.at = "process", !.item = timed[1].item]
      BY <2>1, Zenon DEF MainGetPosition
    <3>2. main'.at = "process" /\ main'.item = timed[1].item /\ main'.previous = main.previous
      BY <3>1, <1>5
    <3>3. Given + 1 <= N
      BY <3>1, <1>2, <1>3, WholeIs
    <3>4. Considered' = Considered
      BY <3>2, <3>3, <1>1, <1>2, <1>3 DEF Considered
    <3>5. Given' \in 1..Len(conf.track)' /\ main'.item = Whole(Given)'
      BY <3>2, <3>3, <1>1, <1>2, <1>3, <1>4
    <3>6. EndsWithBatch'
      BY <3>1, <3>2, <3>5, <1>1, <1>6 DEF EndsWithBatch
    <3> QED BY <3>2, <3>4, <3>6
  <2>2. CASE MainGetSentinel
    <3>1. timed[1].item = Sentinel /\ terminated' = TRUE /\ MainGoes("loop")
      BY <2>2, <1>6 DEF MainGetSentinel, NotifyTermination, OrRaise
    <3>2. main'.at = "loop" /\ main'.previous = main.previous
      BY <3>1, <1>5 DEF MainGoes
    <3>3. Given + 1 = N + 1
      BY <3>1, <1>2, <1>3, WholeIs
    <3>4. Considered' = Considered
      BY <3>2, <3>3, <1>1, <1>2, <1>3 DEF Considered
    <3>5. EndsWithBatch'
      BY <3>1, <3>2, <3>3, <1>1, <1>2, <1>6 DEF EndsWithBatch
    <3> QED BY <3>2, <3>4, <3>5
  <2> QED BY <2>1, <2>2, <1>1
<1>8. Reached(conf.track, Considered, main.previous, processed)'
  BY <1>1, <1>7 DEF InBatch, Reached
<1> QED BY <1>2, <1>7, <1>8 DEF InBatch

\* The main thread considers the position it took.
LEMMA BatchProcess ==
  ASSUME IInv, ~conf.live, InBatch, MainProcess
  PROVE  InBatch'
<1> DEFINE N == Len(conf.track)
           p == conf.track[Given]
           c == Consider([previous |-> main.previous, kept |-> <<>>], p)
<1>1. /\ main.at = "process" /\ Given \in 1..N /\ main.item = Whole(Given) /\ ~deleted
      /\ server = <<>> /\ ~requested /\ (terminated => Given = N + 1)
      /\ enqueuer.at \notin {"command", "DoesNotExist"}
  BY DEF InBatch, EndsWithBatch, MainProcess
<1>2. N \in Nat /\ conf.track \in Seq(Position) /\ DOMAIN conf.track = 1..N
  BY BatchTypes
<1>3. main.item[1] = p /\ main'.item = NoPosition
  BY <1>1, <1>2, WholeIs DEF MainProcess
<1>4. \A q, f : WithBuffered(q, f) = <<q>>
  BY DEF WithBuffered
<1>5. processed' = processed \o c.kept /\ main'.at = "decide" /\ main'.previous = c.previous
  <2> DEFINE C(f) == Cleaned(main.previous, WithBuffered(main.item[1], f))
  <2>1. \A f : C(f) = c
    <3>1. \A f : C(f) = Cleaned(main.previous, <<p>>)
      BY <1>3, <1>4
    <3>2. Cleaned(main.previous, <<p>>) = c
      BY CleanedOne
    <3> HIDE DEF C, c
    <3> QED BY <3>1, <3>2
  <2>2. \E f \in BOOLEAN :
          LET raises == deleted /\ C(f).kept # <<>>
          IN  /\ processed' = IF raises THEN processed ELSE processed \o C(f).kept
              /\ main' = [at |-> IF raises THEN "DoesNotExist" ELSE "decide",
                          previous |-> C(f).previous, item |-> NoPosition]
    BY Zenon DEF MainProcess
  <2> HIDE DEF C, c
  <2>3. /\ processed' = processed \o c.kept
        /\ main' = [at |-> "decide", previous |-> c.previous, item |-> NoPosition]
    BY <2>1, <2>2, <1>1
  <2> QED BY <2>3
<1>6. /\ conf' = conf /\ server' = server /\ requested' = requested /\ deleted' = deleted
      /\ redis' = redis /\ timed' = timed /\ enqueuer' = enqueuer /\ terminated' = terminated
  BY DEF MainProcess, world
<1>7. QueuesHoldRest' /\ Given' = Given
  BY <1>6, RestStays DEF InBatch
<1>8. EndsWithBatch'
  BY <1>1, <1>5, <1>6, <1>7 DEF EndsWithBatch
<1>9. Considered = Given - 1 /\ Considered' = Given /\ Given - 1 \in 0..(N - 1) /\ (Given - 1) + 1 = Given
  BY <1>1, <1>2, <1>5, <1>6, <1>7 DEF Considered
<1>10. Reached(conf.track, Given, c.previous, processed \o c.kept)
  <2> DEFINE b == conf.track
             k == Given - 1
  <2>1. /\ processed \in Seq(Position) /\ main.previous \in One(Position) \cup {NoPosition}
    BY DEF IInv, Ordered, MainOK
  <2>2. Reached(b, k, main.previous, processed)
    BY <1>9 DEF InBatch
  <2>3. c = Consider([previous |-> main.previous, kept |-> <<>>], b[k + 1])
    BY <1>9
  <2>4. b \in Seq(Position) /\ k \in 0..(Len(b) - 1)
    BY <1>2, <1>9
  <2> HIDE DEF c, b, k
  <2>5. Reached(b, k + 1, c.previous, processed \o c.kept)
    BY <2>1, <2>2, <2>3, <2>4, ReachedNext
  <2> QED BY <2>5, <1>9 DEF b, k
<1>11. Reached(conf.track, Considered, main.previous, processed)'
  <2> HIDE DEF c
  <2> QED BY <1>5, <1>6, <1>9, <1>10 DEF Reached
<1> QED BY <1>7, <1>8, <1>11 DEF InBatch

\* All steps of the main thread.
LEMMA BatchMain ==
  ASSUME IInv, ~conf.live, InBatch, MainStep
  PROVE  InBatch'
<1> USE DEF MainPlaces
<1>1. /\ server = <<>> /\ ~requested /\ ~deleted
      /\ terminated => Given = Len(conf.track) + 1
      /\ main.at \in {"finish", "drain", "done"} => terminated
      /\ main.at \notin {"command", "pop", "RedisEmpty", "DoesNotExist"}
  BY DEF InBatch, EndsWithBatch
<1>2. \A at : OrRaise(at) = at
  BY <1>1 DEF OrRaise
<1> DEFINE Same == UNCHANGED <<conf, server, requested, deleted, redis, timed, enqueuer, terminated, processed>>
<1>3. CASE MainStart
  <2>1. MainGoes("loop") /\ Same /\ main.at # "process"
    BY <1>3 DEF MainStart, world
  <2> QED BY <2>1, MainMovesOn
<1>4. CASE MainLoop
  <2>1. /\ main.at = "loop" /\ MainGoes(IF terminated THEN "finish" ELSE "refresh") /\ Same
    BY <1>4 DEF MainLoop, Late, world
  <2>2. CASE terminated
    BY <2>1, <2>2, MainMovesOn
  <2>3. CASE ~terminated
    BY <2>1, <2>3, MainMovesOn
  <2> QED BY <2>2, <2>3
<1>5. CASE MainRefreshScores
  <2>1. /\ main.at = "refresh" /\ (MainGoes("refresh again") \/ MainGoes("get")) /\ Same
    BY <1>2, <1>5 DEF MainRefreshScores, world
  <2> QED BY <2>1, MainMovesOn
<1>6. CASE MainRefreshContestant
  <2>1. main.at = "refresh again" /\ MainGoes("get") /\ conf' = conf
        /\ server' = server /\ requested' = requested /\ deleted' = deleted /\ redis' = redis
        /\ timed' = timed /\ enqueuer' = enqueuer /\ processed' = processed
        /\ terminated' = (terminated \/ deleted)
    BY <1>1, <1>6 DEF MainRefreshContestant, world
  <2>2. terminated' = terminated
    BY <2>1, <1>1 DEF IInv, FlagsOK
  <2> QED BY <2>1, <2>2, MainMovesOn
<1>7. CASE MainTimedOut
  <2>1. MainGoes("check") /\ Same /\ main.at # "process"
    BY <1>7 DEF MainTimedOut, world
  <2> QED BY <2>1, MainMovesOn
<1>8. CASE MainDecide
  <2>1. main.at = "decide" /\ MainGoes("check") /\ Same
    BY <1>8 DEF MainDecide
  <2> QED BY <2>1, MainMovesOn
<1>9. CASE MainCheck
  <2>1. main.at = "check" /\ MainGoes("loop") /\ Same
    BY <1>1, <1>9 DEF MainCheck, Commanded, world
  <2> QED BY <2>1, MainMovesOn
<1>10. CASE MainFinish
  <2>1. main.at = "finish" /\ MainGoes("drain") /\ Same /\ terminated
    BY <1>1, <1>2, <1>10 DEF MainFinish, world
  <2> QED BY <2>1, MainMovesOn
<1>11. CASE MainDrain
  <2>1. main.at = "drain" /\ MainGoes(IF redis = <<>> THEN "done" ELSE "pop") /\ Same /\ terminated
    BY <1>1, <1>11 DEF MainDrain, world
  <2>2. redis = <<>>
    <3>1. /\ Len(conf.track) \in Nat /\ Len(redis) \in Nat /\ Len(timed) \in Nat /\ Held \in {0, 1}
          /\ redis \in Seq(Item(conf))
      BY BatchTypes
    <3>2. Len(conf.track) + 1 - Len(redis) - Held - Len(timed) = Len(conf.track) + 1
      <4>1. Given = Len(conf.track) + 1
        BY <2>1, <1>1
      <4>2. Given = Len(conf.track) + 1 - Len(redis) - Held - Len(timed)
        BY <3>1 DEF Given, Popped
      <4> QED BY <4>1, <4>2
    <3>3. Len(redis) = 0
      BY <3>1, <3>2
    <3> QED BY <3>1, <3>3
  <2>3. MainGoes("done")
    BY <2>1, <2>2
  <2> QED BY <2>1, <2>3, MainMovesOn
<1>12. CASE MainCommand \/ MainPop
  BY <1>1, <1>12 DEF MainCommand, MainPop
<1> QED BY <1>3, <1>4, <1>5, <1>6, <1>7, <1>8, <1>9, <1>10, <1>11, <1>12, BatchGet, BatchProcess,
           Zenon DEF MainStep

\* All steps of the enqueuer.
LEMMA BatchEnqueuer ==
  ASSUME IInv, ~conf.live, BatchesInOrder, InBatch, EnqueuerStep
  PROVE  InBatch'
<1> USE DEF EnqueuerPlaces
<1>1. server = <<>> /\ ~requested /\ ~deleted /\ enqueuer.at \notin {"command", "DoesNotExist"}
  BY DEF InBatch, EndsWithBatch
<1>2. QueuesHoldRest
  BY DEF InBatch
<1> DEFINE Same == UNCHANGED <<conf, server, requested, deleted, main, terminated, processed>>
<1>3. ASSUME NEW at \in {"loop", "pop", "sort", "check", "exited"}, EnqueuerGoes(at)
      PROVE  enqueuer'.at = at
  <2>1. at \in EnqueuerPlaces
    OBVIOUS
  <2> HIDE DEF EnqueuerPlaces
  <2> QED BY <1>3, <2>1, EnqueuerRecord DEF IInv
<1>4. CASE EnqueueHistory
  <2>1. EnqueuerGoes("loop") /\ Same
    BY <1>4 DEF EnqueueHistory, world
  <2>2. enqueuer'.at = "loop"
    BY <2>1, <1>3
  <2>3. QueuesHoldRest' /\ Given' = Given
    BY <1>1, <1>2, <1>4, RestAfterHistory
  <2> QED BY <2>1, <2>2, <2>3, OthersMoveOn
<1>5. CASE EnqueuerPop
  <2>1. Same /\ enqueuer'.at \in {"len", "put"}
    BY <1>5 DEF EnqueuerPop, world
  <2>2. QueuesHoldRest' /\ Given' = Given
    BY <1>2, <1>5, RestAfterPop
  <2> QED BY <2>1, <2>2, OthersMoveOn
<1>6. CASE EnqueuerLen \/ EnqueuerTail
  <2>1. Same /\ enqueuer.at \in {"len", "tail"}
    BY <1>6 DEF EnqueuerLen, EnqueuerTail, world
  <2>2. enqueuer'.at \in {"tail", "put", "IndexError"}
    <3> DEFINE M == One(Position) \cup {Sentinel}
    <3>1. enqueuer \in [at : EnqueuerPlaces, x : [item : M, release : Int]]
      BY DEF IInv, EnqueuerOK
    <3> HIDE DEF M, EnqueuerPlaces
    <3> QED BY <3>1, <1>6 DEF EnqueuerLen, EnqueuerTail, EnqueuerGoes
  <2>3. QueuesHoldRest' /\ Given' = Given
    BY <1>2, <1>6, RestAfterLook
  <2> QED BY <2>1, <2>2, <2>3, OthersMoveOn
<1>7. CASE EnqueuerPut
  <2>1. EnqueuerGoes("sort") /\ Same
    BY <1>7 DEF EnqueuerPut, world
  <2>2. enqueuer'.at = "sort"
    BY <2>1, <1>3
  <2>3. QueuesHoldRest' /\ Given' = Given
    BY <1>2, <1>7, RestAfterPut
  <2> QED BY <2>1, <2>2, <2>3, OthersMoveOn
<1>8. CASE EnqueuerLoop \/ EnqueuerEmpty \/ EnqueuerSorted \/ EnqueuerCheck
  <2>1. /\ Same /\ redis' = redis /\ timed' = timed
        /\ enqueuer.at \in {"loop", "pop", "sort", "check"}
        /\ \E at \in {"loop", "pop", "check", "exited"} : EnqueuerGoes(at)
    BY <1>1, <1>8 DEF EnqueuerLoop, EnqueuerEmpty, EnqueuerSorted, EnqueuerCheck, Commanded, world
  <2>2. enqueuer'.at \in {"loop", "pop", "check", "exited"}
    BY <2>1, <1>3
  <2>3. QueuesHoldRest' /\ Given' = Given
    BY <2>1, <2>2, <1>2, RestStays
  <2> QED BY <2>1, <2>2, <2>3, OthersMoveOn
<1>9. CASE EnqueuerCommand
  BY <1>1, <1>9 DEF EnqueuerCommand
<1> QED BY <1>4, <1>5, <1>6, <1>7, <1>8, <1>9, Zenon DEF EnqueuerStep

LEMMA BatchInit == Init => BatchInv
<1> SUFFICES ASSUME Init, ~conf.live PROVE InBatch
  BY Zenon DEF BatchInv, InBatch
<1> DEFINE N == Len(conf.track)
           b == conf.track
<1>1. IInv
  BY InitInvariant
<1>2. /\ b \in Seq(Position) /\ N \in Nat /\ DOMAIN b = 1..N
  BY <1>1, BatchTypes
<1>3. /\ redis = [i \in DOMAIN b |-> <<b[i]>>] \o <<Sentinel>> /\ server = <<>>
      /\ ~requested /\ ~deleted /\ ~terminated /\ timed = <<>>
      /\ main.at = "wait" /\ main.previous = NoPosition /\ enqueuer.at = "start" /\ processed = <<>>
  BY DEF Init
<1>4. Len(redis) = N + 1 /\ \A i \in 1..(N + 1) : redis[i] = Whole(i)
  <2> DEFINE q == [i \in DOMAIN b |-> <<b[i]>>]
  <2>1. q \in Seq(Seq(Position)) /\ Len(q) = N /\ \A i \in 1..N : q[i] = <<b[i]>>
    BY <1>2
  <2> HIDE DEF q
  <2>2. Len(q \o <<Sentinel>>) = N + 1 /\ (q \o <<Sentinel>>)[N + 1] = Sentinel
        /\ \A i \in 1..N : (q \o <<Sentinel>>)[i] = <<b[i]>>
    BY <2>1, <1>2
  <2>3. redis = q \o <<Sentinel>>
    BY <1>3 DEF q
  <2>4. \A i \in 1..(N + 1) : redis[i] = Whole(i)
    <3> TAKE i \in 1..(N + 1)
    <3>1. CASE i \in 1..N
      BY <3>1, <2>2, <2>3, <1>2, SMTT(30) DEF Whole
    <3>2. CASE i = N + 1
      BY <3>2, <2>2, <2>3, <1>2 DEF Whole
    <3> QED BY <3>1, <3>2, <1>2
  <2> QED BY <2>2, <2>3, <2>4
<1>5. Held = 0 /\ Len(timed) = 0 /\ DOMAIN timed = {}
  BY <1>3 DEF Held
<1>6. Popped = 0 /\ Given = 0 /\ Considered = 0
  BY <1>2, <1>3, <1>4, <1>5 DEF Popped, Given, Considered
<1>7. DOMAIN redis = 1..(N + 1)
  BY <1>1, <1>4, BatchTypes
<1>8. QueuesHoldRest
  <2>1. \A i \in DOMAIN redis : redis[i] = Whole(Popped + i)
    BY <1>4, <1>6, <1>7
  <2> QED BY <2>1, <1>2, <1>3, <1>4, <1>5, <1>6 DEF QueuesHoldRest
<1>9. EndsWithBatch
  BY <1>3 DEF EndsWithBatch
<1>10. Reached(b, 0, NoPosition, <<>>)
  <2>1. {j \in Moves(b) : j <= 0} = {}
    BY <1>2 DEF Moves
  <2>2. DOMAIN <<>> = {}
    OBVIOUS
  <2> QED BY <2>1, <2>2 DEF Reached
<1> QED BY <1>3, <1>6, <1>8, <1>9, <1>10 DEF InBatch

LEMMA BatchStep == BatchesInOrder /\ IInv /\ BatchInv /\ [Next]_vars => BatchInv'
<1> SUFFICES ASSUME BatchesInOrder, IInv, BatchInv, [Next]_vars, (~conf.live /\ commands = 0)'
             PROVE  InBatch'
  BY Zenon DEF BatchInv, InBatch
<1>1. ~conf.live
  BY ConfStays
<1>2. commands = 0
  <2>1. UNCHANGED world => commands' = commands
    BY DEF world
  <2>2. commands' = commands \/ commands' = commands + 1
    BY <2>1, WorldChanges, Zenon DEF MainDecide, Record, Send, Request, Expire, Delete, Tick
  <2>3. commands \in Nat
    BY <1>1, BatchTypes
  <2> QED BY <2>2, <2>3
<1>3. InBatch
  BY <1>1, <1>2, Zenon DEF BatchInv, InBatch
<1>4. server = <<>> /\ ~requested /\ ~deleted /\ enqueuer.at \notin {"command", "DoesNotExist"}
  BY <1>3 DEF InBatch, EndsWithBatch
<1>5. CASE MainStep
  BY <1>1, <1>3, <1>5, BatchMain
<1>6. CASE EnqueuerStep
  BY <1>1, <1>3, <1>6, BatchEnqueuer
<1>7. CASE Tick \/ UNCHANGED vars
  <2>1. UNCHANGED <<conf, server, requested, deleted, main, terminated, processed, redis, timed, enqueuer>>
    BY <1>7 DEF Tick, vars, world, threads
  <2>2. QueuesHoldRest' /\ Given' = Given
    BY <2>1, <1>3, RestStays DEF InBatch
  <2> QED BY <2>1, <2>2, <1>3, <1>4, OthersMoveOn
<1>8. CASE Record \/ Send \/ Expire
  <2>1. DOMAIN server = {}
    BY <1>4
  <2> QED BY <2>1, <1>1, <1>4, <1>8 DEF Record, Send, Expire
<1>9. CASE Request \/ Delete
  <2>1. commands' = 1
    BY <1>2, <1>9 DEF Request, Delete
  <2> QED BY <2>1
<1> QED BY <1>5, <1>6, <1>7, <1>8, <1>9, Zenon DEF Next

LEMMA BatchTells == IInv /\ BatchInv => BatchComplete
<1> SUFFICES ASSUME IInv, BatchInv, ~conf.live, commands = 0, main.at \in {"drain", "done"}
             PROVE  {conf.track[i] : i \in Moves(conf.track)} = {processed[i] : i \in DOMAIN processed}
  BY DEF BatchComplete
<1> DEFINE N == Len(conf.track)
<1>1. InBatch
  BY Zenon DEF BatchInv, InBatch
<1>2. N \in Nat /\ DOMAIN conf.track = 1..N
  BY BatchTypes
<1>3. Given = N + 1
  BY <1>1 DEF InBatch, EndsWithBatch
<1>4. Considered = N
  BY <1>2, <1>3 DEF Considered
<1>5. {j \in Moves(conf.track) : j <= N} = Moves(conf.track)
  BY <1>2 DEF Moves
<1> QED BY <1>1, <1>4, <1>5 DEF InBatch, Reached

\* A recalculation that is left alone has given the gatekeeper every position of its batch
\* that moves on, provided the batch is in the order of its times: what is out of order
\* may be overtaken or not, as the threads are scheduled. Nothing in playback.py sorts a
\* batch.
THEOREM BatchCompleteHolds == BatchesInOrder => (Spec => []BatchComplete)
<1> SUFFICES ASSUME BatchesInOrder PROVE Spec => []BatchComplete
  OBVIOUS
<1>1. Init => IInv /\ BatchInv
  BY InitInvariant, BatchInit
<1>2. IInv /\ BatchInv /\ [Next]_vars => (IInv /\ BatchInv)'
  BY StepInvariant, BatchStep
<1>3. IInv /\ BatchInv => BatchComplete
  BY BatchTells
<1> QED BY <1>1, <1>2, <1>3, PTL DEF Spec
=============================================================================
