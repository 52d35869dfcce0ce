------------------------- MODULE ContestantProcessor -------------------------
(***************************************************************************)
(* One calculator: the main thread, which delays, cleans and scores the    *)
(* positions of a contestant, and the thread that feeds it from redis;     *)
(* how they start, and how they stop.                                      *)
(*                                                                         *)
(* The timed queue appears by its contract (module DelayQueue), except     *)
(* that other threads look into its list without the lock. What the        *)
(* gatekeeper does with a position is in module GatekeeperRoute.           *)
(***************************************************************************)
EXTENDS Integers, SequencesExt

CONSTANTS
  Spots,           \* places a position may be at
  Flights,         \* what the device of a live contestant may record
  Batches,         \* the tracks a recalculation may be given
  Delay,           \* calculation_delay_minutes
  FinishedBy,      \* finished_by_time
  BufferedLimit,   \* CHECK_BUFFERED_DATA_TIME_LIMIT
  LandedCount,     \* positions, and seconds, of standing still (60)
  MaxCommands,     \* bound: termination requests and deletions
  MaxNow           \* bound: the last time of day

ASSUME ProcessorAssumption ==
  /\ Delay \in Nat /\ BufferedLimit \in Nat /\ LandedCount \in Nat \ {0}
  /\ FinishedBy \in Nat /\ MaxCommands \in Nat
  /\ MaxNow \in Nat

Position == [time : Int, spot : Spots, slow : BOOLEAN]

\* A device records in the order of time, and what it records is due before time ends.
ASSUME TrackAssumption ==
  /\ Batches \subseteq Seq(Position) /\ Flights \subseteq Seq(Position)
  /\ \A f \in Flights : /\ \A i, j \in DOMAIN f : i < j => f[i].time < f[j].time
                        /\ \A i \in DOMAIN f : f[i].time + Delay < MaxNow

VARIABLES
  conf,         \* live_processing, and the flight or the batch
  now,          \* the time of day
  finished_by,  \* contestant.finished_by_time
  server,       \* what Traccar has recorded of the contestant, in order
  sent,         \* which of it the dispatcher has appended to redis
  requested,    \* the termination flag in the cache
  deleted,      \* the contestant was deleted
  commands,     \* termination requests and deletions so far
  redis,        \* position_queue
  timed,        \* timed_queue: records [item, release], sorted
  sorting,      \* its list is being sorted: others see it empty
  loaded,       \* finished_loading_initial_positions
  terminated,   \* track_terminated
  main,         \* the main thread
  enqueuer,     \* enqueue_positions_thread
  processed,    \* the positions given to the gatekeeper
  entries       \* "manually terminated" entries sent to the score thread

world == <<conf, now, finished_by, server, sent, requested, deleted, commands>>
threads == <<main, enqueuer, loaded, terminated, entries>>
vars == <<world, redis, timed, sorting, threads, processed>>

\* The None that ends a batch; an item is a sequence of one or no position.
Sentinel == <<>>
NoPosition == <<>>

-----------------------------------------------------------------------------
(* The timed queue's list.                                                 *)

\* After all that are not released later: the list is sorted already.
Insert(q, x) == InsertAt(q, 1 + Cardinality({i \in DOMAIN q : q[i].release <= x.release}), x)

\* Time goes on after MaxNow, so that every item is due at last.
Due == timed # <<>> /\ (timed[1].release < now \/ now = MaxNow) /\ ~sorting

Release_AtOnce(p) == p.time
Release(p) == p.time + Delay

\* Looking at the first item without the lock: is there something that was
\* flown already?
FlownWaits == /\ ~sorting /\ timed # <<>>
              /\ timed[1].item # Sentinel /\ timed[1].item[1].time <= now

-----------------------------------------------------------------------------
(* Both threads: check_termination_is_commanded reads two flags, then      *)
(* sends an entry and notifies.                                            *)

Commanded == ~terminated /\ requested

\* The row that is marked as finished must exist.
NotifyTermination == terminated' = (terminated \/ ~deleted)

OrRaise(at) == IF deleted THEN "DoesNotExist" ELSE at

-----------------------------------------------------------------------------
(* The main thread.                                                        *)

MainGoes(at) == main' = [main EXCEPT !.at = at]

MainStart ==
  /\ main.at = "wait" /\ loaded
  /\ MainGoes("loop")
  /\ UNCHANGED <<world, redis, timed, sorting, enqueuer, loaded, terminated,
                 entries, processed>>

Late == conf.live /\ now > finished_by + Delay

MainLoop_NeverLate ==
  /\ main.at = "loop"
  /\ MainGoes(IF terminated THEN "finish" ELSE "refresh")
  /\ UNCHANGED <<world, redis, timed, sorting, enqueuer, loaded, terminated,
                 entries, processed>>
MainLoop ==
  /\ main.at = "loop"
  /\ IF ~terminated /\ Late /\ ~FlownWaits
     THEN NotifyTermination /\ MainGoes(OrRaise("finish"))
     ELSE /\ MainGoes(IF terminated THEN "finish" ELSE "refresh")
          /\ UNCHANGED terminated
  /\ UNCHANGED <<world, redis, timed, sorting, enqueuer, loaded, entries, processed>>

\* The contestant is read from the database every so often, twice: only the
\* second time is a deleted contestant expected.
MainRefreshScores ==
  /\ main.at = "refresh"
  /\ \E due \in BOOLEAN :
       MainGoes(IF due THEN OrRaise("refresh again") ELSE "get")
  /\ UNCHANGED <<world, redis, timed, sorting, enqueuer, loaded, terminated,
                 entries, processed>>

MainRefreshContestant ==
  /\ main.at = "refresh again"
  /\ terminated' = (terminated \/ deleted)
  /\ MainGoes(IF deleted THEN "finish" ELSE "get")
  /\ UNCHANGED <<world, redis, timed, sorting, enqueuer, loaded, entries, processed>>

MainGetPosition_KeepsOld ==
  /\ main.at = "get" /\ Due /\ timed[1].item # Sentinel
  /\ timed' = Tail(timed)
  /\ MainGoes("process")
  /\ UNCHANGED <<world, redis, sorting, enqueuer, loaded, terminated, entries,
                 processed>>
MainGetPosition ==
  /\ main.at = "get" /\ Due /\ timed[1].item # Sentinel
  /\ timed' = Tail(timed)
  /\ main' = [main EXCEPT !.at = "process", !.item = timed[1].item]
  /\ UNCHANGED <<world, redis, sorting, enqueuer, loaded, terminated, entries,
                 processed>>

MainGetSentinel_Ignored ==
  /\ main.at = "get" /\ Due /\ timed[1].item = Sentinel
  /\ timed' = Tail(timed)
  /\ UNCHANGED terminated /\ MainGoes("loop")
  /\ UNCHANGED <<world, redis, sorting, enqueuer, loaded, entries, processed>>
MainGetSentinel ==
  /\ main.at = "get" /\ Due /\ timed[1].item = Sentinel
  /\ timed' = Tail(timed)
  /\ NotifyTermination /\ MainGoes(OrRaise("loop"))
  /\ UNCHANGED <<world, redis, sorting, enqueuer, loaded, entries, processed>>

MainTimedOut ==
  /\ main.at = "get" /\ ~sorting /\ ~Due
  /\ MainGoes("check")
  /\ UNCHANGED <<world, redis, timed, sorting, enqueuer, loaded, terminated,
                 entries, processed>>

\* How many positions there are before a time, in the order of time.
Before(t, ps) == Cardinality({i \in DOMAIN ps : ps[i].time < t})

\* check_for_buffered_data_if_necessary. Nothing is fetched when Traccar does
\* not answer, nor for the other tracking services.
WithBuffered(p, fetches) ==
  IF /\ conf.live /\ fetches /\ main.previous # NoPosition
     /\ p.time - main.previous[1].time > BufferedLimit
  THEN SubSeq(server, Before(main.previous[1].time + 1, server) + 1, Before(p.time, server))
       \o <<p>>
  ELSE <<p>>

\* A position that is old or at the same place is dropped.
Consider_AnyTime(s, p) ==
  IF s.previous # NoPosition /\ p.spot = s.previous[1].spot
  THEN [s EXCEPT !.previous = IF @[1].time < p.time THEN <<p>> ELSE @]
  ELSE [previous |-> <<p>>, kept |-> Append(s.kept, p)]
Consider(s, p) ==
  IF /\ s.previous # NoPosition
     /\ p.spot = s.previous[1].spot \/ s.previous[1].time >= p.time
  THEN [s EXCEPT !.previous = IF @[1].time < p.time THEN <<p>> ELSE @]
  ELSE [previous |-> <<p>>, kept |-> Append(s.kept, p)]

Cleaned(previous, ps) ==
  LET upto[i \in 0..Len(ps)] ==
        IF i = 0 THEN [previous |-> previous, kept |-> <<>>]
        ELSE Consider(upto[i - 1], ps[i])
  IN  upto[Len(ps)]

MainProcess ==
  /\ main.at = "process"
  /\ \E fetches \in BOOLEAN :
       LET c == Cleaned(main.previous, WithBuffered(main.item[1], fetches))
           raises == deleted /\ c.kept # <<>>
       IN  /\ processed' = IF raises THEN processed ELSE processed \o c.kept
           /\ main' = [at |-> IF raises THEN "DoesNotExist" ELSE "decide",
                       previous |-> c.previous, item |-> NoPosition]
  /\ UNCHANGED <<world, redis, timed, sorting, enqueuer, loaded, terminated, entries>>

\* has_the_contestant_passed_a_gate_and_landed, of the gatekeeper's track: the
\* loop goes back from the last position.
Landed(gatePassed, track) ==
  LET n == Len(track)
      back[i \in 0..n] ==
        IF i > 0 /\ track[i].slow /\ n - (i - 1) > LandedCount
        THEN track[n].time - track[i].time >= LandedCount \/ back[i - 1]
        ELSE FALSE
  IN  gatePassed /\ back[n]

\* should_i_terminate.
MainDecide ==
  /\ main.at = "decide"
  /\ \E gatePassed \in BOOLEAN :
       LET decides == conf.live /\ ~terminated
           landed == decides /\ Landed(gatePassed, processed)
       IN  /\ finished_by' = IF landed /\ finished_by + Delay > now
                             THEN now ELSE finished_by
           /\ IF decides /\ now > finished_by' + Delay
              THEN NotifyTermination /\ MainGoes(OrRaise("check"))
              ELSE UNCHANGED terminated /\ MainGoes("check")
  /\ UNCHANGED <<conf, now, server, sent, requested, deleted, commands, redis, timed, sorting,
                 enqueuer, loaded, entries, processed>>

MainCheck ==
  /\ main.at = "check"
  /\ MainGoes(IF Commanded THEN "command" ELSE "loop")
  /\ UNCHANGED <<world, redis, timed, sorting, enqueuer, loaded, terminated,
                 entries, processed>>

MainCommand ==
  /\ main.at = "command"
  /\ entries' = entries + 1
  /\ NotifyTermination /\ MainGoes(OrRaise("loop"))
  /\ UNCHANGED <<world, redis, timed, sorting, enqueuer, loaded, processed>>

\* finished_processing and set_calculator_finished.
MainFinish ==
  /\ main.at = "finish"
  /\ MainGoes(OrRaise("drain"))
  /\ UNCHANGED <<world, redis, timed, sorting, enqueuer, loaded, terminated,
                 entries, processed>>

MainDrain ==
  /\ main.at = "drain"
  /\ MainGoes(IF redis = <<>> THEN "done" ELSE "pop")
  /\ UNCHANGED <<world, redis, timed, sorting, enqueuer, loaded, terminated,
                 entries, processed>>

\* The enqueuer may have taken what the main thread saw.
MainPop ==
  /\ main.at = "pop"
  /\ IF redis = <<>> THEN MainGoes("RedisEmpty") /\ UNCHANGED redis
     ELSE MainGoes("drain") /\ redis' = Tail(redis)
  /\ UNCHANGED <<world, timed, sorting, enqueuer, loaded, terminated, entries,
                 processed>>

MainStep ==
  \/ MainStart \/ MainLoop \/ MainRefreshScores \/ MainRefreshContestant
  \/ MainGetPosition \/ MainGetSentinel \/ MainTimedOut \/ MainProcess
  \/ MainDecide \/ MainCheck \/ MainCommand \/ MainFinish \/ MainDrain \/ MainPop

-----------------------------------------------------------------------------
(* The thread that feeds the timed queue.                                  *)

EnqueuerGoes(at) == enqueuer' = [enqueuer EXCEPT !.at = at]

\* What Traccar has of the contestant, before anything else; or nothing, if it
\* does not answer or does not know the device. (There is none of a batch.)
EnqueueHistory ==
  /\ enqueuer.at = "start"
  /\ timed' \in {<<>>, [i \in DOMAIN server |-> [item    |-> <<server[i]>>,
                                                 release |-> Release(server[i])]]}
  /\ EnqueuerGoes("loop")
  /\ UNCHANGED <<world, redis, sorting, main, loaded, terminated, entries, processed>>

EnqueuerLoop ==
  /\ enqueuer.at = "loop"
  /\ EnqueuerGoes(IF terminated THEN "exited" ELSE "pop")
  /\ UNCHANGED <<world, redis, timed, sorting, main, loaded, terminated, entries,
                 processed>>

EnqueuerPop ==
  /\ enqueuer.at = "pop" /\ redis # <<>>
  /\ redis' = Tail(redis)
  /\ enqueuer' = [at |-> IF redis[1] = Sentinel THEN "len" ELSE "put",
                  x |-> [item |-> redis[1],
                         release |-> IF redis[1] = Sentinel THEN now
                                     ELSE Release(redis[1][1])]]
  /\ UNCHANGED <<world, timed, sorting, main, loaded, terminated, entries, processed>>

\* blpop gives up after 30 s.
EnqueuerEmpty ==
  /\ enqueuer.at = "pop" /\ redis = <<>>
  /\ EnqueuerGoes("check")
  /\ UNCHANGED <<world, redis, timed, sorting, main, loaded, terminated, entries,
                 processed>>

\* The release time of the end of a batch: the length of the list is looked at,
\* then its last item, without the lock.
EnqueuerLen ==
  /\ enqueuer.at = "len"
  /\ enqueuer' = [enqueuer EXCEPT !.at = IF timed = <<>> THEN "put" ELSE "tail",
                                  !.x.release = now]
  /\ UNCHANGED <<world, redis, timed, sorting, main, loaded, terminated, entries,
                 processed>>

TailRelease_Now == now
TailRelease == timed[Len(timed)].release + 1

EnqueuerTail ==
  /\ enqueuer.at = "tail"
  /\ IF timed = <<>> THEN EnqueuerGoes("IndexError")
     ELSE enqueuer' = [enqueuer EXCEPT !.at = "put", !.x.release = TailRelease]
  /\ UNCHANGED <<world, redis, timed, sorting, main, loaded, terminated, entries,
                 processed>>

EnqueuerPut ==
  /\ enqueuer.at = "put"
  /\ timed' = Insert(timed, enqueuer.x)
  /\ sorting' = TRUE
  /\ EnqueuerGoes("sort")
  /\ UNCHANGED <<world, redis, main, loaded, terminated, entries, processed>>

EnqueuerSorted ==
  /\ enqueuer.at = "sort"
  /\ sorting' = FALSE
  /\ loaded' = TRUE
  /\ EnqueuerGoes("loop")
  /\ UNCHANGED <<world, redis, timed, main, terminated, entries, processed>>

EnqueuerCheck ==
  /\ enqueuer.at = "check"
  /\ EnqueuerGoes(IF Commanded THEN "command" ELSE "loop")
  /\ UNCHANGED <<world, redis, timed, sorting, main, loaded, terminated, entries,
                 processed>>

EnqueuerCommand ==
  /\ enqueuer.at = "command"
  /\ entries' = entries + 1
  /\ NotifyTermination /\ EnqueuerGoes(OrRaise("loop"))
  /\ UNCHANGED <<world, redis, timed, sorting, main, loaded, processed>>

EnqueuerStep ==
  \/ EnqueueHistory \/ EnqueuerLoop \/ EnqueuerPop \/ EnqueuerEmpty
  \/ EnqueuerLen \/ EnqueuerTail \/ EnqueuerPut \/ EnqueuerSorted
  \/ EnqueuerCheck \/ EnqueuerCommand

-----------------------------------------------------------------------------
(* The world around the calculator, until the run has ended.               *)

Ended == main.at \in {"done", "RedisEmpty", "DoesNotExist"}

\* Traccar receives the next position of the flight.
Record ==
  /\ ~Ended /\ conf.live /\ Len(server) < Len(conf.track)
  /\ conf.track[Len(server) + 1].time <= now
  /\ server' = Append(server, conf.track[Len(server) + 1])
  /\ UNCHANGED <<conf, now, finished_by, sent, requested, deleted, commands, redis, timed,
                 sorting, threads, processed>>

\* The dispatcher forwards a position: in any order, some never.
Send ==
  /\ ~Ended
  /\ \E i \in DOMAIN server \ sent :
       /\ redis' = Append(redis, <<server[i]>>)
       /\ sent' = sent \cup {i}
  /\ UNCHANGED <<conf, now, finished_by, server, requested, deleted, commands, timed, sorting,
                 threads, processed>>

Request ==
  /\ ~Ended /\ commands < MaxCommands
  /\ requested' = TRUE /\ commands' = commands + 1
  /\ UNCHANGED <<conf, now, finished_by, server, sent, deleted, redis, timed,
                 sorting, threads, processed>>

\* The flag is cancelled, or expires in the cache.
Expire ==
  /\ ~Ended /\ requested
  /\ requested' = FALSE
  /\ UNCHANGED <<conf, now, finished_by, server, sent, deleted, commands, redis,
                 timed, sorting, threads, processed>>

Delete ==
  /\ ~Ended /\ commands < MaxCommands /\ ~deleted
  /\ deleted' = TRUE /\ commands' = commands + 1
  /\ UNCHANGED <<conf, now, finished_by, server, sent, requested, redis, timed,
                 sorting, threads, processed>>

Tick ==
  /\ now < MaxNow
  /\ now' = now + 1
  /\ UNCHANGED <<conf, finished_by, server, sent, requested, deleted, commands, redis, timed,
                 sorting, threads, processed>>

-----------------------------------------------------------------------------
(* The specification.                                                      *)

Init ==
  /\ conf \in [live : {TRUE}, track : Flights] \cup [live : {FALSE}, track : Batches]
  /\ now = 0 /\ finished_by = FinishedBy
  /\ server = IF conf.live THEN SubSeq(conf.track, 1, Before(0, conf.track))
              ELSE <<>>
  /\ sent = {} /\ requested = FALSE /\ deleted = FALSE /\ commands = 0
  /\ redis = IF conf.live THEN <<>>
             ELSE [i \in DOMAIN conf.track |-> <<conf.track[i]>>] \o <<Sentinel>>
  /\ timed = <<>> /\ sorting = FALSE /\ loaded = FALSE /\ terminated = FALSE
  /\ main = [at |-> "wait", previous |-> NoPosition, item |-> NoPosition]
  /\ enqueuer = [at |-> "start", x |-> [item |-> NoPosition, release |-> 0]]
  /\ processed = <<>> /\ entries = 0

Next ==
  \/ MainStep \/ EnqueuerStep
  \/ Record \/ Send \/ Request \/ Expire \/ Delete \/ Tick

Spec == Init /\ [][Next]_vars

\* Both threads get to run, and time passes. Nothing else has to happen.
Fairness == WF_vars(MainStep) /\ WF_vars(EnqueuerStep) /\ WF_vars(Tick)

FairSpec == Spec /\ Fairness

-----------------------------------------------------------------------------
(* Properties.                                                             *)

TypeOK ==
  /\ finished_by \in Int /\ now \in 0..MaxNow
  /\ \A i \in DOMAIN server : server[i] \in Position
  /\ sent \subseteq DOMAIN server
  /\ requested \in BOOLEAN /\ commands \in 0..MaxCommands
  /\ deleted \in BOOLEAN /\ sorting \in BOOLEAN
  /\ loaded \in BOOLEAN /\ terminated \in BOOLEAN
  /\ \A i \in DOMAIN redis : redis[i] \in Seq(Position)
  /\ \A i \in DOMAIN timed : timed[i].release \in Int
  /\ \A i \in DOMAIN processed : processed[i] \in Position
  /\ main.at = "process" => main.item # NoPosition
  /\ entries \in 0..2

\* Whatever reaches the calculator, from history, redis or Traccar's buffer, in
\* whatever order: the gatekeeper sees positions in the order they were flown.
InTimeOrder ==
  \A i, j \in DOMAIN processed : i < j => processed[i].time < processed[j].time

\* In a live run no position is scored, and shown, before the delay is over,
\* not even those that are fetched from Traccar's buffer.
NothingEarly ==
  [][\A i \in DOMAIN processed' \ DOMAIN processed :
       conf.live => processed'[i].time + Delay < now]_processed

\* A recalculation that is left alone has given the gatekeeper all of the batch
\* when it ends the track: every position that is later and elsewhere than the
\* one before.
Later(b, i) == \A j \in 1..(i - 1) : b[j].time < b[i].time
Moves(b) ==
  {i \in DOMAIN b :
     /\ Later(b, i)
     /\ \A j \in 1..(i - 1) :
          Later(b, j) /\ (\A k \in (j + 1)..(i - 1) : ~Later(b, k))
            => b[j].spot # b[i].spot}
BatchComplete ==
  (~conf.live /\ commands = 0 /\ main.at \in {"drain", "done"})
    => {conf.track[i] : i \in Moves(conf.track)}
         = {processed[i] : i \in DOMAIN processed}

\* A recalculation comes to an end, unless reading the last item of the timed
\* queue has killed the thread that feeds it.
BatchEnds == ~conf.live ~> (Ended \/ enqueuer.at = "IndexError")

\* A run that has received a position ends when it is told to, and a live one after the
\* finish time, even if no position comes any more.
EndsOnceLoaded == (loaded /\ (terminated \/ Late)) ~> Ended

\* run(): "The function terminates when self.track_terminated == True".
EndsWhenTerminated == terminated ~> Ended

=============================================================================
