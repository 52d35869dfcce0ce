------------------------- MODULE CalculatorDispatch -------------------------
(***************************************************************************)
(* How the calculators of one contestant are started, stopped and started  *)
(* over: the dispatcher, which starts one when a position arrives and none *)
(* seems to be running; processes or kubernetes jobs, which may crash; the *)
(* web, where an operator terminates, restarts or recalculates; and the    *)
(* two flags in the cache they talk through, which run out.                *)
(*                                                                         *)
(* Times are counted in units of 15 or of 30 seconds, as the cfg says. What *)
(* a calculator does with its positions is in module ContestantProcessor.   *)
(***************************************************************************)
EXTENDS Integers, FiniteSets

CONSTANTS
  Calculators, \* processes, pods and tasks a calculator may run in
  Productions, \* whether settings.PRODUCTION holds
  AliveFor,    \* how long a calculator's word that it runs is good (30 s)
  SpinUp,      \* what a kubernetes job is given to start (300 s)
  RequestFor,  \* the life of a termination request (the cache's default, 300 s)
  Patience,    \* what the web waits for a termination (60 s)
  CacheTtl,    \* how long the dispatcher remembers a contestant (60 s)
  MaxRequests, \* bound: times an operator asks for something
  MaxUpsets    \* bound: crashes, slow calculators and failed spawns

Nobody == "nobody"

ASSUME DispatchAssumption ==
  /\ IsFiniteSet(Calculators) /\ Nobody \notin Calculators /\ "job" \notin Calculators
  /\ AliveFor \in Nat \ {0} /\ Patience \in Nat \ {0} /\ CacheTtl \in Nat \ {0}
  /\ {SpinUp, RequestFor} \subseteq {n \in Nat : n > Patience} /\ AliveFor <= SpinUp
  /\ {MaxRequests, MaxUpsets} \subseteq Nat /\ Productions \subseteq BOOLEAN

VARIABLES
  production, \* settings.PRODUCTION
  running,    \* CALCULATOR_RUNNING: the time it has left, 0 when it is not set
  requested,  \* CALCULATOR_TERMINATION_REQUESTED, likewise
  finished,   \* contestanttrack.calculator_finished
  over,       \* finished_by_time has passed
  calc,       \* where each calculator is
  cached,     \* contestant_cache: whether the device is the contestant's, and for how long
  entry,      \* processes[key]: Nobody, "job", or a process
  job,        \* the kubernetes job: Nobody or what it runs, and whether it is being deleted
  dispatcher, \* where the dispatcher is
  web,        \* where the operator's request is, how long it has waited, and (history)
              \* whether a calculator was at work to hear it and did not crash
  requests, upsets, \* how many there have been
  lapsed,     \* history: a calculator was there when its word had run out
  crossed     \* history: a recalculation was asked for while the dispatcher could still
              \* start a calculator, or another task was waiting; or a new calculator
              \* heard the request of a restart that was about to be cancelled, or was
              \* at work when a restart reset the row

flags == <<running, requested>>
row == <<finished, over>>
kubernetes == <<production, job>>
dispatch == <<cached, entry, dispatcher>>
counts == <<requests, upsets>>
history == <<lapsed, crossed>>
vars == <<flags, row, calc, kubernetes, dispatch, web, counts, history>>

Places == {"gone", "spawned", "task", "constructing", "waiting", "looping", "finishing", "clearing"}
\* From the construction of its processor to the end of run() a calculator changes
\* the contestant's track and score.
Working == {c \in Calculators : calc[c] \in {"constructing", "waiting", "looping", "finishing", "clearing"}}

Free == {c \in Calculators : calc[c] = "gone" /\ c \notin {entry, job.runs}}
InJob(c) == job.runs = c

Alive(t) == running' = t

-----------------------------------------------------------------------------
(* The dispatcher. Positions of the device keep arriving.                  *)

\* cached_find_contestant
Found == IF cached.left > 0 THEN cached.found ELSE ~finished /\ ~over
Looked == cached' = IF cached.left > 0 THEN cached ELSE [found |-> Found, left |-> CacheTtl]

MustStart_Always == TRUE
MustStart == entry = Nobody \/ running = 0

\* start_internal_calculator
StartProcess(c) ==
  /\ c \in Free
  /\ Alive(AliveFor)
  /\ calc' = [calc EXCEPT ![c] = "spawned"]
  /\ entry' = c

\* add_positions_to_calculator; a process that has ended is forgotten afterwards.
Dispatch ==
  /\ dispatcher = "idle"
  /\ Looked
  /\ IF Found /\ MustStart
     THEN IF production
          THEN /\ entry' = "job" /\ dispatcher' = "spawning"
               /\ UNCHANGED <<running, calc>>
          ELSE (\E c \in Calculators : StartProcess(c)) /\ UNCHANGED dispatcher
     ELSE /\ entry' = IF entry \in Calculators /\ calc[entry] = "gone" THEN Nobody ELSE entry
          /\ UNCHANGED <<running, calc, dispatcher>>
  /\ UNCHANGED <<requested, row, kubernetes, web, counts, history>>

\* spawn_calculator_job: the job's name is taken as long as an earlier one is there,
\* finished or not.
Spawn ==
  /\ dispatcher \in {"spawning", "spawning again"}
  /\ IF job.runs = Nobody
     THEN \E c \in Free :
            /\ job' = [runs |-> c, deleting |-> FALSE]
            /\ calc' = [calc EXCEPT ![c] = "spawned"]
            /\ dispatcher' = "created"
     ELSE /\ dispatcher' = IF dispatcher = "spawning" THEN "deleting" ELSE "idle"
          /\ UNCHANGED <<job, calc>>
  /\ UNCHANGED <<flags, row, production, cached, entry, web, counts, history>>

MarkAlive ==
  /\ dispatcher = "created"
  /\ Alive(SpinUp) /\ dispatcher' = "idle"
  /\ UNCHANGED <<requested, row, calc, kubernetes, cached, entry, web, counts, history>>

\* Any other error, and an internal process takes over.
SpawnFails ==
  /\ dispatcher = "spawning" /\ upsets < MaxUpsets
  /\ upsets' = upsets + 1
  /\ \E c \in Calculators : StartProcess(c)
  /\ dispatcher' = "idle"
  /\ UNCHANGED <<requested, row, kubernetes, cached, web, requests, history>>

\* delete_calculator does not wait for the job to be gone: its loop runs while the
\* minute it waits is over.
DeleteJob ==
  /\ dispatcher = "deleting"
  /\ job' = [job EXCEPT !.deleting = job.runs # Nobody]
  /\ dispatcher' = "spawning again"
  /\ UNCHANGED <<flags, row, calc, production, cached, entry, web, counts, history>>

JobGone ==
  /\ job.deleting
  /\ job' = [runs |-> Nobody, deleting |-> FALSE]
  /\ calc' = [calc EXCEPT ![job.runs] = "gone"]
  /\ UNCHANGED <<flags, row, production, dispatch, web, counts, history>>

-----------------------------------------------------------------------------
(* A calculator.                                                           *)

Goes(c, at) == calc' = [calc EXCEPT ![c] = at]

\* calculator_process, and calculator_job.py, which does not look at the request
Begins_Again(c) == InJob(c) \/ requested = 0
Begins(c) == ~finished /\ (InJob(c) \/ requested = 0)
Begin(c) ==
  /\ calc[c] = "spawned"
  /\ Goes(c, IF Begins(c) THEN "constructing" ELSE "gone")
  /\ running' = IF Begins(c) THEN AliveFor ELSE running
  /\ UNCHANGED <<requested, row, kubernetes, dispatch, web, counts, history>>

\* ContestantProcessor.__init__ resets the row; run() gives its word again.
Construct(c) ==
  /\ calc[c] = "constructing"
  /\ Alive(AliveFor) /\ finished' = FALSE
  /\ Goes(c, "waiting")
  /\ UNCHANGED <<requested, over, kubernetes, dispatch, web, counts, history>>

\* finished_loading_initial_positions
Loaded(c) ==
  /\ calc[c] = "waiting"
  /\ Goes(c, "looping") /\ Alive(AliveFor)
  /\ UNCHANGED <<requested, row, kubernetes, dispatch, web, counts, history>>

\* notify_termination: somebody asked for it, the time is over, or the contestant
\* has landed, which makes it over. A recalculation comes to its end.
Notify(c) ==
  /\ calc[c] = "looping"
  /\ finished' = TRUE
  /\ \/ /\ requested > 0 /\ UNCHANGED over
        /\ crossed' = (crossed \/ web.at \in {"resetting", "cancelling"})
     \/ over' = TRUE /\ UNCHANGED crossed
  /\ Goes(c, "finishing")
  /\ UNCHANGED <<flags, kubernetes, dispatch, web, counts, lapsed>>

SetFinished(c) ==
  /\ calc[c] = "finishing"
  /\ finished' = TRUE
  /\ Goes(c, "clearing")
  /\ UNCHANGED <<flags, over, kubernetes, dispatch, web, counts, history>>

\* calculator_is_terminated, when the scores are through
ClearFlag(c) ==
  /\ calc[c] = "clearing"
  /\ Alive(0)
  /\ Goes(c, "gone")
  /\ UNCHANGED <<requested, row, kubernetes, dispatch, web, counts, history>>

\* An exception ends a process; a job is given another pod.
Crash(c) ==
  /\ c \in Working /\ upsets < MaxUpsets
  /\ upsets' = upsets + 1
  /\ Goes(c, IF InJob(c) THEN "spawned" ELSE "gone")
  /\ web' = [web EXCEPT !.heard = FALSE]
  /\ UNCHANGED <<flags, row, kubernetes, dispatch, requests, history>>

-----------------------------------------------------------------------------
(* The web.                                                                *)

\* blocking_request_calculator_termination
Ask ==
  /\ web.at \in {"idle", "stopped", "restarted"} /\ requests < MaxRequests
  /\ requests' = requests + 1
  /\ requested' = RequestFor
  /\ \E kind \in {"terminate", "restart"} : 
       web' = [kind |-> kind, at |-> "polling", waited |-> 0, heard |-> Working # {}]
  /\ UNCHANGED <<running, row, calc, kubernetes, dispatch, upsets, history>>

Poll ==
  /\ web.at = "polling" /\ running = 0
  /\ web' = [web EXCEPT !.at = IF web.kind = "restart" THEN "resetting" ELSE "stopped"]
  /\ UNCHANGED <<flags, row, calc, kubernetes, dispatch, counts, history>>

\* TimeoutError
GiveUp ==
  /\ web.at = "polling" /\ running > 0 /\ web.waited = Patience
  /\ web' = [web EXCEPT !.at = "timed out"]
  /\ UNCHANGED <<flags, row, calc, kubernetes, dispatch, counts, history>>

\* contestanttrack.reset
Reset_StillFinished == UNCHANGED finished
Reset == finished' = FALSE

\* restart_contestant_calculator goes on when it has been told that none is running.
ResetTrack ==
  /\ web.at = "resetting"
  /\ Reset
  /\ web' = [web EXCEPT !.at = "cancelling"]
  /\ crossed' = (crossed \/ Working # {})
  /\ UNCHANGED <<flags, over, calc, kubernetes, dispatch, counts, lapsed>>

CancelRequest ==
  /\ web.at = "cancelling"
  /\ requested' = 0
  /\ web' = [web EXCEPT !.at = "restarted"]
  /\ UNCHANGED <<running, row, calc, kubernetes, dispatch, counts, history>>

\* revert_uploaded_gpx_track_for_contestant: a task is queued when none is running.
Revert ==
  /\ web.at \in {"idle", "stopped", "restarted"} /\ requests < MaxRequests
  /\ requests' = requests + 1
  /\ running = 0
  /\ finished' = FALSE
  /\ \E c \in Free : Goes(c, "task")
  /\ web' = [web EXCEPT !.at = "idle"]
  /\ crossed' = (crossed \/ ~over \/ Found \/ dispatcher # "idle"
                 \/ \E c \in Calculators : calc[c] # "gone")
  /\ UNCHANGED <<flags, over, kubernetes, dispatch, upsets, lapsed>>

\* recalculate_live_contestant: the contestant is over, and a request is cancelled.
Recalculate(c) ==
  /\ calc[c] = "task" /\ Alive(AliveFor)
  /\ over' = TRUE /\ requested' = 0
  /\ Goes(c, "constructing")
  /\ UNCHANGED <<finished, kubernetes, dispatch, web, counts, history>>

-----------------------------------------------------------------------------
(* Time. A calculator in its loop renews its word; one that is loading, or *)
(* writing the last scores, does not, and neither does one that is stuck.  *)

Less(n) == IF n > 0 THEN n - 1 ELSE 0

\* The web looks every three seconds, and does not rest between two statements.
MayTick_NeverGivesUp == ~(web.at = "polling" /\ running = 0)
MayTick == ~(web.at = "polling" /\ (running = 0 \/ web.waited = Patience))
           /\ web.at \notin {"resetting", "cancelling"}

Tick ==
  /\ MayTick
  /\ \E stuck \in {S \in SUBSET {c \in Calculators : calc[c] = "looping"} :
                    upsets + Cardinality(S) <= MaxUpsets} :
       /\ upsets' = upsets + Cardinality(stuck)
       /\ running' = IF \E c \in Calculators \ stuck : calc[c] = "looping"
                     THEN AliveFor ELSE Less(running)
  /\ requested' = Less(requested)
  /\ cached' = [cached EXCEPT !.left = Less(@)]
  /\ web' = [web EXCEPT !.waited = IF web.at = "polling" THEN @ + 1 ELSE @]
  /\ lapsed' = (lapsed \/ (running' = 0 /\ \E c \in Calculators : calc[c] \notin {"gone", "task"}))
  /\ UNCHANGED <<row, calc, kubernetes, entry, dispatcher, requests, crossed>>

\* What is remembered of a contestant is forgotten when its time is over.
TimeIsOver ==
  /\ ~over /\ over' = TRUE
  /\ cached' = [cached EXCEPT !.left = 0]
  /\ UNCHANGED <<flags, finished, calc, kubernetes, entry, dispatcher, web, counts, history>>

-----------------------------------------------------------------------------
Init ==
  /\ production \in Productions
  /\ running = 0 /\ requested = 0
  /\ finished = FALSE /\ over = FALSE
  /\ calc = [c \in Calculators |-> "gone"]
  /\ cached = [found |-> FALSE, left |-> 0] /\ entry = Nobody
  /\ job = [runs |-> Nobody, deleting |-> FALSE]
  /\ dispatcher = "idle"
  /\ web = [kind |-> "terminate", at |-> "idle", waited |-> 0, heard |-> FALSE]
  /\ requests = 0 /\ upsets = 0
  /\ lapsed = FALSE /\ crossed = FALSE

Step(c) == Begin(c) \/ Construct(c) \/ Loaded(c) \/ SetFinished(c) \/ ClearFlag(c) \/ Recalculate(c)
DispatcherSteps == Dispatch \/ Spawn \/ MarkAlive \/ DeleteJob
WebSteps == Poll \/ GiveUp \/ ResetTrack \/ CancelRequest

Next ==
  \/ DispatcherSteps \/ SpawnFails \/ JobGone
  \/ \E c \in Calculators : Step(c) \/ Notify(c) \/ Crash(c)
  \/ WebSteps \/ Ask \/ Revert
  \/ Tick \/ TimeIsOver

\* Positions keep arriving, time goes on, and whoever has something to do does it.
\* A calculator need not come to its end unless it is told to.
Fairness ==
  /\ WF_vars(DispatcherSteps) /\ WF_vars(JobGone) /\ WF_vars(WebSteps) /\ WF_vars(Tick)
  /\ \A c \in Calculators : WF_vars(Step(c)) /\ WF_vars((requested > 0 \/ over) /\ Notify(c))

Spec == Init /\ [][Next]_vars /\ Fairness

-----------------------------------------------------------------------------
\* The variables hold values of their kinds, and a job or a process that is being
\* kept track of is no longer free.
TypeOK ==
  /\ production \in BOOLEAN /\ finished \in BOOLEAN /\ over \in BOOLEAN
  /\ running \in 0..SpinUp /\ requested \in 0..RequestFor
  /\ calc \in [Calculators -> Places]
  /\ cached \in [found : BOOLEAN, left : 0..CacheTtl]
  /\ entry \in Calculators \cup {Nobody, "job"}
  /\ job \in [runs : Calculators \cup {Nobody}, deleting : BOOLEAN]
  /\ job.deleting => job.runs # Nobody
  /\ dispatcher \in {"idle", "spawning", "created", "deleting", "spawning again"}
  /\ web \in [kind : {"terminate", "restart"}, waited : 0..Patience, heard : BOOLEAN,
              at : {"idle", "polling", "stopped", "timed out", "resetting", "cancelling", "restarted"}]
  /\ requests \in 0..MaxRequests /\ upsets \in 0..MaxUpsets
  /\ lapsed \in BOOLEAN /\ crossed \in BOOLEAN

\* Two calculators never work on one contestant at once, unless the word of the
\* first ran out while it worked, or a recalculation was asked for.
OneCalculator ==
  Cardinality(Working) > 1 => lapsed \/ crossed

\* When the web has told the operator that the calculator is terminated, none works
\* on the contestant, and none will until a restart or a recalculation is asked for:
\* the positions that keep arriving start none that gets beyond looking at the row.
StoppedStaysStopped ==
  web.at = "stopped" /\ web.heard /\ Working # {} => lapsed \/ crossed

\* A restarted contestant is tracked again when positions keep arriving, as
\* restart_contestant_calculator says, unless its time is over or the operator asks
\* for something else.
RestartedIsTracked ==
  web.at = "restarted" ~> Working # {} \/ over \/ web.at # "restarted" \/ lapsed \/ crossed

\* The web gives up waiting for a calculator that was at work with "Calculator is
\* running even though termination is requested" only when there is one, or at least
\* one that has been started.
TimeoutTellsTruth ==
  [][GiveUp /\ web.heard /\ ~lapsed => \E c \in Calculators : calc[c] # "gone"]_vars

=============================================================================
