# Verification of the live tracking platform

TLA+ models, TLC runs and TLAPS proofs for the core of the live tracking and scoring
platform for air sports: how the positions of an aircraft become gate passings,
penalties and a score while it flies, how these reach the pages of spectators, and how
organisers draw routes and arrange results. Paths below are relative to `src/` of the
repository's checkout: the Django project is in `src/src/`, the front end in
`src/reactjs/`.

## The system

Positions arrive from Traccar over a websocket. A dispatcher finds the contestant who
flies the device, starts a *calculator* for the contestant (a process, or a kubernetes
job) and appends the positions to the contestant's redis queue. A calculator has three
threads. The *enqueuer* moves positions from redis to a timed queue that delays them.
The *main thread* takes them when they are due, drops old ones, fetches missing ones,
and gives them to the *gatekeeper*, which follows the route gate by gate and asks other
calculators (corridor, zones, backtracking). Whatever costs points is put as a message
on a queue to the *score thread*, which limits it by type and writes the log, the
annotations and the score to the database and to the front end. Organisers edit scores,
stop calculators, delete contestants and start recalculations meanwhile. Pages fetch
what there is over HTTP, and are told of what is new over websockets, through signals
and facades on the server. A route is drawn in a page of its own and stored as a list of
features.

### Inventory

| Component | State | Operations | Interacts by | What makes it correct |
|---|---|---|---|---|
| Position receiver (`position_processor.py`) | connection | receive, reconnect, liveness check | process queue to the dispatcher | no position is kept back |
| Dispatcher (`position_processor_process.py`, `calculator_job.py`) | processes, contestant cache, last seen times | map to contestants, start or restart a calculator, append | redis, flags in the cache, processes | one calculator per contestant; none after the end |
| Redis queue (`redis_queue.py`) | a list | append, pop, blocking pop, empty | used by three processes | nothing of its own |
| Run and termination flags (`calculator_*_utilities.py`) | two expiring keys per contestant | set, clear, read | cache | a request stops the calculator; what the web is told is true |
| Contestant processor (`contestant_processor.py`) | track_terminated, previous position, finish time, an event | run, enqueue, terminate, drain | both queues, Traccar, database, gatekeeper | order, delay, completeness; it ends when it should |
| Timed queue (`utilities/timed_queue.py`) | sorted list, event, lock, flag | put, get, peek, close | two threads | due items leave, in order; nobody sleeps on a due item |
| Gatekeeper (`gatekeeper.py`, `gatekeeper_route.py`, `positions_and_gates.py`) | outstanding gates, outcome of each, last gate, gate in range, en route, finish | one position, end of track | calculators, score queue | gates in sequence, each scored once |
| Other calculators (`anr_corridor_calculator.py`, zones, backtracking) | inside or outside, since when, tracking state | en route, outside route, finish | gatekeeper, score queue | a stay is penalised once and for its length; a penalty is deserved |
| Score keeping (`ScoreAccumulator`, `update_score_from_thread`, `contestant_track.py`, `scoring_models.py`) | accumulated scores, log, score, finished flag | message, edit, finish | queue, database rows shared with the web | limits exact; score is the sum of the log |
| Recalculation (`playback.py`, `tasks.py`) | a batch | stop the old calculator, enqueue, run | redis, flags | as a live run of the same track |
| Contestant (`models/contestant.py`) | times, trackers | validation, gate times, reset, blocking termination | dispatcher, calculator, web | one contestant per device and time |
| Track page (`navigationTask.js`, `contestantTrack.js`, `reducers/index.js`) | loading and fetching flags, cursor, score, drawn line | pages, score, messages | HTTP, websocket | what is drawn is the track; the score catches up |
| Results table (`TaskSummaryResultsTable.js`, `signals.py`) | index per task | move, edit, add, delete, push | HTTP, websocket, signals | the order asked for, on every page |
| Results sums (`scoring_table_models.py`) | scores per test, task, contest | save and delete signals | score writes | summaries are sums |
| Route editor (`routeEditor.js`) | layers, waypoints, form, saved flag | draw, edit, describe, save, cancel | HTTP | stored routes are sound; "Saved" is true |
| Poker and landing (`gatekeeper_poker.py`, `gatekeeper_landing.py`, `playing_card.py`) | cards | draw | gatekeeper | no card twice |
| Web application, scheduling, flight order maps, scorecards | configuration and views | - | - | - |

The hard behaviours: threads that share a list, an event and a database object without a
common lock; positions that come late, twice and out of order; time limits and polling
on both sides of every queue; ends that race with input; edits of rows that a thread is
in the middle of updating; keys that expire while somebody relies on them; pages that
mix answers and messages of different age. Each one is in `PROJECT.json` under
"hazards", at its line, with the properties that are about it.

## Modules

| Module | Models |
|---|---|
| `GatekeeperRoute` | the gatekeeper of a navigation task, one action per position and one for the end of the track |
| `RouteCalculators` | the corridor, zone and backtracking calculators the gatekeeper calls |
| `RouteCalculatorsProofs` | proofs about it |
| `DelayQueue` | what a delay queue promises its users |
| `TimedQueue` | the timed queue, thread step by thread step; implements `DelayQueue` |
| `TimedQueueProofs` | proofs about it, and of the refinement |
| `ContestantProcessor` | the main thread and the enqueuer of a calculator, and the world they run in |
| `ContestantProcessorProofs` | proofs about it |
| `ScoreKeeping` | the score thread, the end of a run by the main thread or the enqueuer, and edits from the web |
| `ScoringProofs` | proofs about `GatekeeperRoute` and `ScoreKeeping` |
| `CalculatorDispatch` | who starts, stops and restarts the calculators of a contestant |
| `CalculatorDispatchProofs` | proofs about it |
| `TrackFeed` | how a contestant's track and score reach the map of one page |
| `ResultsTable` | the order of the tasks in several pages with the results |
| `ResultsTableProofs` | proofs about it |
| `RouteEditor` | the page a route is drawn and stored with |
| `FrontEndProofs` | proofs about `RouteEditor` and `TrackFeed` |
| `ListLemmas` | facts about sequences, least elements and folds that several proofs need |
| `MC...` | constants of each of these for TLC |

`ContestantProcessor` uses the timed queue by its contract, `RouteCalculators` the
gatekeeper by its calls, `CalculatorDispatch` the processor by its places, `TrackFeed`
the calculator by what it saves and sends. They are checked apart: each has all the
concurrency its own code meets, and together they are beyond TLC. Where one module of
proofs covers two components, the definitions of the second carry a prefix (`FeedSpec`,
`ScoreTypeOK`), so that both can be extended.

### GatekeeperRoute

The Python object is the record `gk`, one field per attribute; gates are numbers in
route order, 0 is the takeoff gate and N + 1 the landing gate (a MultiGate is one gate
here). `status` merges `passing_time` and `missed` of a gate, `settled` is the prefix of
gates below `last_gate_index`. Each method that changes state is an operator from record
to record (`CheckTakeoff`, `CheckStartingLine`, `CrossGates`, `NoteNearMiss`,
`ConfirmNearMiss`, `CheckGateInRange`, `CheckFinishPoint`, `CheckLanding`,
`CalculateGateScore`), and `CheckIntersections`, `CheckGates` compose them in the order
of the code. The loop from the last outstanding gate to the first, which pops as it
goes, is given in closed form (`CrossGates`, `EnrouteAfter`).

The actions are `CalculateScore` (`calculate_score` for one position) and `Finish`
(`finished_processing`). Inputs are the outcomes of geometry: a `Segment` says which
gates the last stretch of track crosses in the right direction and whether it crosses
the infinite starting line, a `Proximity` which gates the position is inside or outside
the range of. The exception of a track without positions is a phase of its own,
`crashed`. Left out: the amounts of scores, times, adaptive recalculation of gate times,
messages to the front end, and the penalty for crossing the start backwards. Taking the
score of a takeoff gate as settled by "passing" or "missing" messages is what `passings`
and `misses` count.

### RouteCalculators

The four calculators know nothing of each other, so each behaviour watches one
(`calculator`). `corridor`, `zone` and `tracking` are the attributes of the objects,
with what they have charged so far. `Position` is `calculate_score`: the gates first
(`PassGates`, `CrossStartingLine` give the last gate and whether the contestant is en
route, as module `GatekeeperRoute` derives them; a near miss that is given up is the
crossing of one gate), then `passed_finishpoint` if the last gate is the finish, then
the calculator. `Finish` is the end of the track. Where the contestant is, and whether
it flies against the track, are inputs. `spell`, `owed` and `carried` are history: they
compute from the inputs alone what ought to be charged. One zone stands for each, as
zones have separate entries in every map of the code; limits are in `ScoreKeeping`.

### TimedQueue and DelayQueue

Between two accesses of `get()` to shared state any other thread may run: `GetCheck`
(under the lock: empty, closed, how long to sleep), `GetWake` (the event is set or the
time is over), `GetClear` (clear, and read the clock), `GetTake` (under the lock: hand
out, time out or go round). `put()` is append, sort and set under the lock, `close()` is
two steps without it. Items are numbered in order of arrival. `DelayQueue` knows nothing
of threads: a set of items, requests and answers. `TimedQueue!Contract` maps the one to
the other.

### ContestantProcessor

`main.at` and `enqueuer.at` are places in `run()` and in `enqueue_positions_thread()`;
one action is the code between two points where the other thread, the web or the clock
matters. `redis` and `timed` are sequences; the None that ends a batch is the empty
sequence. The timed queue appears by its contract (an item is due when its release time
is past), and also by its list, which is read without the lock at two places: `peek()`
while it is being sorted (`sorting`), and length and last item for the release time of
None (`EnqueuerLen`, `EnqueuerTail`). The world: Traccar records the flight (`Record`),
the dispatcher forwards positions in any order and not all of them (`Send`), somebody
asks for termination (`Request`), which may expire or be cancelled (`Expire`), or
deletes the contestant (`Delete`), and time passes. A recalculation (`conf.live =
FALSE`) finds its batch in redis. Three ends: `done`; `RedisEmpty`, raised when the
enqueuer takes what `empty()` saw; `DoesNotExist`, standing for every database error
that a deleted contestant causes. The enqueuer may also end by `IndexError`.

### ScoreKeeping

One step per access to the database, or to the object of the track, which three threads
share. The score thread takes a message, limits it and adds it up (`Accumulate`),
refreshes the track, records the points by gate, creates the log entry and its
annotation, refreshes and writes the score (`UpdateTrack`), and calls `task_done()`. A
refresh is two steps: `RefreshReads` reads the row, `RefreshAssigns` assigns its fields
to the shared object, and anything may happen between. `set_calculator_finished()` is
three: the attribute is set (`MarkFinished`), `save()` takes what it is by then
(`TakeMark`) and stores it (`SaveFinished`). The main thread goes through it when it
ends its loop and again before `join()`; the enqueuer does when it hears that the run is
to end (`HearCommand`), after a notice of no points (`PutNotice`), and then the main
thread leaves its loop by `LeaveLoop`. An edit is the deletion of an entry or a change
of the initial score: read, write, commit.

History variables: `asked`, what was asked for by type; `removed`, the entries deleted;
`raced`, an edit overlapped with an update; `joined`, how many messages there were when
`join()` returned; `collisions`, how often a refresh undid a mark before it was taken;
`overtaken`, whether a False read or taken earlier arrived after True was stored. The
gatekeeper works with an object of the track of its own once the contestant has been
refreshed, which the first turn of the loop does, and is left out for that.

### CalculatorDispatch

One contestant, and the processes, pods and tasks its calculators may run in. `running`
and `requested` are the two keys of the cache with the time they have left. The
dispatcher acts whenever a position arrives (positions keep arriving): it looks the
contestant up, or remembers it (`cached`), and starts a calculator when none seems to be
alive (`MustStart`), as a process or, with `production`, as a job in several steps of
which each may fail. A calculator is constructed, waits for its first position, loops,
finishes and clears its flag; it may crash anywhere (`Crash`), after which kubernetes
starts another pod for the job. The web asks for termination, polls and gives up; resets
and cancels the request for a restart; or reverts and recalculates, which runs a
calculator in a task. Time is a tick of the keys, which is taken only when nobody is
late for what the code does within it (`MayTick`). `lapsed` and `crossed` are history
and name the two ways in which the code lets two calculators be.

### TrackFeed

One page and one contestant. The server's calculator saves positions, transmits them
(`SavePositions`, `TransmitPositions`), changes the score, and starts over with a new
`track_version`. The page mounts the track, fetches pages of it one after the other, and
the score once (`AnswerPage`, `DeliverPage`, `AnswerScore`, `DeliverScore`: an answer
may be read long before it is delivered), receives messages in order (`inbox`), loses
and reopens its socket. `RenderPositions` is what `componentDidUpdate` adds to the line:
what is newer than its last point.

### ResultsTable

A task is its identity and its index. A page exchanges two columns in its store and
sends two requests; the server handles each as it is scheduled: find the row, save it,
push the list (read, then send). A row that was inserted is numbered after that, which
saves and pushes it again. `Saved` is Django's `save()`: it updates the row, or inserts
it when it was deleted meanwhile, and an inserted row goes through the numbering
whatever request it was saved by, the numbering itself included. The update that finds
no row and the insertion are one step. Answers update the page that asked, lists all
pages. Tests within a task are moved by a copy of the same code and are left out.

### RouteEditor

A layer is its kind, type, name, vertices and the list of waypoints that is kept beside
them; `live` says that a waypoint's position is the very object of a vertex, which
leaflet changes in place. Users draw, move, insert and remove vertices, drag photos, use
the forms, save and cancel; saves and fetches are answered in any order or fail. A save
that is refused takes the word "Saved" away (`SaveFails`); one that gets no answer does
not, since the page's handler of the error raises (`SaveUnanswered`). A fetch that fails
changes nothing (`FetchFails`). Dragging a photo fires no event the page listens to
(`DragMarker`). `Valid` is `validateLayer` with what it tests of tracks, gates and
photos. History: `doubt`, the drawing was changed while it was being saved, or fetched
together with a save; `stale`, the word "Saved" was set in doubt, or was left standing
by a change.

## Runs

| Run | Instance | Result |
|---|---|---|
| `gatekeeper` | four gates (start, turning point, secret gate, finish) with takeoff and landing; stretches crossing at most one gate | 6 properties hold |
| `gatekeeper_gap` | the same, a stretch may cross several gates | `NotEnrouteAfterFinish` fails |
| `calculators` | each of the four calculators; a route left and entered once, a procedure turn; any crossings | 3 properties hold |
| `timed_queue` | two producers, one consumer, a close | 3 properties hold, among them the refinement and delivery |
| `processor` | three flown positions live, and three batches; one command | 6 properties hold |
| `processor_hangs` | a termination before the first position | `EndsWhenTerminated` fails |
| `scores` | up to two messages of four kinds, one edit, a termination that may be commanded | 7 properties hold |
| `dispatch` | two calculators, one request of an operator, one crash or delay; processes and jobs | 4 properties hold |
| `dispatch_timeout` | processes, one request, no crash, in finer time | `TimeoutTellsTruth` fails |
| `track_feed` | three positions in pages of one, one change of the score, a second run, one loss or failure | 4 properties hold |
| `results_table` | two pages, two tasks, two clicks, one loss | 3 properties hold |
| `route_editor` | a new route or a stored one with a gate zone; four edits and requests, any of them failing | 4 properties hold |

The failing runs each check one statement of a docstring; what they found is in
`PROJECT.json` under "findings":

- `gatekeeper_gap`: one stretch of track over the finish point and an earlier gate
  leaves the contestant en route after the finish, and the calculators without their
  call.
- `processor_hangs`: a run that is terminated before its first position waits forever.
- `dispatch_timeout`: the web reports a calculator that is long gone as running, because
  positions of a remembered contestant start others that set the flag and leave at once.

### What holds only with exceptions

A property that excepts something says so in its comment, and each exception is a
behaviour of the code, reachable in the model:

- The end of a run: one that has received a position ends when it is terminated or after
  its finish time (`EndsOnceLoaded`); a recalculation ends unless the unlocked look at
  the timed queue's last item raised (`BatchEnds`); `join()` returns unless an entry was
  deleted before its annotation was written (`JoinEnds`).
- `ScoreIsSumUnlessRaced`: an edit that overlaps with an update of the score is lost, or
  undoes it.
- `FinishedUnlessLostTwice`: the mark that the calculator has finished is lost when two
  refreshes fall between an assignment and its save (`collisions`), or when one that was
  slow, or a save that was, brings a False from before after the True (`overtaken`).
- `ChargedAsOwed`: an excursion that goes on between two parts of the route is charged
  with the time between them; a stay in a penalty zone at the end of the flight is not
  charged; a finish point that does not end the route settles nothing, because the same
  stretch of track crosses an earlier gate or the starting line.
- `BacktrackingDeserved`: time off the track counts on while the contestant has left the
  route.
- `OneCalculator`, `StoppedStaysStopped`, `RestartedIsTracked`: a calculator that was
  silent for longer than its word is good for (`lapsed`); a recalculation while the
  dispatcher may start another, and a restart whose reset of the row clears "finished"
  under a calculator that has started meanwhile (`crossed`).
- `NoGapWithoutCause`: messages lost with the socket or dropped while loading, a
  contestant message that lets positions overtake a page, a new run, a failed page.
  After a failed page nothing asks again (`LoadingEnds`).
- `OrderIsAsAsked`, `PagesShowStored`: requests or lists that crossed, a request that
  failed.
- `SavedIsStored`: changes made during a save, a fetch under way with the save, and two
  changes that leave the word "Saved" standing: a waypoint's form and a dragged photo.

These are limits of the properties, not of the code: what falls under an exception is
bounded by the property and not ruled out.

Seen while modelling, without a run: `has_the_contestant_passed_a_gate_and_landed()`
never returns True; the score thread writes a score over an edit made since it read the
row, although its comment speaks of such edits; a deleted contestant makes `run()` raise
one statement before the handler made for it; after a regular start no gate is missed by
moving out of its range; a route without a track can be stored. Their lines are among
the hazards.

### Bounds

- Gatekeeper: four gates are enough for two gates before and after any gate in range, a
  gate whose type is not scored when missed, and every type of gate with a rule of its
  own on a route except intermediate points, which share the rules of the others in
  `update_enroute`. There is no bound on the number of positions: the length of the
  track matters only up to three. The theorems drop the bound.
- Calculators: ten seconds with steps of one or two, a grace time of one and a turn of
  two hold two stays that are too long and one that is not, a whole turn, and the
  crossing of all five gates.
- Timed queue: three puts by two producers give equal, past and future release times and
  an item inserted before the head while the consumer sleeps. `MaxNow` bounds the clock;
  after it, sleeps end and items become due as if time went on, so that liveness is not
  lost to the bound.
- Processor: a flight of three positions, one of them before the calculator starts,
  gives history, duplicates, reorderings and a gap that is filled from Traccar's buffer.
  Batches repeat a place and a time, and are released immediately or not. One command:
  two do not interact further, since both flags only lead to the same end. `FinishedBy`
  and `Delay` are small, so that being late, being early and being due all occur.
  `LandedCount` (60 in the code) is 2.
- Scores: two messages reach a limit exactly, overshoot it, and come after it was
  reached; and are a score and the notice that a run is terminated, with two refreshes
  of the track for the score. One edit may overlap with any update. `Commands` says
  whether the enqueuer may be told to end the run, so that either thread or both do.
- Dispatch: in units of 30 s (15 s in `dispatch_timeout`); the lives of five minutes are
  one unit longer than the web's patience, which is all that is compared. Two
  calculators suffice for two at once; one that is gone is free again, so any number may
  follow each other. `MaxRequests` and `MaxUpsets` are one. A second request does not
  always start from where the first ends: a restart meets the calculator that an earlier
  one let start. That is an exception of the properties (`crossed`), and the theorems
  hold for any number of requests.
- Track feed: three positions make a track of several pages of which a message may
  overtake the last; `MaxEvents` and `MaxUpsets` bound what happens to it. A message is
  on its way alone (`MaxBacklog`): the socket keeps their order.
- Results table: two clicks of two pages cross each other's requests, lists and answers;
  starts with a gap show what a deleted task leaves. Three requests and losses together
  hold a move and one more of either. A task that is deleted while a move of it, or the
  numbering of it, is under way is inserted again within these bounds.
- Route editor: four actions hold the sequences that matter, as draw, describe, change,
  save, or save, change, answer, save again. A line gets no more than four vertices
  (`MaxVertices`), a photo has two places (`Spots`), and there is one name more than
  that for new waypoints (`NewNames`, which the code numbers without end). The theorems
  hold for any bound.

Where a run sets CHECK_DEADLOCK FALSE the modelled system really stops: the track is
finished, the calls used up, or the calculator has ended.

### Fairness

- `TimedQueue`: threads that have begun `put()`, `close()` or `get()` are scheduled; the
  consumer calls `get()` again after an answer, as the loop of `run()` does; time
  passes. Nobody has to put or close.
- `ContestantProcessor`: weak fairness of the main thread, of the enqueuer and of the
  clock: operating system threads. Traccar, the dispatcher and users owe nothing. Each
  thread is at one place, and no step of the other keeps disabling it, so weak fairness
  of the disjunction is enough.
- `ScoreKeeping`: weak fairness of the main thread and of the score thread, none of
  edits or of the enqueuer, whom nobody has to command.
- `CalculatorDispatch`: weak fairness of the dispatcher (positions keep arriving), of
  kubernetes, of each calculator, of the waiting web request and of time. A calculator
  owes its end only once it is told to stop or its time is over; crashes, failures and
  operators owe nothing.
- `TrackFeed`: requests are answered, messages delivered, a lost socket is reopened (the
  page retries), and the processor calls `refresh_scores()` again and again while it
  runs.
- The other modules have safety properties only and assume none.

## Proofs

The theorems hold for every value of the constants that satisfies the assumptions named
in the modules, and without the bounds of the runs. For each component there is an
inductive invariant (`IInv`, unless it is named below; checked by TLC on the component's
run first), one lemma for each action and each part of the invariant that the action can
disturb, and the properties from it.

`GatekeeperRoute` (in `ScoringProofs`), for every number and type of gates, check flags
and inputs: types, gates are settled in sequence (`Sequence`), each is scored once
(`NeverScoredTwice`), all are scored at the finish (`AllScored`), outcomes are final
(`OutcomesFinal`), and three invariants that no run checks any more: the outstanding
gates are exactly the open ones, the gate in range is the next one as long as it is
open, and nothing is missed before the start. None is inductive alone. `IInv` joins them
with what the code keeps without saying: the outstanding gates are a suffix of the
route; the settled gates are a prefix of those with an outcome, and only they have
messages; before the start nothing but crossed gates is done. Each method has a lemma
that says what it preserves, since the invariant is broken between some of them; the
step of `CalculateScore` chains the lemmas in the order of the calls. They hold with
stretches that cross any number of gates. `OffRouteAfterFinish` needs more, since
`gatekeeper_gap` refutes it otherwise: under `PlainRoute` (the route ends at its finish
point, no stretch crosses two gates, or the finish point together with the starting
line, as in the run `gatekeeper`) `NotEnrouteAfterFinish` holds for every route.

`RouteCalculators`, for every route, grace time, length of turn and flight: types,
`ChargedAsOwed` and `BacktrackingDeserved`. The invariant ties what a calculator keeps
(outside since when, in the zone since when, off the track since when) to the stay that
really goes on and its length, and the procedure turns to the gates up to the last one
that call for one.

`TimedQueue`, for any producers, release times and timeouts: types, and that
`TimedQueue` implements `DelayQueue` (`QueueImplementsContract`). Producers hold the
lock one at a time; the list is sorted except between append and sort, when only its
last item may be out of place; the consumer's clock is never ahead of the queue's. From
these every step maps to a step of the contract or to a stutter: what is handed out is
the first of the due items.

`ContestantProcessor`, for any flights, batches, delay, time limit and number of
commands: types, `InTimeOrder`, and the action property `NothingEarly`. Positions in
both queues carry their release time; the last position considered is at least as late
as all that were given to the gatekeeper; each thread sends at most one entry about the
termination. The assumption `TrackAssumption` says that a flight's positions are in the
order of their times and that the clock's bound is after the last is due; batches are
arbitrary. `BatchComplete` holds of batches in the order of their times
(`BatchesInOrder`; playback and uploaded tracks are sorted by time, the property is
false of others). `BatchInv` says that a batch that is left alone is in one piece across
redis, the enqueuer's hands and the timed queue, with its end last; that what was popped
or given to the gatekeeper is counted; and that what was considered is what `Moves` says
of the positions that came out so far.

`CalculatorDispatch`, for any number of calculators, requests and crashes and any
lives of the keys that leave the web's patience shorter than a spawned job's flag and a
request: types, `OneCalculator`, `StoppedStaysStopped`. As long as neither exception has
come about, at most one calculator is anything but gone; the flag is set whenever one
may come to work; the dispatcher's entry is that calculator unless it cannot find the
contestant any more; and a termination that was heard leaves the row finished.

`ScoreKeeping` (in `ScoringProofs`), for every set of messages that respects
`ScoreAssumption` (a type is always sent with the same limit, as the calculators do,
which read it from the scorecard; notices of no points may come without), in two stages.
`ScoreInv`: types, `CapIsExact`, that the score thread holds at most one message, and
`Marks`, which gives `FinishedUnlessLostTwice`: as long as nothing was overtaken, a
thread whose mark was undone has cost a collision, the run is told to end only when the
track is stored as finished or one attempt was lost, and when the main thread has made
its second the track is stored or two were lost. It holds with the three threads and the
two halves of each refresh in any order. `LogInv`, proved from it: which messages are in
the log; by type and by gate, what was granted is the log's sum and what the score
thread has in hand; the score differs from the initial score and the log's sum by what
the thread or the editor is about to write. It gives `LogTellsAccumulated`,
`FinishedIsLogged` and `ScoreIsSumUnlessRaced` for any number of messages and edits. The
sum over the log is recursive in the set; that a function with its steps exists is shown
by building it up in as many steps as the log has entries (`FoldExists`, `SumExists`),
that it is unique by least counterexample (`SumAgrees`), and from both what an entry
more or less does to it (`PointsWith`, `PointsWithout`).

`RouteEditor` (in `FrontEndProofs`), for any number of layers, places, edits and
requests, in four stages. The first two need only the shape of layers, waypoints and
requests; names may be anything. `IInv`: each feature is drawn once; at most one is a
track, and whoever has chosen that type in an open form is not about to make a second;
whatever is stored, asked to be stored or fetched is sound. That the validation of each
drawn layer makes the stored route sound is `SavedIsSound`: names are given to gate
zones in between, and only labels and references are lost on the way to the server. It
rests on the assumptions `EditorAssumption` and `StoredInOrder`, that the page is opened
with routes that were sound before, and gives `StoredRoutesAreSound`. `SaveInv`, proved
from it, has two parts. `SavesInv`: as long as nothing is in doubt, saves under way are
of what is drawn, those answered are what the database holds, and no save is under way
together with a fetch. `StandsInv`: where "Saved" stands without an exception, what is
drawn is what the database holds, whether later saves were refused, got no answer or
have not been made, and naming the gate zones again would change nothing: without the
last, a second save that fails its validation could rename a zone under the word. It
gives `SavedIsStored`. `TypesInv` has the types of what is drawn, stored and
under way: whatever has been described is of a type of its kind, only photos' names are
kept as names of photos, and since no line has more vertices than the bound, a new
waypoint finds a name that no other has (by the pigeonhole principle). It gives `TypeOK`
and rests on `NamesAssumption` (the names for new waypoints differ and there are more of
them than vertices) and `LinesAssumption` (lines are drawn, and were stored, within the
bound). `OthersKeepTheirWaypoint` follows step by step: `EditKeeps` says of each edit of
a vertex that the search for waypoints by place matches every vertex that stays with the
waypoint it had (`MatchesAre`), since a line's places differ.

`TrackFeed` (in `FrontEndProofs`), for any lengths of the track and of the pages of it,
any number of runs, losses and messages: types and `NoGapWithoutCause`. The messages on
their way and those the server will send next are taken as one stream: the runs in it
do not overlap, each adjoins the one before, and none is older than what the page has
seen of its run (`SentInOrder`). The drawn line grows at its end only: of the mounted
track it reaches as far as the page's cursor, or to what the answer under way goes on
from, unless a cause has come about (`TrackGrows`).

`ResultsTable`, for any number of pages, tasks, requests and lists, in three stages:
types; `ShowInv`, and `PagesShowStored` from it; `OrderInv`, and `OrderIsAsAsked` from
it. `ShowInv` says of each connected page that it will come to show what is stored: a
list of it is about to be made or is the last on its way, or the page shows it already,
or was overtaken. What is being deleted counts as gone. `OrderInv` says what a half done
change has still to do: some table in the order asked for differs from the stored one
only by indexes that requests under way will write (`Moves`), or one request is alone,
and adds a task, last but for its index, or deletes one (`OneAlone`). It rests on lemmas
about columns: a table of distinct indexes is shown in one order only, exchanging two
neighbours exchanges them in the order, and an index above all others puts a task last.

`ListLemmas` holds what these share: least elements, what inserting, appending and
taking does to a sequence, folds over finite sets.

What the attempts to prove found:

- `OneCalculator` and `StoppedStaysStopped` failed for two requests, where the run had
  one: `restart_contestant_calculator` resets the row, "finished" included, under a
  calculator that a position started in between. The model now counts it as `crossed`.
- `ChargedAsOwed` had an exception for every flight that ends at its finish point, so
  that nothing was said of most flights' last stay. The exception is now only what the
  code does not settle.
- `OthersKeepTheirWaypoint` is false of a track that passes a place twice, which no run
  had drawn: waypoints are found by their place, and two with one place cannot be told
  apart. The property now says so (`PlacesDiffer`).

Only model-checked: all liveness properties and what follows from fairness (out of the
prover's reach).

## Not modelled

Scorecard arithmetic, geometry, interpolation (its positions reach only the database),
maps, scheduling, forms, permissions, filters and layout of the pages, the global map,
and the sums of the results service. Poker cards, which are drawn at random, and landing
tasks. The choice of a contestant among those with overlapping times on one device.
Undecodable items and a lost connection of the redis queue. Overlapping edits of scores
by two organisers. The largest files by lines are vendored libraries
(`static/jquery-ui`, `static/js`) and are not the project's own logic. The list of
components in `PROJECT.json` says for each part what is missing.

## Plan

Done: all modules of the table, and proofs of every safety property of the passing runs.
Left: the results service, whose sums are maintained by signals over tests, tasks and
contests.
