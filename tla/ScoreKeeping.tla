---------------------------- MODULE ScoreKeeping ----------------------------
(***************************************************************************)
(* The score of one contestant while it is calculated: the main thread     *)
(* sends score messages, a thread of its own turns them into log entries   *)
(* and adds them up, capped by type, and meanwhile organisers delete       *)
(* entries or change the initial score from the web. The enqueuer, a third *)
(* thread, may end the run when it is told to.                             *)
(*                                                                         *)
(* The score and the log are database rows: a step is one access to them,  *)
(* or to the object of the track that the three threads share.             *)
(***************************************************************************)
EXTENDS Integers, Sequences, FiniteSets, FiniteSetsExt

CONSTANTS
  Types,        \* score types
  GateNames,    \* gates that entries are for
  Messages,     \* score messages the calculators may send
  Initial,      \* initial_score of the scorecard
  Changes,      \* by how much it may be changed
  Commands,     \* whether the enqueuer may be told to terminate the run
  MaxMessages,  \* bound: messages in one run
  MaxEdits      \* bound: edits from the web

\* A message's maximum is 0 when it has none: None and 0 both mean no limit.
Message == [type : Types, gate : GateNames, points : Nat, maximum : Int]

\* Every type is sent with one maximum, which comes from the scorecard, except
\* that notices of no points are sent without.
Limit == [t \in Types |->
            LET ms == {m \in Messages : m.type = t /\ m.points > 0}
            IN  IF ms = {} THEN 0 ELSE (CHOOSE m \in ms : TRUE).maximum]

ASSUME ScoreAssumption ==
  /\ Messages \subseteq Message
  /\ \A m \in Messages : \/ m.maximum = Limit[m.type]
                         \/ m.points = 0 /\ m.maximum = 0
  /\ Initial \in Int /\ Changes \subseteq Int \ {0}
  /\ Commands \in BOOLEAN /\ MaxMessages \in Nat /\ MaxEdits \in Nat

VARIABLES
  sent,      \* messages put on score_processing_queue so far
  taken,     \* messages taken off it
  done,      \* messages whose task_done() was called
  main,      \* the main thread's place in the end of run()
  joined,    \* history: messages sent when join() returned
  enqueuer,  \* the enqueuer's place in check_termination_is_commanded
  terminated,  \* track_terminated
  saving,    \* how far each of these two is with set_calculator_finished
  marked,    \* calculator_finished of the track that the threads share
  finished,  \* calculator_finished, in the database
  collisions,  \* history: how often a refresh has undone a mark before it was saved
  overtaken,   \* history: False, from before, has replaced what was stored as True
  related,   \* related_score of the accumulator
  asked,     \* history: the points that messages asked for, by type
  updater,   \* the score thread: its place and local values
  row,       \* what its last refresh has read of the track
  score,     \* contestanttrack.score, in the database
  log,       \* the score log entries, in the database
  gates,     \* GateCumulativeScore
  initial,   \* initial_score, in the database
  editor,    \* an edit from the web: its place and local values
  edits,     \* edits so far
  removed,   \* history: the entries deleted
  raced      \* history: an edit and a score update have overlapped

queue == <<sent, taken, done>>
ends == <<main, joined, enqueuer, terminated, saving>>
mark == <<marked, finished, collisions, overtaken>>
totals == <<related, asked>>
updating == <<updater, row>>
web == <<initial, editor, edits, removed, raced>>
vars == <<queue, ends, mark, totals, updating, score, log, gates, web>>

Threads == {"main", "enqueuer"}
Entry == [id : 1..MaxMessages, type : Types, gate : GateNames, points : Int]

-----------------------------------------------------------------------------
(* set_and_update_score.                                                   *)

Reaches(total, m) == \/ m.maximum > 0 /\ total >= m.maximum
                     \/ m.maximum < 0 /\ total <= m.maximum

Capped_Alone(m) ==
  IF Reaches(m.points, m) THEN m.maximum ELSE m.points
Capped(m) ==
  IF Reaches(related[m.type] + m.points, m)
  THEN m.maximum - related[m.type]
  ELSE m.points

-----------------------------------------------------------------------------
(* The main thread ends its loop when it decides to, or finds that the      *)
(* enqueuer did. Both mark the calculator finished then (notify_termination) *)
(* and the main thread once more, after the last scores.                     *)

Put ==
  /\ main \in {"calculating", "ending"} /\ Len(sent) < MaxMessages
  /\ \E m \in Messages : sent' = Append(sent, m)
  /\ UNCHANGED <<taken, done, ends, mark, totals, updating, score, log, gates, web>>

LeaveLoop ==
  /\ main = "calculating" /\ terminated
  /\ main' = "ending"
  /\ UNCHANGED <<joined, enqueuer, terminated, saving>>
  /\ UNCHANGED <<queue, mark, totals, updating, score, log, gates, web>>

\* check_termination_is_commanded in the enqueuer: the request is looked up, and a
\* notice of no points is sent, which may be after the main thread has gone on.
HearCommand ==
  /\ Commands /\ enqueuer = "waiting" /\ ~terminated
  /\ enqueuer' = "told"
  /\ UNCHANGED <<main, joined, terminated, saving>>
  /\ UNCHANGED <<queue, mark, totals, updating, score, log, gates, web>>
PutNotice ==
  /\ enqueuer = "told" /\ Len(sent) < MaxMessages
  /\ \E m \in Messages : m.points = 0 /\ m.maximum = 0 /\ sent' = Append(sent, m)
  /\ enqueuer' = "notifying"
  /\ UNCHANGED <<taken, done, main, joined, terminated, saving>>
  /\ UNCHANGED <<mark, totals, updating, score, log, gates, web>>

\* set_calculator_finished sets an attribute, ...
MarkFinished(t) ==
  /\ saving[t] = "idle"
  /\ \/ t = "main" /\ main = "calculating" /\ main' = "notifying"
     \/ t = "main" /\ main = "ending" /\ main' = "marking"
     \/ t = "enqueuer" /\ enqueuer = "notifying" /\ UNCHANGED main
  /\ saving' = [saving EXCEPT ![t] = "marked"]
  /\ marked' = TRUE
  /\ UNCHANGED <<joined, enqueuer, terminated, finished, collisions, overtaken>>
  /\ UNCHANGED <<queue, totals, updating, score, log, gates, web>>

\* ... save() takes what the attribute is by then, ...
TakeMark(t) ==
  /\ saving[t] = "marked"
  /\ saving' = [saving EXCEPT ![t] = IF marked THEN "finished" ELSE "unfinished"]
  /\ UNCHANGED <<main, joined, enqueuer, terminated>>
  /\ UNCHANGED <<queue, mark, totals, updating, score, log, gates, web>>

\* ... and stores it; then track_terminated is set.
Saved(t, next) ==
  /\ saving[t] \in {"finished", "unfinished"}
  /\ finished' = (saving[t] = "finished")
  /\ overtaken' = (overtaken \/ (finished /\ ~finished'))
  /\ saving' = [saving EXCEPT ![t] = "idle"]
  /\ main' = IF t = "main" THEN next ELSE main
  /\ enqueuer' = IF t = "enqueuer" THEN "gone" ELSE enqueuer
  /\ terminated' = TRUE
  /\ UNCHANGED <<joined, marked, collisions>>
  /\ UNCHANGED <<queue, totals, updating, score, log, gates, web>>
SaveFinished_Once(t) == Saved(t, "joining")
SaveFinished(t) == Saved(t, IF main = "notifying" THEN "ending" ELSE "joining")

Joined(messages) ==
  /\ main = "joining" /\ messages = Len(sent)
  /\ main' = "finished" /\ joined' = Len(sent)
  /\ UNCHANGED <<enqueuer, terminated, saving>>
  /\ UNCHANGED <<queue, mark, totals, updating, score, log, gates, web>>
Join_EmptyQueue == Joined(taken)
Join == Joined(done)

-----------------------------------------------------------------------------
(* update_score_from_thread.                                               *)

Accumulate ==
  /\ updater.at = "get" /\ taken < Len(sent)
  /\ LET m == sent[taken + 1]
     IN  /\ related' = [related EXCEPT ![m.type] = @ + Capped(m)]
         /\ asked' = [asked EXCEPT ![m.type] = @ + m.points]
         /\ updater' = [at |-> "refresh", message |-> m, points |-> Capped(m),
                        seen |-> 0]
  /\ taken' = taken + 1
  /\ raced' = (raced \/ editor.at # "idle")
  /\ UNCHANGED <<sent, done, ends, mark, row, score, log, gates, initial, editor, edits, removed>>

\* refresh_from_db, here and in update_score: the row is read, ...
RefreshReads ==
  /\ \/ updater.at = "refresh" /\ updater' = [updater EXCEPT !.at = "refreshed"]
     \/ updater.at = "update" /\ updater' = [updater EXCEPT !.at = "reread"]
  /\ row' = [score |-> score, finished |-> finished]
  /\ UNCHANGED <<queue, ends, mark, totals, score, log, gates, web>>

\* ... and then its fields are assigned to the attributes of the shared object.
RefreshAssigns ==
  /\ \/ /\ updater.at = "refreshed"
        /\ updater' = [updater EXCEPT !.at = "gate", !.seen = row.score]
     \/ updater.at = "reread" /\ updater' = [updater EXCEPT !.at = "save"]
  /\ marked' = row.finished
  /\ collisions' = IF ~row.finished /\ \E t \in Threads : saving[t] = "marked"
                   THEN collisions + 1 ELSE collisions
  /\ overtaken' = (overtaken \/ (finished /\ ~row.finished))
  /\ UNCHANGED <<queue, ends, finished, totals, row, score, log, gates, web>>

RecordScoreByGate_Uncapped ==
  /\ updater.at = "gate"
  /\ gates' = [gates EXCEPT ![updater.message.gate] = @ + updater.message.points]
  /\ updater' = [updater EXCEPT !.at = "log"]
  /\ UNCHANGED <<queue, ends, mark, totals, row, score, log, web>>
RecordScoreByGate ==
  /\ updater.at = "gate"
  /\ gates' = [gates EXCEPT ![updater.message.gate] = @ + updater.points]
  /\ updater' = [updater EXCEPT !.at = "log"]
  /\ UNCHANGED <<queue, ends, mark, totals, row, score, log, web>>

EntryOfUpdater == [id |-> taken, type |-> updater.message.type,
                   gate |-> updater.message.gate, points |-> updater.points]

CreateEntry ==
  /\ updater.at = "log"
  /\ log' = log \cup {EntryOfUpdater}
  /\ updater' = [updater EXCEPT !.at = "annotate"]
  /\ UNCHANGED <<queue, ends, mark, totals, row, score, gates, web>>

\* The annotation refers to the entry: when that was deleted meanwhile, the
\* database refuses it, and nothing catches the exception in the thread.
\* Points of 0 leave the track alone.
CreateAnnotation ==
  /\ updater.at = "annotate"
  /\ updater' = [updater EXCEPT !.at = IF EntryOfUpdater \notin log THEN "dead"
                                       ELSE IF updater.points # 0 THEN "update"
                                       ELSE "done"]
  /\ UNCHANGED <<queue, ends, mark, totals, row, score, log, gates, web>>

\* update_score stores the score, and no other field, unless it was read like that.
UpdateTrack_PointsOnly ==
  /\ updater.at = "save"
  /\ score' = initial + updater.points
  /\ updater' = [updater EXCEPT !.at = "done"]
  /\ UNCHANGED <<queue, ends, mark, totals, row, log, gates, web>>
UpdateTrack ==
  /\ updater.at = "save"
  /\ score' = IF row.score # updater.seen + updater.points
              THEN updater.seen + updater.points ELSE score
  /\ updater' = [updater EXCEPT !.at = "done"]
  /\ UNCHANGED <<queue, ends, mark, totals, row, log, gates, web>>

TaskDone_Twice ==
  /\ updater.at = "done"
  /\ done' = done + (IF updater.points = 0 THEN 1 ELSE 2)
  /\ updater' = [updater EXCEPT !.at = "get"]
  /\ UNCHANGED <<sent, taken, ends, mark, totals, row, score, log, gates, web>>
TaskDone_PointsOnly ==
  /\ updater.at = "done"
  /\ done' = done + (IF updater.points = 0 THEN 0 ELSE 1)
  /\ updater' = [updater EXCEPT !.at = "get"]
  /\ UNCHANGED <<sent, taken, ends, mark, totals, row, score, log, gates, web>>
TaskDone ==
  /\ updater.at = "done"
  /\ done' = done + 1
  /\ updater' = [updater EXCEPT !.at = "get"]
  /\ UNCHANGED <<sent, taken, ends, mark, totals, row, score, log, gates, web>>

-----------------------------------------------------------------------------
(* Edits from the web, one at a time: delete_score_item of an entry, and a *)
(* change of the scorecard's initial score.                                *)

ReadTrack ==
  /\ editor.at = "idle" /\ edits < MaxEdits
  /\ \/ \E e \in log :
          editor' = [at |-> "write", entry |-> {e}, change |-> -e.points,
                     seen |-> score]
     \/ \E d \in Changes :
          editor' = [at |-> "write", entry |-> {}, change |-> d, seen |-> score]
  /\ edits' = edits + 1
  /\ raced' = (raced \/ updater.at # "get")
  /\ UNCHANGED <<queue, ends, mark, totals, updating, score, log, gates, initial, removed>>

WriteTrack_Unchanged ==
  /\ editor.at = "write"
  /\ editor' = [editor EXCEPT !.at = "commit"]
  /\ UNCHANGED <<queue, ends, mark, totals, updating, score, log, gates, initial,
                 edits, removed, raced>>
WriteTrack ==
  /\ editor.at = "write"
  /\ score' = editor.seen + editor.change
  /\ editor' = [editor EXCEPT !.at = "commit"]
  /\ UNCHANGED <<queue, ends, mark, totals, updating, log, gates, initial, edits,
                 removed, raced>>

\* The entry is deleted, or the scorecard is saved.
Commit ==
  /\ editor.at = "commit"
  /\ log' = log \ editor.entry
  /\ removed' = removed \cup (log \cap editor.entry)
  /\ initial' = IF editor.entry = {} THEN initial + editor.change ELSE initial
  /\ editor' = [editor EXCEPT !.at = "idle"]
  /\ UNCHANGED <<queue, ends, mark, totals, updating, score, gates, edits, raced>>

-----------------------------------------------------------------------------
(* The specification.                                                      *)

NoMessage == [type |-> "none"]

ScoreInit ==
  /\ sent = <<>> /\ taken = 0 /\ done = 0
  /\ main = "calculating" /\ joined = 0 /\ enqueuer = "waiting" /\ terminated = FALSE
  /\ saving = [t \in Threads |-> "idle"]
  /\ marked = FALSE /\ finished = FALSE /\ collisions = 0 /\ overtaken = FALSE
  /\ related = [t \in Types |-> 0] /\ asked = [t \in Types |-> 0]
  /\ updater = [at |-> "get", message |-> NoMessage, points |-> 0, seen |-> 0]
  /\ row = [score |-> Initial, finished |-> FALSE]
  /\ score = Initial /\ log = {} /\ gates = [g \in GateNames |-> 0]
  /\ initial = Initial
  /\ editor = [at |-> "idle", entry |-> {}, change |-> 0, seen |-> 0]
  /\ edits = 0 /\ removed = {} /\ raced = FALSE

Marking(t) == MarkFinished(t) \/ TakeMark(t) \/ SaveFinished(t)
Ending == LeaveLoop \/ Marking("main") \/ Join
Enqueuing == HearCommand \/ PutNotice \/ Marking("enqueuer")

Updating ==
  \/ Accumulate \/ RefreshReads \/ RefreshAssigns \/ RecordScoreByGate \/ CreateEntry
  \/ CreateAnnotation \/ UpdateTrack \/ TaskDone

Editing == ReadTrack \/ WriteTrack \/ Commit

ScoreNext == Put \/ Ending \/ Enqueuing \/ Updating \/ Editing

ScoreSpec == ScoreInit /\ [][ScoreNext]_vars

\* The main thread and the score thread run on. Nobody has to command or edit anything.
FairSpec == ScoreSpec /\ WF_vars(Ending) /\ WF_vars(Updating)

-----------------------------------------------------------------------------
(* Properties.                                                             *)

ScoreTypeOK ==
  /\ sent \in Seq(Messages) /\ taken \in 0..Len(sent) /\ done \in 0..taken
  /\ main \in {"calculating", "notifying", "ending", "marking", "joining",
               "finished"}
  /\ joined \in 0..Len(sent)
  /\ enqueuer \in {"waiting", "told", "notifying", "gone"} /\ terminated \in BOOLEAN
  /\ saving \in [Threads -> {"idle", "marked", "finished", "unfinished"}]
  /\ marked \in BOOLEAN /\ finished \in BOOLEAN
  /\ collisions \in Nat /\ overtaken \in BOOLEAN
  /\ related \in [Types -> Nat] /\ asked \in [Types -> Nat]
  /\ updater \in [at : {"get", "refresh", "refreshed", "gate", "log", "annotate",
                       "update", "reread", "save", "done", "dead"},
                 message : Messages \cup {NoMessage}, points : Int, seen : Int]
  /\ row \in [score : Int, finished : BOOLEAN]
  /\ score \in Int /\ initial \in Int
  /\ log \subseteq Entry
  /\ gates \in [GateNames -> Int]
  /\ editor \in [at : {"idle", "write", "commit"}, entry : SUBSET Entry,
                change : Int, seen : Int]
  /\ edits \in 0..MaxEdits /\ removed \subseteq Entry /\ raced \in BOOLEAN

Resting == updater.at = "get" /\ editor.at = "idle"

Points(es) == MapThenSumSet(LAMBDA e : e.points, es)

\* "A score accumulator keeps track of scores that have a maximum limit": over
\* a whole run, in whatever portions, a type gets the points that were asked
\* for up to its limit, no more and no less.
CapIsExact ==
  \A t \in Types :
    related[t] = IF Limit[t] > 0 /\ asked[t] > Limit[t] THEN Limit[t] ELSE asked[t]

\* What the accumulator granted is what the log, and the gates, tell.
LogTellsAccumulated ==
  (Resting /\ edits = 0) =>
    /\ \A t \in Types : Points({e \in log : e.type = t}) = related[t]
    /\ \A g \in GateNames : Points({e \in log : e.gate = g}) = gates[g]

\* When the run has ended, every score that was sent before is in the log, or was
\* deleted from it: join() and the calls of task_done() are what keeps run() from
\* returning too early. Only the enqueuer's notice may still be sent after that.
FinishedIsLogged ==
  main = "finished" =>
    /\ \A i \in 1..joined : \E e \in log \cup removed : e.id = i
    /\ Len(sent) <= joined + 1

\* A refresh of the track between set_calculator_finished's assignment and its
\* save turns what is saved back to False. Whoever ends the run, the track is marked
\* twice in a row, so one such collision does no harm. Two leave it unfinished, and
\* so may one that was slow: what a refresh has read, or a save has taken, before the
\* track was stored as finished arrives after it.
FinishedUnlessLostTwice ==
  main \in {"joining", "finished"} => finished \/ collisions >= 2 \/ overtaken

\* Once the calculation is over, run() gets past join(), unless the score thread
\* died of an entry that was deleted before its annotation was made.
JoinEnds ==
  (main = "ending") ~> (main = "finished" \/ updater.at = "dead")

\* At rest the score is the initial score and the points in the log, as long as no
\* edit has overlapped with the update of a score.
ScoreIsSum == Resting => score = initial + Points(log)
ScoreIsSumUnlessRaced == ~raced => ScoreIsSum
=============================================================================
