---------------------- MODULE CalculatorDispatchProofs ----------------------
(***************************************************************************)
(* Proofs about CalculatorDispatch, for any number of calculators, of      *)
(* requests and of crashes, and any lives of the keys: the types of its    *)
(* variables, that two calculators do not work on one contestant, and that *)
(* a calculator the web says is terminated has stopped and stays stopped.  *)
(***************************************************************************)
EXTENDS CalculatorDispatch, FiniteSetTheorems, TLAPS

\* None of the exceptions of the properties has come about.
Quiet == ~lapsed /\ ~crossed

\* The dispatcher will not find the contestant again.
Closed == over /\ (cached.left > 0 => ~cached.found)

AllGone == \A c \in Calculators : calc[c] = "gone"
AtMostOne == \A c, d \in Calculators : calc[c] # "gone" /\ calc[d] # "gone" => c = d

\* Between its decision and a job's creation the dispatcher is the only one to act.
AloneToSpawn ==
  dispatcher \in {"spawning", "deleting", "spawning again"} => AllGone /\ entry = "job"

\* The flag is set whenever a calculator may come to work, except that a job's is set
\* after its creation, and a task's when it begins.
FlagTells ==
  running = 0 => \A c \in Calculators : \/ calc[c] \in {"gone", "task"}
                                        \/ dispatcher = "created" /\ calc[c] = "spawned"

TasksWaitClosed ==
  \A c \in Calculators : calc[c] = "task" => Closed /\ dispatcher = "idle"

\* A calculator the dispatcher does not keep track of is none it might start over.
EntryTells == \A c \in Calculators : calc[c] # "gone" => entry \in {c, "job"} \/ Closed

DeletedIsGone == job.deleting => calc[job.runs] = "gone"

EndsFinished == \A c \in Calculators : calc[c] \in {"finishing", "clearing"} => finished

\* A termination that a calculator was there to hear: it is at work, or has left the
\* row finished, so that no other begins.
Heard == web.heard /\ web.at \in {"polling", "stopped"}
HeardIsObeyed ==
  Heard => /\ \/ web.at = "polling" /\ Working # {}
              \/ Working = {} /\ finished
           /\ \A c \in Calculators : calc[c] # "task"

Orderly ==
  /\ AtMostOne /\ AloneToSpawn /\ FlagTells /\ TasksWaitClosed
  /\ EntryTells /\ DeletedIsGone /\ EndsFinished /\ HeardIsObeyed

IInv == TypeOK /\ (Quiet => Orderly)

-----------------------------------------------------------------------------
(* Types.                                                                  *)

\* The lives of the keys and the bounds are natural numbers.
LEMMA Numbers ==
  /\ AliveFor \in Nat \ {0} /\ Patience \in Nat \ {0} /\ CacheTtl \in Nat \ {0}
  /\ SpinUp \in Nat /\ RequestFor \in Nat /\ Patience < SpinUp /\ Patience < RequestFor
  /\ AliveFor <= SpinUp /\ MaxRequests \in Nat /\ MaxUpsets \in Nat
<1>1. SpinUp \in {n \in Nat : n > Patience} /\ RequestFor \in {n \in Nat : n > Patience}
  BY DispatchAssumption DEF DispatchAssumption
<1>2. MaxRequests \in Nat /\ MaxUpsets \in Nat
  BY DispatchAssumption DEF DispatchAssumption
<1> QED BY <1>1, <1>2, DispatchAssumption DEF DispatchAssumption

\* There are finitely many calculators, and none is named as nobody or as a job.
LEMMA Names ==
  /\ IsFiniteSet(Calculators) /\ Nobody \notin Calculators /\ "job" \notin Calculators
  /\ Nobody # "job"
BY DispatchAssumption DEF DispatchAssumption, Nobody

\* The types in four parts, each proved by the provers that can.
NumbersOK ==
  /\ running \in 0..SpinUp /\ requested \in 0..RequestFor
  /\ requests \in 0..MaxRequests /\ upsets \in 0..MaxUpsets
ChoicesOK ==
  /\ production \in BOOLEAN /\ finished \in BOOLEAN /\ over \in BOOLEAN
  /\ lapsed \in BOOLEAN /\ crossed \in BOOLEAN
WhereaboutsOK ==
  /\ calc \in [Calculators -> Places]
  /\ entry \in Calculators \cup {Nobody, "job"}
  /\ dispatcher \in {"idle", "spawning", "created", "deleting", "spawning again"}
  /\ job \in [runs : Calculators \cup {Nobody}, deleting : BOOLEAN]
  /\ job.deleting => job.runs # Nobody
CacheOK == cached \in [found : BOOLEAN, left : 0..CacheTtl]
WebOK ==
  web \in [kind : {"terminate", "restart"}, waited : 0..Patience, heard : BOOLEAN,
          at : {"idle", "polling", "stopped", "timed out", "resetting", "cancelling",
                "restarted"}]

LEMMA TypeParts ==
  TypeOK <=> NumbersOK /\ ChoicesOK /\ WhereaboutsOK /\ CacheOK /\ WebOK
BY Zenon DEF TypeOK, NumbersOK, ChoicesOK, WhereaboutsOK, CacheOK, WebOK

\* The keys never live longer than they were given, and the bounds are kept.
LEMMA NumbersHold == TypeOK /\ [Next]_vars => NumbersOK'
<1> SUFFICES ASSUME TypeOK, [Next]_vars PROVE NumbersOK'
  OBVIOUS
<1> NumbersOK
  BY TypeParts
<1> USE DEF NumbersOK
<1>1. CASE Dispatch
  BY <1>1, Numbers DEF Dispatch, StartProcess, Alive, counts
<1>2. CASE Spawn
  BY <1>2, Numbers DEF Spawn, flags, counts
<1>3. CASE MarkAlive
  BY <1>3, Numbers DEF MarkAlive, Alive, counts
<1>4. CASE DeleteJob
  BY <1>4, Numbers DEF DeleteJob, flags, counts
<1>5. CASE SpawnFails
  BY <1>5, Numbers DEF SpawnFails, StartProcess, Alive
<1>6. CASE JobGone
  BY <1>6, Numbers DEF JobGone, flags, counts
<1>7. CASE Poll
  BY <1>7, Numbers DEF Poll, flags, counts
<1>8. CASE GiveUp
  BY <1>8, Numbers DEF GiveUp, flags, counts
<1>9. CASE ResetTrack
  BY <1>9, Numbers DEF ResetTrack, Reset, flags, counts
<1>10. CASE CancelRequest
  BY <1>10, Numbers DEF CancelRequest, counts
<1>11. CASE Ask
  BY <1>11, Numbers DEF Ask
<1>12. CASE Revert
  BY <1>12, Numbers DEF Revert, flags
<1>13. CASE Tick
  <2>1. PICK stuck \in SUBSET Calculators :
          /\ upsets + Cardinality(stuck) <= MaxUpsets
          /\ upsets' = upsets + Cardinality(stuck)
          /\ running' \in {AliveFor, Less(running)}
    BY <1>13 DEF Tick
  <2>2. Cardinality(stuck) \in Nat
    BY Names, FS_Subset, FS_CardinalityType
  <2>3. upsets' \in 0..MaxUpsets
    BY <2>1, <2>2, Numbers
  <2>4. running' \in 0..SpinUp
    BY <2>1, Numbers DEF Less
  <2>5. requested' \in 0..RequestFor /\ requests' \in 0..MaxRequests
    BY <1>13, Numbers DEF Tick, Less
  <2> QED BY <2>3, <2>4, <2>5
<1>14. CASE TimeIsOver
  BY <1>14, Numbers DEF TimeIsOver, flags, counts
<1>15. CASE \E c \in Calculators : Step(c) \/ Notify(c) \/ Crash(c)
  <2> PICK c \in Calculators : Step(c) \/ Notify(c) \/ Crash(c)
    BY <1>15
  <2>1. CASE Begin(c)
    BY <2>1, Numbers DEF Begin, Alive, counts
  <2>2. CASE Construct(c)
    BY <2>2, Numbers DEF Construct, Alive, counts
  <2>3. CASE Loaded(c)
    BY <2>3, Numbers DEF Loaded, Alive, counts
  <2>4. CASE SetFinished(c)
    BY <2>4, Numbers DEF SetFinished, Alive, flags, counts
  <2>5. CASE ClearFlag(c)
    BY <2>5, Numbers DEF ClearFlag, Alive, counts
  <2>6. CASE Recalculate(c)
    BY <2>6, Numbers DEF Recalculate, Alive, counts
  <2>7. CASE Notify(c)
    BY <2>7, Numbers DEF Notify, Alive, flags, counts
  <2>8. CASE Crash(c)
    BY <2>8, Numbers DEF Crash, Alive, flags
  <2> QED BY <2>1, <2>2, <2>3, <2>4, <2>5, <2>6, <2>7, <2>8 DEF Step
<1>16. CASE UNCHANGED vars
  BY <1>16 DEF vars, flags, counts
<1> QED
  BY <1>1, <1>2, <1>3, <1>4, <1>5, <1>6, <1>7, <1>8, <1>9, <1>10,
     <1>11, <1>12, <1>13, <1>14, <1>15, <1>16
  DEF Next, DispatcherSteps, WebSteps

LEMMA ChoicesHold == TypeOK /\ [Next]_vars => ChoicesOK'
<1> SUFFICES ASSUME TypeOK, [Next]_vars PROVE ChoicesOK'
  OBVIOUS
<1> ChoicesOK
  BY TypeParts
<1> USE DEF ChoicesOK
<1>1. CASE Dispatch
  BY <1>1, Zenon DEF Dispatch, row, kubernetes, history
<1>2. CASE Spawn
  BY <1>2, Zenon DEF Spawn, row, history
<1>3. CASE MarkAlive
  BY <1>3, Zenon DEF MarkAlive, row, kubernetes, history
<1>4. CASE DeleteJob
  BY <1>4, Zenon DEF DeleteJob, row, history
<1>5. CASE SpawnFails
  BY <1>5, Zenon DEF SpawnFails, row, kubernetes, history
<1>6. CASE JobGone
  BY <1>6, Zenon DEF JobGone, row, history
<1>7. CASE Poll
  BY <1>7, Zenon DEF Poll, row, kubernetes, history
<1>8. CASE GiveUp
  BY <1>8, Zenon DEF GiveUp, row, kubernetes, history
<1>9. CASE ResetTrack
  BY <1>9, Zenon DEF ResetTrack, Reset, kubernetes
<1>10. CASE CancelRequest
  BY <1>10, Zenon DEF CancelRequest, row, kubernetes, history
<1>11. CASE Ask
  BY <1>11, Zenon DEF Ask, row, kubernetes, history
<1>12. CASE Revert
  BY <1>12, Zenon DEF Revert, kubernetes
<1>13. CASE Tick
  BY <1>13, Zenon DEF Tick, row, kubernetes
<1>14. CASE TimeIsOver
  BY <1>14, Zenon DEF TimeIsOver, kubernetes, history
<1>15. CASE \E c \in Calculators : Step(c) \/ Notify(c) \/ Crash(c)
  <2> PICK c \in Calculators : Step(c) \/ Notify(c) \/ Crash(c)
    BY <1>15
  <2>1. CASE Begin(c)
    BY <2>1, Zenon DEF Begin, row, kubernetes, history
  <2>2. CASE Construct(c)
    BY <2>2, Zenon DEF Construct, kubernetes, history
  <2>3. CASE Loaded(c)
    BY <2>3, Zenon DEF Loaded, row, kubernetes, history
  <2>4. CASE SetFinished(c)
    BY <2>4, Zenon DEF SetFinished, kubernetes, history
  <2>5. CASE ClearFlag(c)
    BY <2>5, Zenon DEF ClearFlag, row, kubernetes, history
  <2>6. CASE Recalculate(c)
    BY <2>6, Zenon DEF Recalculate, kubernetes, history
  <2>7. CASE Notify(c)
    BY <2>7, Zenon DEF Notify, kubernetes
  <2>8. CASE Crash(c)
    BY <2>8, Zenon DEF Crash, row, kubernetes, history
  <2> QED BY <2>1, <2>2, <2>3, <2>4, <2>5, <2>6, <2>7, <2>8 DEF Step
<1>16. CASE UNCHANGED vars
  BY <1>16, Zenon DEF vars, row, kubernetes, history
<1> QED
  BY <1>1, <1>2, <1>3, <1>4, <1>5, <1>6, <1>7, <1>8, <1>9, <1>10,
     <1>11, <1>12, <1>13, <1>14, <1>15, <1>16
  DEF Next, DispatcherSteps, WebSteps

\* Calculators, the dispatcher and the job are where they can be.
LEMMA WhereaboutsHold == TypeOK /\ [Next]_vars => WhereaboutsOK'
<1> SUFFICES ASSUME TypeOK, [Next]_vars PROVE WhereaboutsOK'
  OBVIOUS
<1> WhereaboutsOK
  BY TypeParts
<1> USE DEF WhereaboutsOK, Places
<1>1. CASE Dispatch
  <2>1. UNCHANGED job
    BY <1>1 DEF Dispatch, kubernetes
  <2>2. CASE UNCHANGED calc
    <3>1. entry' \in {"job", Nobody, entry}
      BY <2>2, <1>1, Names DEF Dispatch, StartProcess, Free
    <3>2. dispatcher' \in {"spawning", dispatcher}
      BY <1>1 DEF Dispatch
    <3> QED BY <2>1, <2>2, <3>1, <3>2
  <2>3. CASE \E c \in Calculators : StartProcess(c) /\ UNCHANGED dispatcher
    BY <2>1, <2>3 DEF StartProcess
  <2> QED BY <1>1, <2>2, <2>3 DEF Dispatch
<1>2. CASE Spawn
  <2>1. UNCHANGED entry
    BY <1>2 DEF Spawn
  <2>2. dispatcher' \in {"created", "deleting", "idle"}
    BY <1>2 DEF Spawn
  <2>3. CASE UNCHANGED <<job, calc>>
    BY <2>1, <2>2, <2>3
  <2>4. CASE \E c \in Free : /\ job' = [runs |-> c, deleting |-> FALSE]
                             /\ calc' = [calc EXCEPT ![c] = "spawned"]
    <3>1. PICK c \in Free : /\ job' = [runs |-> c, deleting |-> FALSE]
                            /\ calc' = [calc EXCEPT ![c] = "spawned"]
      BY <2>4
    <3>2. c \in Calculators
      BY DEF Free
    <3>3. calc' \in [Calculators -> Places]
      BY <3>1
    <3>4. job' \in [runs : Calculators \cup {Nobody}, deleting : BOOLEAN] /\ ~job'.deleting
      BY <3>1, <3>2
    <3> QED BY <2>1, <2>2, <3>3, <3>4
  <2> QED BY <1>2, <2>3, <2>4 DEF Spawn
<1>3. CASE MarkAlive
  BY <1>3, Names DEF MarkAlive, kubernetes
<1>4. CASE DeleteJob
  BY <1>4, Names DEF DeleteJob
<1>5. CASE SpawnFails
  BY <1>5, Names DEF SpawnFails, StartProcess, Free, kubernetes
<1>6. CASE JobGone
  BY <1>6, Names DEF JobGone, dispatch
<1>7. CASE Poll
  BY <1>7, Names DEF Poll, kubernetes, dispatch
<1>8. CASE GiveUp
  BY <1>8, Names DEF GiveUp, kubernetes, dispatch
<1>9. CASE ResetTrack
  BY <1>9, Names DEF ResetTrack, kubernetes, dispatch
<1>10. CASE CancelRequest
  BY <1>10, Names DEF CancelRequest, kubernetes, dispatch
<1>11. CASE Ask
  BY <1>11, Names DEF Ask, kubernetes, dispatch
<1>12. CASE Revert
  BY <1>12, Names DEF Revert, Goes, Free, kubernetes, dispatch
<1>13. CASE Tick
  BY <1>13, Names DEF Tick, kubernetes
<1>14. CASE TimeIsOver
  BY <1>14, Names DEF TimeIsOver, kubernetes
<1>15. CASE \E c \in Calculators : Step(c) \/ Notify(c) \/ Crash(c)
  <2> PICK c \in Calculators : Step(c) \/ Notify(c) \/ Crash(c)
    BY <1>15
  <2>1. CASE Begin(c)
    BY <2>1, Names DEF Begin, Goes, kubernetes, dispatch
  <2>2. CASE Construct(c)
    BY <2>2, Names DEF Construct, Goes, kubernetes, dispatch
  <2>3. CASE Loaded(c)
    BY <2>3, Names DEF Loaded, Goes, kubernetes, dispatch
  <2>4. CASE SetFinished(c)
    BY <2>4, Names DEF SetFinished, Goes, kubernetes, dispatch
  <2>5. CASE ClearFlag(c)
    BY <2>5, Names DEF ClearFlag, Goes, kubernetes, dispatch
  <2>6. CASE Recalculate(c)
    BY <2>6, Names DEF Recalculate, Goes, kubernetes, dispatch
  <2>7. CASE Notify(c)
    BY <2>7, Names DEF Notify, Goes, kubernetes, dispatch
  <2>8. CASE Crash(c)
    BY <2>8, Names DEF Crash, Goes, kubernetes, dispatch
  <2> QED BY <2>1, <2>2, <2>3, <2>4, <2>5, <2>6, <2>7, <2>8 DEF Step
<1>16. CASE UNCHANGED vars
  BY <1>16 DEF vars, kubernetes, dispatch
<1> QED
  BY <1>1, <1>2, <1>3, <1>4, <1>5, <1>6, <1>7, <1>8, <1>9, <1>10,
     <1>11, <1>12, <1>13, <1>14, <1>15, <1>16
  DEF Next, DispatcherSteps, WebSteps

\* What is remembered of the contestant.
LEMMA CacheHolds == TypeOK /\ [Next]_vars => CacheOK'
<1> SUFFICES ASSUME TypeOK, [Next]_vars PROVE CacheOK'
  OBVIOUS
<1> CacheOK
  BY TypeParts
<1> USE DEF CacheOK
<1>1. CASE Dispatch
  <2>1. (~finished /\ ~over) \in BOOLEAN
    BY Zenon
  <2>2. Found \in BOOLEAN
    BY <2>1 DEF Found
  <2>3. cached' \in {cached, [found |-> Found, left |-> CacheTtl]}
    BY <1>1 DEF Dispatch, Looked
  <2> QED BY <2>2, <2>3, Numbers
<1>2. CASE Spawn
  BY <1>2, Numbers DEF Spawn
<1>3. CASE MarkAlive
  BY <1>3, Numbers DEF MarkAlive
<1>4. CASE DeleteJob
  BY <1>4, Numbers DEF DeleteJob
<1>5. CASE SpawnFails
  BY <1>5, Numbers DEF SpawnFails
<1>6. CASE JobGone
  BY <1>6, Numbers DEF JobGone, dispatch
<1>7. CASE Poll
  BY <1>7, Numbers DEF Poll, dispatch
<1>8. CASE GiveUp
  BY <1>8, Numbers DEF GiveUp, dispatch
<1>9. CASE ResetTrack
  BY <1>9, Numbers DEF ResetTrack, dispatch
<1>10. CASE CancelRequest
  BY <1>10, Numbers DEF CancelRequest, dispatch
<1>11. CASE Ask
  BY <1>11, Numbers DEF Ask, dispatch
<1>12. CASE Revert
  BY <1>12, Numbers DEF Revert, dispatch
<1>13. CASE Tick
  BY <1>13, Numbers DEF Tick, Less
<1>14. CASE TimeIsOver
  BY <1>14, Numbers DEF TimeIsOver
<1>15. CASE \E c \in Calculators : Step(c) \/ Notify(c) \/ Crash(c)
  <2> PICK c \in Calculators : Step(c) \/ Notify(c) \/ Crash(c)
    BY <1>15
  <2>1. CASE Begin(c)
    BY <2>1, Numbers DEF Begin, dispatch
  <2>2. CASE Construct(c)
    BY <2>2, Numbers DEF Construct, dispatch
  <2>3. CASE Loaded(c)
    BY <2>3, Numbers DEF Loaded, dispatch
  <2>4. CASE SetFinished(c)
    BY <2>4, Numbers DEF SetFinished, dispatch
  <2>5. CASE ClearFlag(c)
    BY <2>5, Numbers DEF ClearFlag, dispatch
  <2>6. CASE Recalculate(c)
    BY <2>6, Numbers DEF Recalculate, dispatch
  <2>7. CASE Notify(c)
    BY <2>7, Numbers DEF Notify, dispatch
  <2>8. CASE Crash(c)
    BY <2>8, Numbers DEF Crash, dispatch
  <2> QED BY <2>1, <2>2, <2>3, <2>4, <2>5, <2>6, <2>7, <2>8 DEF Step
<1>16. CASE UNCHANGED vars
  BY <1>16 DEF vars, dispatch
<1> QED
  BY <1>1, <1>2, <1>3, <1>4, <1>5, <1>6, <1>7, <1>8, <1>9, <1>10,
     <1>11, <1>12, <1>13, <1>14, <1>15, <1>16
  DEF Next, DispatcherSteps, WebSteps

\* Where the web is, which never waits for longer than its patience.
LEMMA WebHolds == TypeOK /\ [Next]_vars => WebOK'
<1> SUFFICES ASSUME TypeOK, [Next]_vars PROVE WebOK'
  OBVIOUS
<1> WebOK
  BY TypeParts
<1> USE DEF WebOK
<1>1. CASE Dispatch
  BY <1>1, Numbers DEF Dispatch
<1>2. CASE Spawn
  BY <1>2, Numbers DEF Spawn
<1>3. CASE MarkAlive
  BY <1>3, Numbers DEF MarkAlive
<1>4. CASE DeleteJob
  BY <1>4, Numbers DEF DeleteJob
<1>5. CASE SpawnFails
  BY <1>5, Numbers DEF SpawnFails
<1>6. CASE JobGone
  BY <1>6, Numbers DEF JobGone
<1>7. CASE Poll
  BY <1>7, Numbers DEF Poll
<1>8. CASE GiveUp
  BY <1>8, Numbers DEF GiveUp
<1>9. CASE ResetTrack
  BY <1>9, Numbers DEF ResetTrack
<1>10. CASE CancelRequest
  BY <1>10, Numbers DEF CancelRequest
<1>11. CASE Ask
  <2> HIDE DEF WebOK
  <2>1. 0 \in 0..Patience
    BY Numbers
  <2>2. PICK kind \in {"terminate", "restart"} :
          web' = [kind |-> kind, at |-> "polling", waited |-> 0, heard |-> Working # {}]
    BY <1>11 DEF Ask
  <2> DEFINE heard == Working # {}
  <2>3. heard \in BOOLEAN
    BY Zenon
  <2>4. web' = [kind |-> kind, at |-> "polling", waited |-> 0, heard |-> heard]
    BY <2>2
  <2> HIDE DEF heard
  <2> QED BY <2>1, <2>3, <2>4 DEF WebOK
<1>12. CASE Revert
  BY <1>12, Numbers DEF Revert
<1>13. CASE Tick
  <2> DEFINE w == web.waited
             polling == web.at = "polling"
  <2>1. w \in 0..Patience
    OBVIOUS
  <2> HIDE DEF WebOK
  <2>2. ~(polling /\ w = Patience)
    BY <1>13 DEF Tick, MayTick
  <2>3. web' = [web EXCEPT !.waited = IF polling THEN w + 1 ELSE w]
    BY <1>13 DEF Tick
  <2> HIDE DEF w, polling
  <2>4. (IF polling THEN w + 1 ELSE w) \in 0..Patience
    BY <2>1, <2>2, Numbers
  <2> QED BY <2>3, <2>4 DEF WebOK
<1>14. CASE TimeIsOver
  BY <1>14, Numbers DEF TimeIsOver
<1>15. CASE \E c \in Calculators : Step(c) \/ Notify(c) \/ Crash(c)
  <2> PICK c \in Calculators : Step(c) \/ Notify(c) \/ Crash(c)
    BY <1>15
  <2>1. CASE Begin(c)
    BY <2>1, Numbers DEF Begin
  <2>2. CASE Construct(c)
    BY <2>2, Numbers DEF Construct
  <2>3. CASE Loaded(c)
    BY <2>3, Numbers DEF Loaded
  <2>4. CASE SetFinished(c)
    BY <2>4, Numbers DEF SetFinished
  <2>5. CASE ClearFlag(c)
    BY <2>5, Numbers DEF ClearFlag
  <2>6. CASE Recalculate(c)
    BY <2>6, Numbers DEF Recalculate
  <2>7. CASE Notify(c)
    BY <2>7, Numbers DEF Notify
  <2>8. CASE Crash(c)
    BY <2>8, Numbers DEF Crash
  <2> QED BY <2>1, <2>2, <2>3, <2>4, <2>5, <2>6, <2>7, <2>8 DEF Step
<1>16. CASE UNCHANGED vars
  BY <1>16 DEF vars
<1> QED
  BY <1>1, <1>2, <1>3, <1>4, <1>5, <1>6, <1>7, <1>8, <1>9, <1>10,
     <1>11, <1>12, <1>13, <1>14, <1>15, <1>16
  DEF Next, DispatcherSteps, WebSteps

LEMMA InitTypes == Init => TypeOK
<1> SUFFICES ASSUME Init PROVE TypeOK
  OBVIOUS
<1>1. NumbersOK
  BY Numbers DEF Init, NumbersOK
<1>2. ChoicesOK
  <2>1. production \in BOOLEAN
    BY DispatchAssumption, Zenon DEF DispatchAssumption, Init
  <2> QED BY <2>1, Zenon DEF Init, ChoicesOK
<1>3. WhereaboutsOK
  BY Names DEF Init, WhereaboutsOK, Places
<1>4. CacheOK
  BY Numbers DEF Init, CacheOK
<1>5. WebOK
  BY Numbers DEF Init, WebOK
<1> QED BY <1>1, <1>2, <1>3, <1>4, <1>5, TypeParts

LEMMA StepTypes == TypeOK /\ [Next]_vars => TypeOK'
<1>1. TypeOK' <=> NumbersOK' /\ ChoicesOK' /\ WhereaboutsOK' /\ CacheOK' /\ WebOK'
  BY Zenon DEF TypeOK, NumbersOK, ChoicesOK, WhereaboutsOK, CacheOK, WebOK
<1> QED BY <1>1, NumbersHold, ChoicesHold, WhereaboutsHold, CacheHolds, WebHolds

\* The variables of the dispatcher, the calculators and the web hold values of their
\* kinds, and what is being deleted is a job.
THEOREM TypesHold == Spec => []TypeOK
BY InitTypes, StepTypes, PTL DEF Spec

-----------------------------------------------------------------------------
(* Calculators and the dispatcher.                                         *)

\* What is closed is not found.
LEMMA ClosedIsNotFound == Closed => ~Found
BY DEF Closed, Found

\* When the dispatcher must start a calculator, none is there.
LEMMA StartsAlone ==
  ASSUME Orderly, dispatcher = "idle", Found, MustStart
  PROVE  AllGone
<1> SUFFICES ASSUME NEW c \in Calculators, calc[c] # "gone" PROVE FALSE
  BY DEF AllGone
<1>1. ~Closed
  BY ClosedIsNotFound
<1>2. entry # Nobody
  BY <1>1, Names DEF Orderly, EntryTells
<1>3. running = 0
  BY <1>2 DEF MustStart
<1>4. calc[c] = "task"
  BY <1>3 DEF Orderly, FlagTells
<1> QED BY <1>1, <1>4 DEF Orderly, TasksWaitClosed

\* What Dispatch does to the calculators, the entry and the cache.
LEMMA Dispatches ==
  ASSUME Orderly, Dispatch
  PROVE  /\ dispatcher = "idle" /\ (Closed => Closed')
         /\ \/ AllGone /\ UNCHANGED calc /\ dispatcher' = "spawning" /\ entry' = "job"
            \/ /\ AllGone /\ dispatcher' = "idle"
               /\ \E c \in Calculators :
                    calc' = [calc EXCEPT ![c] = "spawned"] /\ c \in Free /\ entry' = c
            \/ /\ UNCHANGED <<calc, dispatcher>>
               /\ entry' = IF entry \in Calculators /\ calc[entry] = "gone" THEN Nobody
                           ELSE entry
<1>1. dispatcher = "idle"
  BY DEF Dispatch
<1>2. Closed => Closed'
  BY ClosedIsNotFound DEF Dispatch, Looked, Closed, row
<1>3. CASE Found /\ MustStart
  <2>1. AllGone
    BY <1>1, <1>3, StartsAlone
  <2>2. CASE production
    BY <1>1, <1>2, <1>3, <2>1, <2>2 DEF Dispatch
  <2>3. CASE ~production
    BY <1>1, <1>2, <1>3, <2>1, <2>3 DEF Dispatch, StartProcess
  <2> QED BY <2>2, <2>3
<1>4. CASE ~(Found /\ MustStart)
  BY <1>1, <1>2, <1>4 DEF Dispatch
<1> QED BY <1>3, <1>4

\* One calculator is anywhere but gone, at most: each start finds the others gone.
LEMMA AtMostOneHolds ==
  ASSUME TypeOK, Orderly, [Next]_vars, Quiet'
  PROVE  AtMostOne'
<1> calc \in [Calculators -> Places]
  BY TypeParts DEF WhereaboutsOK
<1> /\ AtMostOne /\ AloneToSpawn /\ FlagTells /\ TasksWaitClosed
    /\ EntryTells /\ DeletedIsGone /\ EndsFinished /\ HeardIsObeyed
  BY DEF Orderly
<1> ~lapsed' /\ ~crossed'
  BY DEF Quiet
<1>1. CASE UNCHANGED <<calc>>
  BY <1>1 DEF AtMostOne
<1>2. CASE Dispatch
  BY <1>2, Dispatches DEF AtMostOne, AllGone
<1>3. CASE Spawn
  BY <1>3 DEF Spawn, Free, AtMostOne, AloneToSpawn, AllGone
<1>4. CASE SpawnFails
  BY <1>4 DEF SpawnFails, StartProcess, AtMostOne, AloneToSpawn, AllGone
<1>5. CASE JobGone
  BY <1>5 DEF AtMostOne, JobGone
<1>6. CASE Revert
  BY <1>6 DEF AtMostOne, Revert, Goes, Free
<1>7. CASE \E c \in Calculators : Step(c) \/ Notify(c) \/ Crash(c)
  <2> PICK c \in Calculators : Step(c) \/ Notify(c) \/ Crash(c)
    BY <1>7
  <2>1. CASE Begin(c)
    BY <2>1 DEF AtMostOne, Begin, Goes, InJob
  <2>2. CASE Construct(c)
    BY <2>2 DEF AtMostOne, Construct, Goes
  <2>3. CASE Loaded(c)
    BY <2>3 DEF AtMostOne, Loaded, Goes
  <2>4. CASE SetFinished(c)
    BY <2>4 DEF AtMostOne, SetFinished, Goes
  <2>5. CASE ClearFlag(c)
    BY <2>5 DEF AtMostOne, ClearFlag, Goes
  <2>6. CASE Recalculate(c)
    BY <2>6 DEF AtMostOne, Recalculate, Goes
  <2>7. CASE Notify(c)
    BY <2>7 DEF AtMostOne, Notify, Goes
  <2>8. CASE Crash(c)
    BY <2>8 DEF AtMostOne, Crash, Goes, InJob, Working
  <2> QED BY <2>1, <2>2, <2>3, <2>4, <2>5, <2>6, <2>7, <2>8 DEF Step
<1>8. CASE MarkAlive \/ DeleteJob \/ Ask \/ Poll \/ GiveUp \/ ResetTrack
    \/ CancelRequest \/ Tick \/ TimeIsOver \/ UNCHANGED vars
  <2> UNCHANGED <<calc>>
    BY <1>8, Zenon DEF MarkAlive, DeleteJob, Ask, Poll, GiveUp, ResetTrack,
        CancelRequest, Tick, TimeIsOver, vars
  <2> QED BY <1>1
<1> QED
  BY <1>2, <1>3, <1>4, <1>5, <1>6, <1>7, <1>8
  DEF Next, DispatcherSteps, WebSteps

\* While a job is being made nobody else starts a calculator.
LEMMA AloneToSpawnHolds ==
  ASSUME TypeOK, Orderly, [Next]_vars, Quiet'
  PROVE  AloneToSpawn'
<1> calc \in [Calculators -> Places]
  BY TypeParts DEF WhereaboutsOK
<1> /\ AtMostOne /\ AloneToSpawn /\ FlagTells /\ TasksWaitClosed
    /\ EntryTells /\ DeletedIsGone /\ EndsFinished /\ HeardIsObeyed
  BY DEF Orderly
<1> ~lapsed' /\ ~crossed'
  BY DEF Quiet
<1>1. CASE UNCHANGED <<calc, dispatcher, entry>>
  BY <1>1 DEF AloneToSpawn, AllGone
<1>2. CASE Dispatch
  BY <1>2, Dispatches DEF AloneToSpawn, AllGone
<1>3. CASE Spawn
  BY <1>3 DEF AloneToSpawn, AllGone, Spawn, Free
<1>4. CASE MarkAlive
  BY <1>4 DEF AloneToSpawn, AllGone, MarkAlive
<1>5. CASE SpawnFails
  BY <1>5 DEF AloneToSpawn, AllGone, SpawnFails, StartProcess, Free
<1>6. CASE DeleteJob
  BY <1>6 DEF AloneToSpawn, AllGone, DeleteJob
<1>7. CASE JobGone
  BY <1>7 DEF AloneToSpawn, AllGone, JobGone, dispatch
<1>8. CASE Revert
  BY <1>8 DEF AloneToSpawn, AllGone, Revert, Goes, Free, dispatch
<1>9. CASE \E c \in Calculators : Step(c) \/ Notify(c) \/ Crash(c)
  <2> PICK c \in Calculators : Step(c) \/ Notify(c) \/ Crash(c)
    BY <1>9
  <2>1. CASE Begin(c)
    BY <2>1 DEF AloneToSpawn, AllGone, Begin, Goes, InJob, dispatch
  <2>2. CASE Construct(c)
    BY <2>2 DEF AloneToSpawn, AllGone, Construct, Goes, dispatch
  <2>3. CASE Loaded(c)
    BY <2>3 DEF AloneToSpawn, AllGone, Loaded, Goes, dispatch
  <2>4. CASE SetFinished(c)
    BY <2>4 DEF AloneToSpawn, AllGone, SetFinished, Goes, dispatch
  <2>5. CASE ClearFlag(c)
    BY <2>5 DEF AloneToSpawn, AllGone, ClearFlag, Goes, dispatch
  <2>6. CASE Recalculate(c)
    BY <2>6 DEF AloneToSpawn, AllGone, Recalculate, Goes, dispatch
  <2>7. CASE Notify(c)
    BY <2>7 DEF AloneToSpawn, AllGone, Notify, Goes, dispatch
  <2>8. CASE Crash(c)
    BY <2>8 DEF AloneToSpawn, AllGone, Crash, Goes, InJob, Working, dispatch
  <2> QED BY <2>1, <2>2, <2>3, <2>4, <2>5, <2>6, <2>7, <2>8 DEF Step
<1>10. CASE Ask \/ Poll \/ GiveUp \/ ResetTrack \/ CancelRequest \/ Tick \/ TimeIsOver
    \/ UNCHANGED vars
  <2> UNCHANGED <<calc, dispatcher, entry>>
    BY <1>10, Zenon DEF Ask, Poll, GiveUp, ResetTrack, CancelRequest, Tick, TimeIsOver,
        dispatch, vars
  <2> QED BY <1>1
<1> QED
  BY <1>2, <1>3, <1>4, <1>5, <1>6, <1>7, <1>8, <1>9, <1>10
  DEF Next, DispatcherSteps, WebSteps

\* A calculator that may work has its flag set.
LEMMA FlagTellsHolds ==
  ASSUME TypeOK, Orderly, [Next]_vars, Quiet'
  PROVE  FlagTells'
<1> calc \in [Calculators -> Places]
  BY TypeParts DEF WhereaboutsOK
<1> /\ AtMostOne /\ AloneToSpawn /\ FlagTells /\ TasksWaitClosed
    /\ EntryTells /\ DeletedIsGone /\ EndsFinished /\ HeardIsObeyed
  BY DEF Orderly
<1> ~lapsed' /\ ~crossed'
  BY DEF Quiet
<1>1. CASE UNCHANGED <<running, calc, dispatcher>>
  BY <1>1 DEF FlagTells
<1>2. CASE Dispatch
  <2>1. CASE \E c \in Calculators : StartProcess(c)
    BY <2>1, Numbers DEF FlagTells, StartProcess, Alive
  <2>2. CASE UNCHANGED <<running, calc>>
    BY <1>2, <2>2 DEF FlagTells, Dispatch
  <2> QED BY <1>2, <2>1, <2>2 DEF Dispatch
<1>3. CASE Spawn
  BY <1>3 DEF FlagTells, Spawn, Free, flags
<1>4. CASE MarkAlive
  BY <1>4, Numbers DEF FlagTells, MarkAlive, Alive
<1>5. CASE SpawnFails
  BY <1>5, Numbers DEF FlagTells, SpawnFails, StartProcess, Alive
<1>6. CASE DeleteJob
  BY <1>6 DEF FlagTells, DeleteJob, flags
<1>7. CASE JobGone
  BY <1>7 DEF FlagTells, JobGone, flags, dispatch
<1>8. CASE Revert
  BY <1>8 DEF FlagTells, Revert, Goes, Free, flags, dispatch
<1>9. CASE Tick
  BY <1>9 DEF FlagTells, Tick, Less
<1>10. CASE \E c \in Calculators : Step(c) \/ Notify(c) \/ Crash(c)
  <2> PICK c \in Calculators : Step(c) \/ Notify(c) \/ Crash(c)
    BY <1>10
  <2>1. CASE Begin(c)
    <3>1. UNCHANGED dispatcher
      BY <2>1 DEF Begin, dispatch
    <3>2. CASE Begins(c)
      BY <2>1, <3>2, Numbers DEF FlagTells, Begin
    <3>3. CASE ~Begins(c)
      BY <2>1, <3>1, <3>3 DEF FlagTells, Begin, Goes
    <3> QED BY <3>2, <3>3
  <2>2. CASE Construct(c)
    BY <2>2, Numbers DEF FlagTells, Construct, Goes, Alive, dispatch
  <2>3. CASE Loaded(c)
    BY <2>3, Numbers DEF FlagTells, Loaded, Goes, Alive, dispatch
  <2>4. CASE SetFinished(c)
    BY <2>4 DEF FlagTells, SetFinished, Goes, Alive, flags, dispatch
  <2>5. CASE ClearFlag(c)
    <3>1. \A d \in Calculators : d # c => calc[d] = "gone"
      BY <2>5 DEF ClearFlag, AtMostOne
    <3> QED BY <2>5, <3>1 DEF FlagTells, ClearFlag, Goes
  <2>6. CASE Recalculate(c)
    BY <2>6, Numbers DEF FlagTells, Recalculate, Goes, Alive, dispatch
  <2>7. CASE Notify(c)
    BY <2>7 DEF FlagTells, Notify, Goes, Alive, flags, dispatch
  <2>8. CASE Crash(c)
    BY <2>8 DEF FlagTells, Crash, Goes, Alive, InJob, Working, flags, dispatch
  <2> QED BY <2>1, <2>2, <2>3, <2>4, <2>5, <2>6, <2>7, <2>8 DEF Step
<1>11. CASE Ask \/ Poll \/ GiveUp \/ ResetTrack \/ CancelRequest \/ TimeIsOver
    \/ UNCHANGED vars
  <2> UNCHANGED <<running, calc, dispatcher>>
    BY <1>11, Zenon DEF Ask, Poll, GiveUp, ResetTrack, CancelRequest, TimeIsOver,
        flags, dispatch, vars
  <2> QED BY <1>1
<1> QED
  BY <1>2, <1>3, <1>4, <1>5, <1>6, <1>7, <1>8, <1>9, <1>10, <1>11
  DEF Next, DispatcherSteps, WebSteps

\* A recalculation waits while the contestant cannot be found.
LEMMA TasksWaitClosedHolds ==
  ASSUME TypeOK, Orderly, [Next]_vars, Quiet'
  PROVE  TasksWaitClosed'
<1> calc \in [Calculators -> Places]
  BY TypeParts DEF WhereaboutsOK
<1> /\ AtMostOne /\ AloneToSpawn /\ FlagTells /\ TasksWaitClosed
    /\ EntryTells /\ DeletedIsGone /\ EndsFinished /\ HeardIsObeyed
  BY DEF Orderly
<1> ~lapsed' /\ ~crossed'
  BY DEF Quiet
<1>1. CASE UNCHANGED <<calc, over, cached, dispatcher>>
  BY <1>1 DEF TasksWaitClosed, Closed
<1>2. CASE Dispatch
  BY <1>2 DEF TasksWaitClosed, Closed, Dispatch, Looked, StartProcess, Free, Found,
      MustStart, row
<1>3. CASE Spawn
  BY <1>3 DEF TasksWaitClosed, Closed, Spawn, Free, row
<1>4. CASE MarkAlive
  BY <1>4 DEF TasksWaitClosed, Closed, MarkAlive, row
<1>5. CASE SpawnFails
  BY <1>5 DEF TasksWaitClosed, Closed, SpawnFails, StartProcess, Free, row
<1>6. CASE DeleteJob
  BY <1>6 DEF TasksWaitClosed, Closed, DeleteJob, row
<1>7. CASE JobGone
  BY <1>7 DEF TasksWaitClosed, Closed, JobGone, row, dispatch
<1>8. CASE Revert
  BY <1>8 DEF TasksWaitClosed, Closed, Revert, Goes, Free, Found, dispatch
<1>9. CASE Tick
  <2>1. UNCHANGED <<calc, over, dispatcher>>
    BY <1>9 DEF Tick, row
  <2>2. cached'.found = cached.found /\ (cached'.left > 0 => cached.left > 0)
    BY <1>9, TypeParts DEF Tick, Less, CacheOK
  <2> QED BY <2>1, <2>2 DEF TasksWaitClosed, Closed
<1>10. CASE TimeIsOver
  BY <1>10 DEF TasksWaitClosed, Closed, TimeIsOver
<1>11. CASE \E c \in Calculators : Step(c) \/ Notify(c) \/ Crash(c)
  <2> PICK c \in Calculators : Step(c) \/ Notify(c) \/ Crash(c)
    BY <1>11
  <2>1. CASE Begin(c)
    BY <2>1 DEF TasksWaitClosed, Closed, Begin, Goes, InJob, row, dispatch
  <2>2. CASE Construct(c)
    BY <2>2 DEF TasksWaitClosed, Closed, Construct, Goes, dispatch
  <2>3. CASE Loaded(c)
    BY <2>3 DEF TasksWaitClosed, Closed, Loaded, Goes, row, dispatch
  <2>4. CASE SetFinished(c)
    BY <2>4 DEF TasksWaitClosed, Closed, SetFinished, Goes, dispatch
  <2>5. CASE ClearFlag(c)
    BY <2>5 DEF TasksWaitClosed, Closed, ClearFlag, Goes, row, dispatch
  <2>6. CASE Recalculate(c)
    BY <2>6 DEF TasksWaitClosed, Closed, Recalculate, Goes, dispatch
  <2>7. CASE Notify(c)
    BY <2>7 DEF TasksWaitClosed, Closed, Notify, Goes, dispatch
  <2>8. CASE Crash(c)
    BY <2>8 DEF TasksWaitClosed, Closed, Crash, Goes, InJob, Working, row, dispatch
  <2> QED BY <2>1, <2>2, <2>3, <2>4, <2>5, <2>6, <2>7, <2>8 DEF Step
<1>12. CASE Ask \/ Poll \/ GiveUp \/ ResetTrack \/ CancelRequest \/ UNCHANGED vars
  <2> UNCHANGED <<calc, over, cached, dispatcher>>
    BY <1>12, Zenon DEF Ask, Poll, GiveUp, ResetTrack, CancelRequest, row, dispatch,
        vars
  <2> QED BY <1>1
<1> QED
  BY <1>2, <1>3, <1>4, <1>5, <1>6, <1>7, <1>8, <1>9, <1>10, <1>11, <1>12
  DEF Next, DispatcherSteps, WebSteps

\* The dispatcher keeps track of the calculators it started.
LEMMA EntryTellsHolds ==
  ASSUME TypeOK, Orderly, [Next]_vars, Quiet'
  PROVE  EntryTells'
<1> calc \in [Calculators -> Places]
  BY TypeParts DEF WhereaboutsOK
<1> /\ AtMostOne /\ AloneToSpawn /\ FlagTells /\ TasksWaitClosed
    /\ EntryTells /\ DeletedIsGone /\ EndsFinished /\ HeardIsObeyed
  BY DEF Orderly
<1> ~lapsed' /\ ~crossed'
  BY DEF Quiet
<1>1. CASE UNCHANGED <<calc, entry, over, cached>>
  BY <1>1 DEF EntryTells, Closed
<1>2. CASE Dispatch
  BY <1>2, Dispatches, Names DEF EntryTells, AllGone
<1>3. CASE Spawn
  BY <1>3 DEF Spawn, EntryTells, AloneToSpawn
<1>4. CASE SpawnFails
  BY <1>4 DEF SpawnFails, StartProcess, EntryTells, AloneToSpawn, AllGone
<1>5. CASE JobGone
  BY <1>5 DEF EntryTells, Closed, JobGone, row, dispatch
<1>6. CASE Revert
  BY <1>6 DEF EntryTells, Closed, Revert, Goes, Free, Found, dispatch
<1>7. CASE Tick
  <2>1. UNCHANGED <<calc, over, entry>>
    BY <1>7 DEF Tick, row
  <2>2. cached'.found = cached.found /\ (cached'.left > 0 => cached.left > 0)
    BY <1>7, TypeParts DEF Tick, Less, CacheOK
  <2> QED BY <2>1, <2>2 DEF EntryTells, Closed
<1>8. CASE TimeIsOver
  BY <1>8 DEF EntryTells, Closed, TimeIsOver
<1>9. CASE \E c \in Calculators : Step(c) \/ Notify(c) \/ Crash(c)
  <2> PICK c \in Calculators : Step(c) \/ Notify(c) \/ Crash(c)
    BY <1>9
  <2>1. CASE Begin(c)
    BY <2>1 DEF EntryTells, Closed, Begin, Goes, InJob, row, dispatch
  <2>2. CASE Construct(c)
    BY <2>2 DEF EntryTells, Closed, Construct, Goes, dispatch
  <2>3. CASE Loaded(c)
    BY <2>3 DEF EntryTells, Closed, Loaded, Goes, row, dispatch
  <2>4. CASE SetFinished(c)
    BY <2>4 DEF EntryTells, Closed, SetFinished, Goes, dispatch
  <2>5. CASE ClearFlag(c)
    BY <2>5 DEF EntryTells, Closed, ClearFlag, Goes, row, dispatch
  <2>6. CASE Recalculate(c)
    BY <2>6 DEF EntryTells, Closed, Recalculate, Goes, dispatch
  <2>7. CASE Notify(c)
    BY <2>7 DEF EntryTells, Closed, Notify, Goes, dispatch
  <2>8. CASE Crash(c)
    BY <2>8 DEF EntryTells, Closed, Crash, Goes, InJob, Working, row, dispatch
  <2> QED BY <2>1, <2>2, <2>3, <2>4, <2>5, <2>6, <2>7, <2>8 DEF Step
<1>10. CASE MarkAlive \/ DeleteJob \/ Ask \/ Poll \/ GiveUp \/ ResetTrack
    \/ CancelRequest \/ UNCHANGED vars
  <2> UNCHANGED <<calc, entry, over, cached>>
    BY <1>10, Zenon DEF MarkAlive, DeleteJob, Ask, Poll, GiveUp, ResetTrack,
        CancelRequest, row, dispatch, vars
  <2> QED BY <1>1
<1> QED
  BY <1>2, <1>3, <1>4, <1>5, <1>6, <1>7, <1>8, <1>9, <1>10
  DEF Next, DispatcherSteps, WebSteps

\* What is deleted is the rest of a job that has come to its end.
LEMMA DeletedIsGoneHolds ==
  ASSUME TypeOK, Orderly, [Next]_vars, Quiet'
  PROVE  DeletedIsGone'
<1> calc \in [Calculators -> Places]
  BY TypeParts DEF WhereaboutsOK
<1> /\ AtMostOne /\ AloneToSpawn /\ FlagTells /\ TasksWaitClosed
    /\ EntryTells /\ DeletedIsGone /\ EndsFinished /\ HeardIsObeyed
  BY DEF Orderly
<1> ~lapsed' /\ ~crossed'
  BY DEF Quiet
<1>1. CASE UNCHANGED <<calc, job>>
  BY <1>1 DEF DeletedIsGone
<1>2. CASE Dispatch
  <2>1. UNCHANGED job
    BY <1>2 DEF Dispatch, kubernetes
  <2>2. job.deleting => job.runs \in Calculators
    BY TypeParts DEF WhereaboutsOK
  <2>3. CASE UNCHANGED calc
    BY <2>1, <2>3 DEF DeletedIsGone
  <2>4. CASE \E c \in Free : calc' = [calc EXCEPT ![c] = "spawned"]
    BY <2>1, <2>2, <2>4 DEF DeletedIsGone, Free
  <2> QED BY <1>2, <2>3, <2>4, Dispatches
<1>3. CASE Spawn
  <2>1. \/ UNCHANGED <<job, calc>>
        \/ \E c \in Free : job' = [runs |-> c, deleting |-> FALSE]
    BY <1>3 DEF Spawn
  <2> QED BY <2>1 DEF DeletedIsGone
<1>4. CASE SpawnFails
  BY <1>4 DEF DeletedIsGone, SpawnFails, StartProcess, Free, kubernetes
<1>5. CASE DeleteJob
  <2>1. UNCHANGED calc /\ job'.runs = job.runs
    BY <1>5, TypeParts DEF DeleteJob, WhereaboutsOK
  <2>2. job'.deleting => job.runs \in Calculators
    BY <1>5, TypeParts DEF DeleteJob, WhereaboutsOK
  <2> QED BY <1>5, <2>1, <2>2 DEF DeletedIsGone, DeleteJob, AloneToSpawn, AllGone
<1>6. CASE JobGone
  BY <1>6 DEF DeletedIsGone, JobGone
<1>7. CASE Revert
  BY <1>7 DEF DeletedIsGone, Revert, Goes, Free, kubernetes
<1>8. CASE \E c \in Calculators : Step(c) \/ Notify(c) \/ Crash(c)
  <2> PICK c \in Calculators : Step(c) \/ Notify(c) \/ Crash(c)
    BY <1>8
  <2>1. CASE Begin(c)
    BY <2>1 DEF DeletedIsGone, Begin, Goes, InJob, kubernetes
  <2>2. CASE Construct(c)
    BY <2>2 DEF DeletedIsGone, Construct, Goes, kubernetes
  <2>3. CASE Loaded(c)
    BY <2>3 DEF DeletedIsGone, Loaded, Goes, kubernetes
  <2>4. CASE SetFinished(c)
    BY <2>4 DEF DeletedIsGone, SetFinished, Goes, kubernetes
  <2>5. CASE ClearFlag(c)
    BY <2>5 DEF DeletedIsGone, ClearFlag, Goes, kubernetes
  <2>6. CASE Recalculate(c)
    BY <2>6 DEF DeletedIsGone, Recalculate, Goes, kubernetes
  <2>7. CASE Notify(c)
    BY <2>7 DEF DeletedIsGone, Notify, Goes, kubernetes
  <2>8. CASE Crash(c)
    BY <2>8 DEF DeletedIsGone, Crash, Goes, InJob, Working, kubernetes
  <2> QED BY <2>1, <2>2, <2>3, <2>4, <2>5, <2>6, <2>7, <2>8 DEF Step
<1>9. CASE MarkAlive \/ Ask \/ Poll \/ GiveUp \/ ResetTrack \/ CancelRequest \/ Tick
    \/ TimeIsOver \/ UNCHANGED vars
  <2> UNCHANGED <<calc, job>>
    BY <1>9, Zenon DEF MarkAlive, Ask, Poll, GiveUp, ResetTrack, CancelRequest, Tick,
        TimeIsOver, kubernetes, vars
  <2> QED BY <1>1
<1> QED
  BY <1>2, <1>3, <1>4, <1>5, <1>6, <1>7, <1>8, <1>9
  DEF Next, DispatcherSteps, WebSteps

\* The row says that a calculator has finished before it clears its flag.
LEMMA EndsFinishedHolds ==
  ASSUME TypeOK, Orderly, [Next]_vars, Quiet'
  PROVE  EndsFinished'
<1> calc \in [Calculators -> Places]
  BY TypeParts DEF WhereaboutsOK
<1> /\ AtMostOne /\ AloneToSpawn /\ FlagTells /\ TasksWaitClosed
    /\ EntryTells /\ DeletedIsGone /\ EndsFinished /\ HeardIsObeyed
  BY DEF Orderly
<1> ~lapsed' /\ ~crossed'
  BY DEF Quiet
<1>1. CASE UNCHANGED <<calc, finished>>
  BY <1>1 DEF EndsFinished
<1>2. CASE Dispatch
  BY <1>2 DEF EndsFinished, Dispatch, StartProcess, Free, MustStart, row
<1>3. CASE Spawn
  BY <1>3 DEF EndsFinished, Spawn, Free, row
<1>4. CASE SpawnFails
  BY <1>4 DEF EndsFinished, SpawnFails, StartProcess, Free, row
<1>5. CASE JobGone
  BY <1>5 DEF EndsFinished, JobGone, row
<1>6. CASE ResetTrack
  <2>1. Working = {} /\ UNCHANGED calc
    BY <1>6 DEF ResetTrack
  <2> QED BY <2>1 DEF EndsFinished, Working
<1>7. CASE Revert
  BY <1>7 DEF EndsFinished, Revert, Goes, Free
<1>8. CASE \E c \in Calculators : Step(c) \/ Notify(c) \/ Crash(c)
  <2> PICK c \in Calculators : Step(c) \/ Notify(c) \/ Crash(c)
    BY <1>8
  <2>1. CASE Begin(c)
    BY <2>1 DEF EndsFinished, Begin, Goes, InJob, row
  <2>2. CASE Construct(c)
    <3>1. \A d \in Calculators : d # c => calc[d] = "gone"
      BY <2>2 DEF Construct, AtMostOne
    <3> QED BY <2>2, <3>1 DEF EndsFinished, Construct, Goes
  <2>3. CASE Loaded(c)
    BY <2>3 DEF EndsFinished, Loaded, Goes, row
  <2>4. CASE SetFinished(c)
    BY <2>4 DEF EndsFinished, SetFinished, Goes
  <2>5. CASE ClearFlag(c)
    BY <2>5 DEF EndsFinished, ClearFlag, Goes, row
  <2>6. CASE Recalculate(c)
    BY <2>6 DEF EndsFinished, Recalculate, Goes
  <2>7. CASE Notify(c)
    BY <2>7 DEF EndsFinished, Notify, Goes
  <2>8. CASE Crash(c)
    BY <2>8 DEF EndsFinished, Crash, Goes, InJob, Working, row
  <2> QED BY <2>1, <2>2, <2>3, <2>4, <2>5, <2>6, <2>7, <2>8 DEF Step
<1>9. CASE MarkAlive \/ DeleteJob \/ Ask \/ Poll \/ GiveUp \/ CancelRequest \/ Tick
    \/ TimeIsOver \/ UNCHANGED vars
  <2> UNCHANGED <<calc, finished>>
    BY <1>9, Zenon DEF MarkAlive, DeleteJob, Ask, Poll, GiveUp, CancelRequest, Tick,
        TimeIsOver, row, vars
  <2> QED BY <1>1
<1> QED
  BY <1>2, <1>3, <1>4, <1>5, <1>6, <1>7, <1>8, <1>9
  DEF Next, DispatcherSteps, WebSteps

\* A calculator that was there to hear a request leaves the row finished.
LEMMA HeardIsObeyedHolds ==
  ASSUME TypeOK, Orderly, [Next]_vars, Quiet'
  PROVE  HeardIsObeyed'
<1> calc \in [Calculators -> Places]
  BY TypeParts DEF WhereaboutsOK
<1> /\ AtMostOne /\ AloneToSpawn /\ FlagTells /\ TasksWaitClosed
    /\ EntryTells /\ DeletedIsGone /\ EndsFinished /\ HeardIsObeyed
  BY DEF Orderly
<1> ~lapsed' /\ ~crossed'
  BY DEF Quiet
<1>1. CASE UNCHANGED <<calc, web, finished>>
  BY <1>1 DEF HeardIsObeyed, Heard, Working
<1>2. CASE Dispatch
  BY <1>2 DEF HeardIsObeyed, Heard, Working, Dispatch, StartProcess, Free, MustStart,
      row
<1>3. CASE Spawn
  BY <1>3 DEF HeardIsObeyed, Heard, Working, Spawn, Free, row
<1>4. CASE SpawnFails
  BY <1>4 DEF HeardIsObeyed, Heard, Working, SpawnFails, StartProcess, Free, row
<1>5. CASE JobGone
  <2>1. calc[job.runs] = "gone"
    BY <1>5 DEF JobGone, DeletedIsGone
  <2>2. UNCHANGED <<calc, web, finished>>
    BY <1>5, <2>1 DEF JobGone, row
  <2> QED BY <1>1, <2>2
<1>6. CASE Ask
  <2>1. UNCHANGED <<calc, finished>>
    BY <1>6 DEF Ask, row
  <2>2. web'.at = "polling" /\ (web'.heard <=> Working # {})
    <3> DEFINE heard == Working # {}
    <3>1. PICK kind \in {"terminate", "restart"} :
            web' = [kind |-> kind, at |-> "polling", waited |-> 0, heard |-> heard]
      BY <1>6 DEF Ask
    <3> HIDE DEF heard
    <3>2. web'.at = "polling" /\ web'.heard = heard
      BY <3>1
    <3> QED BY <3>2, Zenon DEF heard
  <2>3. Working' = Working
    BY <2>1 DEF Working
  <2>4. Working # {} => \A c \in Calculators : calc[c] # "task"
    BY DEF AtMostOne, Working
  <2> QED BY <2>1, <2>2, <2>3, <2>4 DEF HeardIsObeyed, Heard
<1>7. CASE Poll
  <2>1. UNCHANGED <<calc, finished>> /\ running = 0 /\ web.at = "polling"
    BY <1>7 DEF Poll, row
  <2>2. Working = {}
    BY <2>1 DEF FlagTells, Working
  <2>3. Working' = {}
    BY <2>1, <2>2 DEF Working
  <2>4. Heard' => Heard
    BY <1>7, <2>1, TypeParts DEF Poll, Heard, WebOK
  <2> QED BY <2>1, <2>2, <2>3, <2>4 DEF HeardIsObeyed
<1>8. CASE GiveUp
  <2>1. web'.at = "timed out"
    BY <1>8, TypeParts DEF GiveUp, WebOK
  <2> QED BY <2>1 DEF HeardIsObeyed, Heard
<1>9. CASE ResetTrack
  BY <1>9 DEF HeardIsObeyed, Heard, Working, ResetTrack, Reset
<1>10. CASE CancelRequest
  BY <1>10 DEF HeardIsObeyed, Heard, Working, CancelRequest, row
<1>11. CASE Revert
  BY <1>11 DEF HeardIsObeyed, Heard, Working, Revert, Goes, Free
<1>12. CASE Tick
  BY <1>12 DEF HeardIsObeyed, Heard, Working, Tick, row
<1>13. CASE \E c \in Calculators : Step(c) \/ Notify(c) \/ Crash(c)
  <2> PICK c \in Calculators : Step(c) \/ Notify(c) \/ Crash(c)
    BY <1>13
  <2>1. CASE Begin(c)
    BY <2>1 DEF HeardIsObeyed, Heard, Working, Begin, Goes, Begins, InJob, row
  <2>2. CASE Construct(c)
    BY <2>2 DEF HeardIsObeyed, Heard, Working, Construct, Goes
  <2>3. CASE Loaded(c)
    BY <2>3 DEF HeardIsObeyed, Heard, Working, Loaded, Goes, row
  <2>4. CASE SetFinished(c)
    BY <2>4 DEF HeardIsObeyed, Heard, Working, SetFinished, Goes
  <2>5. CASE ClearFlag(c)
    <3>1. \A d \in Calculators : d # c => calc[d] = "gone"
      BY <2>5 DEF ClearFlag, AtMostOne
    <3>2. UNCHANGED <<web, finished>> /\ finished
      BY <2>5 DEF ClearFlag, row, EndsFinished
    <3>3. \A d \in Calculators : calc'[d] = "gone"
      BY <2>5, <3>1 DEF ClearFlag, Goes
    <3>4. c \in Working
      BY <2>5 DEF ClearFlag, Working
    <3> QED BY <3>2, <3>3, <3>4 DEF HeardIsObeyed, Heard, Working
  <2>6. CASE Recalculate(c)
    BY <2>6 DEF HeardIsObeyed, Heard, Working, Recalculate, Goes
  <2>7. CASE Notify(c)
    BY <2>7 DEF HeardIsObeyed, Heard, Working, Notify, Goes
  <2>8. CASE Crash(c)
    BY <2>8 DEF HeardIsObeyed, Heard, Working, Crash, Goes, InJob, row
  <2> QED BY <2>1, <2>2, <2>3, <2>4, <2>5, <2>6, <2>7, <2>8 DEF Step
<1>14. CASE MarkAlive \/ DeleteJob \/ TimeIsOver \/ UNCHANGED vars
  <2> UNCHANGED <<calc, web, finished>>
    BY <1>14, Zenon DEF MarkAlive, DeleteJob, TimeIsOver, row, vars
  <2> QED BY <1>1
<1> QED
  BY <1>2, <1>3, <1>4, <1>5, <1>6, <1>7, <1>8, <1>9, <1>10, <1>11, <1>12, <1>13, <1>14
  DEF Next, DispatcherSteps, WebSteps

-----------------------------------------------------------------------------
(* The invariant, and what it says of the contestant.                      *)

\* The exceptions do not go away.
LEMMA QuietBefore ==
  ASSUME TypeOK, [Next]_vars, Quiet'
  PROVE  Quiet
<1> lapsed \in BOOLEAN /\ crossed \in BOOLEAN
  BY TypeParts DEF ChoicesOK
<1> ~lapsed' /\ ~crossed'
  BY DEF Quiet
<1>1. CASE UNCHANGED history
  BY <1>1, Zenon DEF Quiet, history
<1>2. CASE DispatcherSteps
  BY <1>1, <1>2, Zenon DEF DispatcherSteps, Dispatch, Spawn, MarkAlive, DeleteJob
<1>3. CASE SpawnFails \/ JobGone \/ TimeIsOver \/ UNCHANGED vars
  BY <1>1, <1>3, Zenon DEF SpawnFails, JobGone, TimeIsOver, vars
<1>4. CASE \E c \in Calculators : Step(c) \/ Notify(c) \/ Crash(c)
  <2> PICK c \in Calculators : Step(c) \/ Notify(c) \/ Crash(c)
    BY <1>4
  <2>1. CASE Step(c)
    BY <1>1, <2>1, Zenon DEF Step, Begin, Construct, Loaded, SetFinished, ClearFlag,
        Recalculate
  <2>2. CASE Notify(c)
    <3>1. crossed => crossed'
      BY <2>2, Zenon DEF Notify
    <3>2. UNCHANGED lapsed
      BY <2>2, Zenon DEF Notify
    <3> QED BY <3>1, <3>2, Zenon DEF Quiet
  <2>3. CASE Crash(c)
    BY <1>1, <2>3, Zenon DEF Crash
  <2> QED BY <2>1, <2>2, <2>3
<1>5. CASE Poll \/ GiveUp \/ CancelRequest \/ Ask
  BY <1>1, <1>5, Zenon DEF Poll, GiveUp, CancelRequest, Ask
<1>6. CASE ResetTrack
  BY <1>6, Zenon DEF ResetTrack, Quiet
<1>7. CASE Revert
  BY <1>7, Zenon DEF Revert, Quiet
<1>8. CASE Tick
  BY <1>8, Zenon DEF Tick, Quiet
<1> QED BY <1>2, <1>3, <1>4, <1>5, <1>6, <1>7, <1>8 DEF Next, WebSteps

LEMMA InitInvariant == Init => IInv
<1> SUFFICES ASSUME Init PROVE IInv
  OBVIOUS
<1>1. TypeOK
  BY InitTypes
<1>2. Orderly
  BY DEF Init, Orderly, AtMostOne, AloneToSpawn, FlagTells, TasksWaitClosed, EntryTells,
         DeletedIsGone, EndsFinished, HeardIsObeyed, Heard
<1> QED BY <1>1, <1>2 DEF IInv

LEMMA StepInvariant == IInv /\ [Next]_vars => IInv'
<1> SUFFICES ASSUME IInv, [Next]_vars PROVE IInv'
  OBVIOUS
<1>1. TypeOK /\ TypeOK'
  BY StepTypes DEF IInv
<1>2. ASSUME Quiet' PROVE Orderly'
  <2>1. Orderly
    BY <1>1, <1>2, QuietBefore DEF IInv
  <2> QED
    BY <1>1, <1>2, <2>1, AtMostOneHolds, AloneToSpawnHolds, FlagTellsHolds,
       TasksWaitClosedHolds, EntryTellsHolds, DeletedIsGoneHolds, EndsFinishedHolds,
       HeardIsObeyedHolds
    DEF Orderly
<1> QED BY <1>1, <1>2 DEF IInv

\* The invariant holds in every state of the specification.
THEOREM InvariantHolds == Spec => []IInv
BY InitInvariant, StepInvariant, PTL DEF Spec

\* Two calculators never work on one contestant at once, unless the word of the first
\* ran out while it worked, or a recalculation or a restart crossed it.
THEOREM OneCalculatorHolds == Spec => []OneCalculator
<1>1. IInv => OneCalculator
  <2> SUFFICES ASSUME IInv, ~lapsed, ~crossed PROVE ~(Cardinality(Working) > 1)
    BY DEF OneCalculator
  <2>1. \A c, d \in Working : c = d
    BY DEF IInv, Quiet, Orderly, AtMostOne, Working
  <2>2. CASE Working = {}
    BY <2>2, FS_EmptySet
  <2>3. CASE Working # {}
    <3>1. PICK c \in Working : TRUE
      BY <2>3
    <3>2. Working = {c}
      BY <2>1, <3>1
    <3>3. Cardinality({c}) = 1
      BY FS_Singleton
    <3> QED BY <3>2, <3>3
  <2> QED BY <2>2, <2>3
<1> QED BY <1>1, InvariantHolds, PTL

\* When the web has said that the calculator it asked to stop is terminated, none works
\* on the contestant until something else is asked for, however many requests there
\* were before; with the same exceptions.
THEOREM StoppedStaysStoppedHolds == Spec => []StoppedStaysStopped
<1>1. IInv => StoppedStaysStopped
  BY DEF IInv, Quiet, Orderly, HeardIsObeyed, Heard, StoppedStaysStopped
<1> QED BY <1>1, InvariantHolds, PTL

=============================================================================
