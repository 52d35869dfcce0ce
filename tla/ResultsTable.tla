---------------------------- MODULE ResultsTable ----------------------------
(***************************************************************************)
(* The order of the tasks in the results table of a contest, which several *)
(* pages show and change at once. The order is an index in each task's     *)
(* row. A page moves a column by exchanging two indexes in its own store   *)
(* and sending each task in a request of its own; the server stores each   *)
(* on its own, and after each sends the list of tasks to every page.       *)
(*                                                                         *)
(* The columns of the tests inside a task are moved by the same code over  *)
(* again and are left out, as are names, weights and scores: a task is its *)
(* identity and its index.                                                 *)
(***************************************************************************)
EXTENDS Integers, Sequences, FiniteSets, Functions

CONSTANTS
  Pages,        \* browsers with the table open
  Starts,       \* the indexes of the tasks there are to begin with, that are
                \* numbered from 1 on
  MaxClicks,    \* bound: times a user moves, adds, deletes or opens a task
  MaxRequests,  \* bound: requests the clicks lead to, with the upsets
  MaxBacklog,   \* bound: lists on their way to a page
  MaxUpsets     \* bound: requests lost and sockets cut off

ASSUME ResultsAssumption ==
  /\ \A f \in Starts : f \in Seq(Nat \ {0}) /\ IsInjective(f)
  /\ {MaxClicks, MaxRequests, MaxBacklog, MaxUpsets} \subseteq Nat

VARIABLES
  stored,  \* the index of each task in the database
  nextId,  \* the identity of the next task to be created
  jobs,    \* requests, and the consumers of new sockets, on their way
  version, sent,  \* how often a row was stored; the newest list that was sent
  view,    \* this.props.tasks of each page: the index of each task it shows
  form,    \* the task in the edit form of each page
  open,    \* the page's socket is in the group
  inbox,   \* lists of tasks on their way to the page
  clicks, requests, upsets,
  asked,   \* history: the tasks in the order the users have asked for
  doubt,   \* history: a change crossed another one, or was made on a page
           \* that did not show what is stored
  behind   \* history: what the page shows was overtaken or has failed

server == <<stored, nextId, version, sent>>
pages == <<view, form, open, inbox>>
counts == <<clicks, requests, upsets>>
history == <<asked, doubt, behind>>
vars == <<server, pages, jobs, counts, history>>

NoForm == [task |-> 0, index |-> 0]
NoList == [index |-> <<>>, version |-> 0, torn |-> FALSE]

-----------------------------------------------------------------------------
(* Lists of tasks.                                                         *)

Without(f, t) == [u \in DOMAIN f \ {t} |-> f[u]]
With(f, t, i) == [u \in DOMAIN f \cup {t} |-> IF u = t THEN i ELSE f[u]]

\* The order in which a table with distinct indexes shows the tasks.
Columns(f) ==
  CHOOSE s \in [1..Cardinality(DOMAIN f) -> DOMAIN f] :
    \A i, j \in DOMAIN s : i < j => f[s[i]] < f[s[j]]

\* The list with t and u in each other's place, and without the one place where t is
Swapped(s, t, u) ==
  [i \in DOMAIN s |-> CASE s[i] = t -> u [] s[i] = u -> t [] OTHER -> s[i]]
Dropped(s, t) ==
  LET k == CHOOSE k \in DOMAIN s : s[k] = t
  IN  [i \in 1..(Len(s) - 1) |-> IF i < k THEN s[i] ELSE s[i + 1]]

\* moveTaskRight and moveTaskLeft change the indexes in the page's store.
Exchanged(f, t, u, d) == With(With(f, t, f[t] + d), u, f[u] - d)

\* update_task_index
NewIndex_Highest(f) == CHOOSE i \in Range(f) : \A j \in Range(f) : j <= i
NewIndex(f) == 1 + CHOOSE i \in Range(f) : \A j \in Range(f) : j <= i

-----------------------------------------------------------------------------
(* Requests. A job passes through its stages in order: it is sent, finds the *)
(* row, stores or inserts it, reads the list of tasks, sends it, and is      *)
(* answered. A task that was inserted is given its index in between, which   *)
(* stores it again.                                                          *)

Stages == {"sent", "found", "stored", "read", "inserted", "listed", "numbering", "counted",
           "deleting", "done"}

Job(p, kind, t, i, n) ==
  [id |-> n, page |-> p, kind |-> kind, task |-> t, index |-> i, stage |-> "sent", list |-> NoList]
At(j, stage) == [j EXCEPT !.stage = stage]

\* A change goes out, which is in doubt when another is under way or the page
\* does not show what is stored.
SendsOut(p, new) ==
  /\ clicks < MaxClicks /\ requests + upsets + Cardinality(new) <= MaxRequests
  /\ clicks' = clicks + 1 /\ requests' = requests + Cardinality(new)
  /\ jobs' = jobs \cup new
  /\ doubt' = (doubt \/ jobs # {} \/ view[p] # stored)
  /\ UNCHANGED <<server, open, inbox, upsets>>

\* The arrow is there when the task is not the first or the last column.
HasArrow(p, t, d) ==
  \E u \in DOMAIN view[p] \ {t} : d * (view[p][u] - view[p][t]) >= 0

\* moveTaskRight (d = 1) and moveTaskLeft (d = -1): the neighbour is looked up by
\* its index. When there is none the function raises, after it has changed the
\* index of the task it was called for.
Move ==
  \E p \in Pages, d \in {-1, 1} : \E t \in DOMAIN view[p] :
    /\ HasArrow(p, t, d)
    /\ \E u \in DOMAIN view[p] :
         /\ view[p][u] = view[p][t] + d
         /\ view' = [view EXCEPT ![p] = Exchanged(@, t, u, d)]
         /\ SendsOut(p, {Job(p, "put", t, view'[p][t], requests + 1),
                         Job(p, "put", u, view'[p][u], requests + 1)})
         /\ asked' = IF doubt' THEN <<>> ELSE Swapped(asked, t, u)
         /\ UNCHANGED <<form, behind>>

MoveRaises ==
  \E p \in Pages, d \in {-1, 1} : \E t \in DOMAIN view[p] :
    /\ clicks < MaxClicks /\ HasArrow(p, t, d)
    /\ \A u \in DOMAIN view[p] : view[p][u] # view[p][t] + d
    /\ view' = [view EXCEPT ![p] = With(@, t, @[t] + d)]
    /\ behind' = [behind EXCEPT ![p] = TRUE]
    /\ clicks' = clicks + 1
    /\ UNCHANGED <<server, form, open, inbox, jobs, requests, upsets, asked, doubt>>

\* The pencil opens the form on the whole task, its index included, and what is
\* typed goes into a copy of it.
OpenForm ==
  \E p \in Pages : \E t \in DOMAIN view[p] :
    /\ form[p] = NoForm /\ clicks < MaxClicks /\ requests + upsets < MaxRequests
    /\ form' = [form EXCEPT ![p] = [task |-> t, index |-> view[p][t]]]
    /\ clicks' = clicks + 1
    /\ UNCHANGED <<server, view, open, inbox, jobs, requests, upsets, history>>

\* createNewTask, with the form of a task there is
SubmitForm ==
  \E p \in Pages :
    LET f == form[p]
    IN  /\ f # NoForm
        /\ form' = [form EXCEPT ![p] = NoForm]
        /\ requests + upsets < MaxRequests
        /\ requests' = requests + 1
        /\ jobs' = jobs \cup {Job(p, "put", f.task, f.index, requests + 1)}
        /\ doubt' = (doubt \/ jobs # {} \/ view[p] # stored
                     \/ <<f.task, f.index>> \notin {<<u, stored[u]>> : u \in DOMAIN stored})
        /\ asked' = IF doubt' THEN <<>> ELSE asked
        /\ UNCHANGED <<server, view, open, inbox, clicks, upsets, behind>>

\* createNewTask, with a form of its own: the index of a default task is 0
CreateTask ==
  \E p \in Pages :
    /\ form[p] = NoForm
    /\ SendsOut(p, {Job(p, "post", 0, 0, requests + 1)})
    /\ asked' = IF doubt' THEN <<>> ELSE asked
    /\ UNCHANGED <<view, form, behind>>

DeleteTask ==
  \E p \in Pages : \E t \in DOMAIN view[p] :
    /\ SendsOut(p, {Job(p, "delete", t, 0, requests + 1)})
    /\ asked' = IF doubt' THEN <<>> ELSE Dropped(asked, t)
    /\ UNCHANGED <<view, form, behind>>

-----------------------------------------------------------------------------
(* The server. Every request runs in a worker of its own, and nothing keeps *)
(* two of them apart: a write is committed at once, except that a deletion   *)
(* is a transaction around its signals, the sending of the list included.    *)

To(j, k) == jobs' = (jobs \ {j}) \cup {k}

Deleting == {k \in jobs : k.kind = "delete" /\ k.stage \in {"stored", "read", "deleting"}}
Uncommitted(t) == \E k \in Deleting : k.task = t

\* The request does not reach a worker, or is refused; the page shows an alert.
Fail(j) ==
  /\ j.stage = "sent" /\ upsets < MaxUpsets /\ requests + upsets < MaxRequests
  /\ upsets' = upsets + 1
  /\ jobs' = jobs \ {j}
  /\ doubt' = TRUE /\ asked' = <<>>
  /\ behind' = [behind EXCEPT ![j.page] = TRUE]
  /\ UNCHANGED <<server, pages, clicks, requests>>

\* TaskViewSet.get_object; a task that is gone is a 404
FindRow(j) ==
  /\ j.kind \in {"put", "delete"} /\ j.stage = "sent"
  /\ IF j.task \in DOMAIN stored
     THEN To(j, At(j, "found")) /\ UNCHANGED behind
     ELSE jobs' = jobs \ {j} /\ behind' = [behind EXCEPT ![j.page] = TRUE]
  /\ UNCHANGED <<server, pages, counts, asked, doubt>>

\* save() updates the row, or inserts it again when it has been deleted, and tells
\* the signals which. It waits for a deletion to be committed.
Saved(j) ==
  /\ ~Uncommitted(j.task)
  /\ stored' = With(stored, j.task, j.index)
  /\ version' = version + 1
  /\ To(j, At(j, IF j.task \in DOMAIN stored THEN "stored" ELSE "inserted"))
  /\ UNCHANGED <<nextId, sent, pages, counts, history>>

\* TaskViewSet.update saves every field of the task that was found.
UpdateRow(j) == j.kind = "put" /\ j.stage = "found" /\ Saved(j)

\* TaskViewSet.create: the row is stored with the index it was sent with.
Inserted(j, following) ==
  /\ j.kind = "post" /\ j.stage = "sent"
  /\ stored' = With(stored, nextId, j.index)
  /\ nextId' = following /\ version' = version + 1
  /\ To(j, [At(j, "inserted") EXCEPT !.task = nextId])
  /\ asked' = IF doubt THEN <<>> ELSE Append(asked, nextId)
  /\ UNCHANGED <<sent, pages, counts, doubt, behind>>
InsertRow_SameIdentity(j) == Inserted(j, nextId)
InsertRow(j) == Inserted(j, nextId + 1)

\* TaskViewSet.destroy deletes the row, which the others see when it is committed.
DeleteRow(j) ==
  /\ j.kind = "delete" /\ j.stage = "found" /\ ~Uncommitted(j.task)
  /\ version' = version + 1
  /\ To(j, At(j, "stored"))
  /\ UNCHANGED <<stored, nextId, sent, pages, counts, history>>

CommitDelete(j) ==
  /\ j.stage = "deleting"
  /\ stored' = Without(stored, j.task)
  /\ To(j, At(j, "done"))
  /\ UNCHANGED <<nextId, version, sent, pages, counts, history>>

\* transmit_tasks reads the list, in which a deletion of another worker may not
\* show although it has sent its own list before ...
ReadTasks(j) ==
  [j EXCEPT !.list =
    [index |-> IF j.kind = "delete" THEN Without(stored, j.task) ELSE stored,
     version |-> version, torn |-> Deleting \ {j} # {}]]
Read(j) ==
  /\ j.stage \in {"stored", "inserted"}
  /\ To(j, At(ReadTasks(j), IF j.stage = "stored" THEN "read" ELSE "listed"))
  /\ UNCHANGED <<server, pages, counts, history>>

\* ... and then sends it to all that are in the group. A consumer is done then, a
\* task that was inserted is numbered next, and any other request is answered.
AfterTransmit(j) ==
  CASE j.stage = "listed" -> "numbering"
    [] j.stage = "read" /\ j.kind = "delete" -> "deleting"
    [] OTHER -> "done"
TransmitTasks(j) ==
  /\ j.stage \in {"read", "listed"} /\ \A p \in Pages : Len(inbox[p]) < MaxBacklog
  /\ inbox' = [p \in Pages |->
       IF open[p] THEN Append(inbox[p], [index |-> j.list.index,
                                            late |-> j.list.torn \/ j.list.version < sent])
       ELSE inbox[p]]
  /\ sent' = IF j.list.version < sent THEN sent ELSE j.list.version
  /\ IF j.kind = "hello" THEN jobs' = jobs \ {j}
     ELSE To(j, [At(j, AfterTransmit(j)) EXCEPT !.list = NoList])
  /\ UNCHANGED <<stored, nextId, version, view, form, open, counts, history>>

\* update_task_index reads the highest index ...
CountTasks(j) ==
  /\ j.stage = "numbering"
  /\ To(j, IF stored = <<>> THEN At(j, "done")
           ELSE [At(j, "counted") EXCEPT !.index = NewIndex(stored)])
  /\ UNCHANGED <<server, pages, counts, history>>

\* ... and saves the task again, which is numbered once more when it had been deleted.
NumberRow(j) == j.stage = "counted" /\ Saved(j)

-----------------------------------------------------------------------------
(* The pages.                                                              *)

\* CREATE_TASK_SUCCESSFUL and DELETE_TASK_SUCCESSFUL. An answer that no longer
\* says what is stored was overtaken on its way.
Remaining(f, j) == IF j.kind = "delete" THEN Without(f, j.task) ELSE With(f, j.task, j.index)
Answer(j) ==
  /\ j.stage = "done"
  /\ view' = [view EXCEPT ![j.page] = Remaining(@, j)]
  /\ behind' = [behind EXCEPT ![j.page] =
       @ \/ IF j.kind = "delete" THEN j.task \in DOMAIN stored
            ELSE \/ j.task \notin DOMAIN stored \/ Uncommitted(j.task)
                 \/ stored[j.task] # j.index]
  /\ jobs' = jobs \ {j}
  /\ UNCHANGED <<server, form, open, inbox, counts, asked, doubt>>

\* GET_TASKS_SUCCESSFUL
Receive ==
  \E p \in Pages :
    /\ inbox[p] # <<>>
    /\ inbox' = [inbox EXCEPT ![p] = Tail(@)]
    /\ view' = [view EXCEPT ![p] = Head(inbox[p]).index]
    /\ behind' = [behind EXCEPT ![p] = Head(inbox[p]).late]
    /\ UNCHANGED <<server, form, open, jobs, counts, asked, doubt>>

Cut ==
  \E p \in Pages :
    /\ open[p] /\ upsets < MaxUpsets /\ requests + upsets < MaxRequests
    /\ upsets' = upsets + 1
    /\ open' = [open EXCEPT ![p] = FALSE]
    /\ inbox' = [inbox EXCEPT ![p] = <<>>]
    /\ UNCHANGED <<server, view, form, jobs, clicks, requests, history>>

\* check, and ContestResultsConsumer.connect: the socket joins the group, and the
\* list is sent to all that are in it.
Connected(greets) ==
  \E p \in Pages :
    /\ ~open[p]
    /\ open' = [open EXCEPT ![p] = TRUE]
    /\ jobs' = jobs \cup (IF greets THEN {At(Job(p, "hello", 0, 0, -upsets), "stored")}
                          ELSE {})
    /\ UNCHANGED <<server, view, form, inbox, counts, history>>
Connect_Silent == Connected(FALSE)
Connect == Connected(TRUE)

-----------------------------------------------------------------------------
Init ==
  /\ stored \in Starts
  /\ nextId = 1 + Len(stored)
  /\ jobs = {} /\ version = 0 /\ sent = 0
  /\ view = [p \in Pages |-> stored]
  /\ form = [p \in Pages |-> NoForm]
  /\ open = [p \in Pages |-> TRUE]
  /\ inbox = [p \in Pages |-> <<>>]
  /\ clicks = 0 /\ requests = 0 /\ upsets = 0
  /\ asked = Columns(stored) /\ doubt = FALSE
  /\ behind = [p \in Pages |-> FALSE]

Next ==
  \/ Move \/ MoveRaises \/ OpenForm \/ SubmitForm \/ CreateTask \/ DeleteTask
  \/ \E j \in jobs :
       \/ Fail(j) \/ FindRow(j) \/ UpdateRow(j) \/ InsertRow(j) \/ DeleteRow(j) \/ CommitDelete(j)
       \/ Read(j) \/ TransmitTasks(j) \/ CountTasks(j) \/ NumberRow(j) \/ Answer(j)
  \/ Receive \/ Cut \/ Connect

Spec == Init /\ [][Next]_vars

-----------------------------------------------------------------------------
IsList(f) == DOMAIN f \subseteq 1..(nextId - 1) /\ Range(f) \subseteq Int

\* The variables hold values of their kinds, and only tasks that have been
\* created are stored, shown or asked for.
TypeOK ==
  /\ nextId \in Nat /\ IsList(stored)
  /\ {version, sent, clicks, requests, upsets} \subseteq Nat /\ sent <= version
  /\ \A p \in Pages : IsList(view[p]) /\ \A i \in DOMAIN inbox[p] : IsList(inbox[p][i].index)
  /\ \A p \in Pages : form[p].task \in 0..(nextId - 1) /\ form[p].index \in Int
  /\ open \in [Pages -> BOOLEAN] /\ behind \in [Pages -> BOOLEAN] /\ doubt \in BOOLEAN
  /\ \A j \in jobs : j.stage \in Stages /\ j.page \in Pages /\ j.task \in 0..(nextId - 1)

Quiet == jobs = {}

\* When all requests have been answered, the indexes tell one order, and it is
\* the order the users asked for: a move has exchanged two neighbours although its
\* halves were stored apart, and a new task is the last. This holds unless a
\* request was lost, or one went out while another was under way or from a page
\* that did not show what was stored.
OrderIsAsAsked ==
  Quiet /\ ~doubt => IsInjective(stored) /\ Columns(stored) = asked

\* When nothing is on its way, a connected page shows the tasks as they are
\* stored, however requests, lists, answers and broken sockets have crossed. The
\* exceptions are those the code leaves for good: a list that was sent after a
\* newer one or read before a deletion was committed, an answer that was overtaken,
\* a request that failed, and a move that raised half way.
PagesShowStored ==
  Quiet => \A p \in Pages :
             open[p] /\ inbox[p] = <<>> /\ ~behind[p] => view[p] = stored

=============================================================================
