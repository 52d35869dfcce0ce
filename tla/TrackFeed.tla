----------------------------- MODULE TrackFeed -----------------------------
(***************************************************************************)
(* How one contestant's track and score reach the map of one browser: the  *)
(* track so far is fetched page by page and the score once, over HTTP,     *)
(* and from then on the calculator's messages arrive on a websocket. The   *)
(* redux store takes both, and the map draws what is newer than what it    *)
(* has drawn.                                                              *)
(*                                                                         *)
(* A position is the run of the calculator that made it and its time. The  *)
(* server's calculator is only what can be seen of it: it saves positions, *)
(* sends them, changes the score, and starts over with a new run.          *)
(***************************************************************************)
EXTENDS Integers, Sequences, FiniteSets

CONSTANTS
  PageSize,      \* positions in one page of paginated_track_data
  MaxRuns,       \* bound: runs of the calculator
  MaxPositions,  \* bound: positions of one run
  MaxScore,      \* bound: changes of the score in one run
  MaxEvents,     \* bound: positions of one run, and a change of the score as two
  MaxUpsets,     \* bound: saves by an organiser, losses of the websocket and
                 \* failed requests for a page, together
  MaxBacklog     \* bound: messages on their way when the server sends more

ASSUME FeedAssumption ==
  /\ PageSize \in Nat \ {0} /\ MaxRuns \in Nat /\ MaxPositions \in Nat \ {0}
  /\ MaxScore \in Nat /\ MaxEvents \in Nat /\ MaxUpsets \in Nat /\ MaxBacklog \in Nat

VARIABLES
  filtered,  \* the page was opened with contestantIds
  listed,    \* the contestant was in the task when the page fetched it
  exists,    \* the contestant is in the database
  run,       \* its track_version
  running,   \* a calculator runs for it
  recorded,  \* positions of this run in the database
  sent,      \* positions of this run passed to the websocket group
  score,     \* contestanttrack.score
  link,      \* the websocket: "unused" before initiateSession, "down" or "open"
  upsets,    \* saves by an organiser, losses and failed requests so far
  inbox,     \* messages on their way to the browser
  known,     \* state.contestants has the contestant: its track is mounted
  loading,   \* initialLoadingContestantData
  fetching,  \* fetchingContestantTracks
  cursor,    \* nextPositions of contestantPositions
  shown,     \* contestantData.contestant_track.score
  points,    \* the points of the full track on the map, in drawing order
  pages,     \* requests for a page of the track that are under way
  scores,    \* requests for score_data that are under way
  failed,    \* history: a request for a page has failed
  trust,     \* history: "none" once something happened that may leave a gap in
             \* the mounted track, "exposed" while it is not loading and yet a
             \* page is under way that a message may overtake
  viewed     \* history: the run that the mounted track was made for

server == <<exists, run, running, recorded, sent, score>>
socket == <<link, upsets, inbox>>
store == <<known, loading, fetching, cursor, shown>>
fetches == <<pages, scores, failed>>
history == <<trust, viewed>>
feed_vars == <<filtered, listed, server, socket, store, points, fetches, history>>

\* contestantPositions without the contestant, and a nextPositions of null
Undefined == -2
Null == -1

Position == [run : 0..MaxRuns, time : 1..MaxPositions]
Message == [type : {"positions", "score", "contestant", "delete"},
            run : 0..MaxRuns, from : 0..MaxPositions, upto : 0..MaxPositions,
            score : 0..MaxScore]
\* A request's answer is made when the server reads the database: run is -1 before.
PageRequest == [id : Nat, from : 0..MaxPositions, run : -1..MaxRuns,
                upto : 0..MaxPositions, next : {Null} \cup 0..MaxPositions]
ScoreRequest == [id : Nat, score : -1..MaxScore]

-----------------------------------------------------------------------------
(* What the server sends. A message with nobody to receive it is gone.     *)

PositionsMessage(from, upto) ==
  [type |-> "positions", run |-> run, from |-> from, upto |-> upto, score |-> 0]
ScoreMessage(s) ==
  [type |-> "score", run |-> 0, from |-> 0, upto |-> 0, score |-> s]
ContestantMessage(r) ==
  [type |-> "contestant", run |-> r, from |-> 0, upto |-> 0, score |-> 0]
DeleteMessage ==
  [type |-> "delete", run |-> 0, from |-> 0, upto |-> 0, score |-> 0]

HasRoom == Len(inbox) <= MaxBacklog
Send(messages) ==
  inbox' = IF link = "open" THEN inbox \o messages ELSE inbox
Distrust(doubt) == trust' = IF doubt THEN "none" ELSE trust

Create ==
  /\ ~exists /\ HasRoom
  /\ exists' = TRUE
  /\ Send(<<ContestantMessage(run)>>)
  /\ UNCHANGED <<filtered, listed, run, running, recorded, sent, score, link,
                 upsets, store, points, fetches, history>>

EditContestant ==
  /\ exists /\ upsets < MaxUpsets /\ HasRoom
  /\ upsets' = upsets + 1
  /\ Send(<<ContestantMessage(run)>>)
  /\ UNCHANGED <<filtered, listed, server, link, store, points, fetches, history>>

\* A new calculator clears the last track and score, saves the new version,
\* which sends the contestant, and tells every page to drop the contestant and
\* to add it again. (The score it sends in between is for the dropped one.)
Started(unsent) ==
  /\ exists /\ ~running /\ run < MaxRuns /\ HasRoom
  /\ run' = run + 1 /\ running' = TRUE
  /\ recorded' = 0 /\ sent' = unsent /\ score' = 0
  /\ Send(<<ContestantMessage(run + 1), DeleteMessage, ContestantMessage(run + 1)>>)
  /\ Distrust(link # "open")
  /\ UNCHANGED <<filtered, listed, exists, link, upsets, store, points, fetches, viewed>>

StartRun_KeepsTrack == Started(sent)
StartRun == Started(0)

SavePositions ==
  /\ running /\ recorded < MaxPositions /\ recorded + 2 * score < MaxEvents
  /\ recorded' = recorded + 1
  /\ UNCHANGED <<filtered, listed, exists, run, running, sent, score, socket,
                 store, points, fetches, history>>

TransmitPositions ==
  /\ running /\ sent < recorded /\ HasRoom
  /\ sent' = recorded
  /\ Send(<<PositionsMessage(sent, recorded)>>)
  /\ Distrust(link # "open")
  /\ UNCHANGED <<filtered, listed, exists, run, running, recorded, score, link,
                 upsets, store, points, fetches, viewed>>

UpdateScore ==
  /\ running /\ score < MaxScore /\ recorded + 2 * score + 2 <= MaxEvents /\ HasRoom
  /\ score' = score + 1
  /\ Send(<<ScoreMessage(score + 1)>>)
  /\ UNCHANGED <<filtered, listed, exists, run, running, recorded, sent, link,
                 upsets, store, points, fetches, history>>

\* Every so often while it runs the calculator sends the score again.
RefreshScores ==
  /\ running /\ inbox = <<>> /\ link = "open"
  /\ Send(<<ScoreMessage(score)>>)
  /\ UNCHANGED <<filtered, listed, server, link, upsets, store, points, fetches, history>>

FinishRun ==
  /\ running /\ sent = recorded
  /\ running' = FALSE
  /\ UNCHANGED <<filtered, listed, exists, run, recorded, sent, score, socket,
                 store, points, fetches, history>>

-----------------------------------------------------------------------------
(* Requests. The track component asks for the first page and the score when *)
(* it is mounted, and for the next page after any update that leaves one to *)
(* ask for and none under way.                                              *)

FreeId(rs) == CHOOSE i \in 1..(Cardinality(rs) + 1) : \A r \in rs : r.id # i
WithPage(ps, from) ==
  ps \cup {[id |-> FreeId(ps), from |-> from, run |-> -1, upto |-> 0, next |-> Null]}
WithScore == scores \cup {[id |-> FreeId(scores), score |-> -1]}

\* fetchInitialTracks does nothing when the last page of the contestant is there.
Mount(c) ==
  /\ known' = TRUE /\ points' = <<>>
  /\ cursor' = c
  /\ pages' = CASE c = Null -> pages
                [] c = Undefined -> WithPage(pages, 0)
                [] OTHER -> WithPage(pages, c)
  /\ fetching' = (fetching \/ c # Null)
  /\ scores' = WithScore

\* componentDidUpdate, when the store comes to hold cursor c and fetching flag f
Update(c, f, ps) ==
  LET more == known /\ c >= 0 /\ ~f
  IN  /\ cursor' = c
      /\ fetching' = (f \/ more)
      /\ pages' = IF more THEN WithPage(ps, c) ELSE ps

LastTime(d) == IF d = <<>> THEN 0 ELSE d[Len(d)].time

\* The points a list of positions adds: those newer than the last one drawn.
RenderPositions(r, from, upto) ==
  LET first == IF LastTime(points) > from THEN LastTime(points) ELSE from
      newer == [i \in 1..(upto - first) |-> [run |-> r, time |-> first + i]]
  IN  points' = IF known THEN points \o newer ELSE points

\* The task arrives: every contestant in it is loading, and the socket is opened.
TaskLoaded ==
  /\ link = "unused"
  /\ link' = "down"
  /\ listed' = exists
  /\ IF exists
     THEN /\ Mount(Undefined)
          /\ loading' = TRUE /\ viewed' = run
     ELSE UNCHANGED <<known, loading, fetching, cursor, points, pages, scores, viewed>>
  /\ trust' = "full" /\ shown' = 0
  /\ UNCHANGED <<filtered, server, upsets, inbox, failed>>

\* What the page leaves of the trust in the track, when it has been delivered
AfterPage(p) ==
  IF p.run # viewed THEN "none"
  ELSE IF trust = "exposed" /\ pages' = {} THEN "full"
  ELSE trust

AnswerPage ==
  \E p \in pages :
    LET upto == IF p.from + PageSize < recorded THEN p.from + PageSize ELSE recorded
        last == IF upto > p.from THEN upto ELSE p.from
    IN  /\ p.run = -1
        /\ pages' = (pages \ {p}) \cup
             {[id |-> p.id, from |-> p.from, run |-> run, upto |-> last,
               next |-> IF last < recorded THEN last ELSE Null]}
        /\ UNCHANGED <<filtered, listed, server, socket, store, points, scores, failed, history>>

\* FETCH_INITIAL_TRACKS_SUCCESS, whoever asked
PageDelivered(p, stillLoading, stillFetching) ==
  /\ p.run >= 0
  /\ loading' = stillLoading
  /\ RenderPositions(p.run, p.from, p.upto)
  /\ Update(p.next, stillFetching, pages \ {p})
  /\ trust' = AfterPage(p)
  /\ UNCHANGED <<filtered, listed, server, socket, known, shown, scores, failed, viewed>>

DeliverPage_FlagEarly == \E p \in pages : PageDelivered(p, FALSE, FALSE)
DeliverPage_StillFetching == \E p \in pages : PageDelivered(p, p.next # Null, fetching)
DeliverPage == \E p \in pages : PageDelivered(p, p.next # Null, FALSE)

\* FETCH_INITIAL_TRACKS_FAILED changes nothing: the fetching flag stays.
FailPage ==
  \E p \in pages :
    /\ upsets < MaxUpsets /\ upsets' = upsets + 1
    /\ pages' = pages \ {p}
    /\ failed' = TRUE
    /\ Distrust(TRUE)
    /\ UNCHANGED <<filtered, listed, server, link, inbox, store, points, scores,
                   viewed>>

AnswerScore ==
  \E q \in scores :
    /\ q.score = -1
    /\ scores' = (scores \ {q}) \cup {[q EXCEPT !.score = score]}
    /\ UNCHANGED <<filtered, listed, server, socket, store, points, pages, failed, history>>

\* GET_CONTESTANT_DATA_SUCCESSFUL: the list of positions is replaced, by an
\* empty one if the message has none, and no page is left to fetch.
ContestantData(s) ==
  IF known
  THEN shown' = s /\ Update(Null, fetching, pages)
  ELSE UNCHANGED <<shown, cursor, fetching, pages>>

\* A request for the score that fails is one whose answer never comes.
DeliverScore ==
  \E q \in scores :
    /\ q.score >= 0
    /\ scores' = scores \ {q}
    /\ ContestantData(q.score)
    /\ UNCHANGED <<filtered, listed, server, socket, known, loading, points, failed, history>>

-----------------------------------------------------------------------------
(* The websocket. initiateSession asks for it; when it closes, a timer     *)
(* tries again, and nothing asks for what was sent in between. The wait    *)
(* for the timer and for the handshake are one.                            *)

Connect ==
  /\ link = "down"
  /\ link' = "open"
  /\ UNCHANGED <<filtered, listed, server, upsets, inbox, store, points, fetches, history>>

Lose ==
  /\ link = "open" /\ upsets < MaxUpsets
  /\ link' = "down" /\ upsets' = upsets + 1
  /\ inbox' = <<>>
  /\ Distrust(inbox # <<>>)
  /\ UNCHANGED <<filtered, listed, server, store, points, fetches, viewed>>

Arrives(type) == inbox # <<>> /\ inbox[1].type = type
Take == inbox' = Tail(inbox) /\ UNCHANGED <<link, upsets>>

\* NEW_CONTESTANT empties the contestant's data. A track that is mounted stays
\* mounted.
NewContestant(nowLoading) ==
  /\ shown' = 0 /\ loading' = nowLoading
  /\ IF known
     THEN /\ trust' = IF trust = "full" /\ pages # {} THEN "exposed" ELSE trust
          /\ UNCHANGED <<known, cursor, fetching, points, pages, scores, viewed>>
     ELSE /\ Mount(cursor)
          /\ viewed' = inbox[1].run
          /\ trust' = IF pages = {} /\ cursor = Undefined THEN "exposed" ELSE "none"

\* A page opened with contestantIds takes the message for track data without a
\* contestant_id, and the handler raises.
ReceiveContestant_Loading ==
  /\ Arrives("contestant") /\ Take
  /\ IF filtered THEN UNCHANGED <<store, points, pages, scores, history>>
                 ELSE NewContestant(TRUE)
  /\ UNCHANGED <<filtered, listed, server, failed>>
ReceiveContestant ==
  /\ Arrives("contestant") /\ Take
  /\ IF filtered THEN UNCHANGED <<store, points, pages, scores, history>>
                 ELSE NewContestant(FALSE)
  /\ UNCHANGED <<filtered, listed, server, failed>>

ReceiveDelete ==
  /\ Arrives("delete") /\ Take
  /\ known' = FALSE /\ loading' = FALSE /\ cursor' = Undefined
  /\ shown' = 0 /\ points' = <<>>
  /\ trust' = "none" /\ viewed' = 0
  /\ UNCHANGED <<filtered, listed, server, fetching, fetches>>

\* While the track is loading a message is put aside, and never taken up
\* again: the test for messages put aside looks for the id among them. For a
\* contestant who was not in the task when the page was opened the same test
\* raises. What is left goes to the store.
Reaches == listed /\ ~loading

ReceiveScore ==
  /\ Arrives("score") /\ Take
  /\ IF Reaches THEN ContestantData(inbox[1].score)
                ELSE UNCHANGED <<shown, cursor, fetching, pages>>
  /\ UNCHANGED <<filtered, listed, server, known, loading, points, scores, failed, history>>

ReceivePositions ==
  /\ Arrives("positions") /\ Take
  /\ IF Reaches
     THEN /\ ContestantData(shown)
          /\ RenderPositions(inbox[1].run, inbox[1].from, inbox[1].upto)
          /\ Distrust(trust = "exposed")
     ELSE /\ Distrust(TRUE)
          /\ UNCHANGED <<shown, cursor, fetching, points, pages>>
  /\ UNCHANGED <<filtered, listed, server, known, loading, scores, failed, viewed>>

-----------------------------------------------------------------------------

FeedInit ==
  /\ filtered \in BOOLEAN /\ exists \in BOOLEAN
  /\ listed = FALSE
  /\ run = 0 /\ running = FALSE
  /\ recorded \in IF exists THEN {0, MaxPositions - 1} ELSE {0}
  /\ sent = recorded /\ score = 0
  /\ link = "unused" /\ upsets = 0 /\ inbox = <<>>
  /\ known = FALSE /\ loading = FALSE /\ fetching = FALSE
  /\ cursor = Undefined /\ shown = 0
  /\ points = <<>>
  /\ pages = {} /\ scores = {} /\ failed = FALSE
  /\ trust = "none" /\ viewed = 0

Server == \/ Create \/ EditContestant \/ StartRun \/ FinishRun
          \/ SavePositions \/ TransmitPositions \/ UpdateScore \/ RefreshScores
Requests == \/ TaskLoaded
            \/ AnswerPage \/ DeliverPage \/ FailPage
            \/ AnswerScore \/ DeliverScore
Receive == \/ ReceiveContestant \/ ReceiveDelete \/ ReceiveScore \/ ReceivePositions

FeedNext == Server \/ Requests \/ Connect \/ Lose \/ Receive

\* The server answers, the browser handles what it is given and tries the
\* socket again, and a running calculator keeps sending the score.
Fairness ==
  /\ WF_feed_vars(AnswerPage) /\ WF_feed_vars(DeliverPage)
  /\ WF_feed_vars(Connect) /\ WF_feed_vars(Receive)
  /\ WF_feed_vars(RefreshScores)

FeedSpec == FeedInit /\ [][FeedNext]_feed_vars /\ Fairness

-----------------------------------------------------------------------------

\* Every variable has its type.
FeedTypeOK ==
  /\ {filtered, listed, exists, running, known, loading, fetching, failed}
       \subseteq BOOLEAN
  /\ run \in 0..MaxRuns /\ viewed \in 0..MaxRuns /\ trust \in {"full", "exposed", "none"}
  /\ recorded \in 0..MaxPositions /\ sent \in 0..recorded
  /\ {score, shown} \subseteq 0..MaxScore
  /\ upsets \in 0..MaxUpsets
  /\ link \in {"unused", "down", "open"}
  /\ inbox \in Seq(Message)
  /\ cursor \in {Undefined, Null} \cup 0..MaxPositions
  /\ points \in Seq(Position)
  /\ pages \subseteq PageRequest /\ scores \subseteq ScoreRequest

\* The track on the map is the run from its first position on, in order, each
\* position once, however pages and messages interleave, unless one of five
\* things happened to it since it was mounted: a message was sent while the
\* socket was down, or arrived while the pages were loading; a contestant
\* message cleared the loading flag and positions overtook a page; a
\* page asked for or answered before a new run came into the track of that run;
\* or a page request failed.
NoGapWithoutCause ==
  known /\ trust # "none" =>
    \A i \in 1..Len(points) : points[i] = [run |-> viewed, time |-> i]

\* A track stops loading, after which the map shows it and live data reaches
\* it, unless a page request fails: after that nothing asks again.
LoadingEnds == (known /\ loading) ~> (~loading \/ failed)

\* What refresh_scores is for: while the calculator runs, the socket is up and
\* the page knows the contestant, the score on the page becomes the contestant's
\* score and stays so, whatever messages were lost before, whatever old answer
\* overwrote it, and after a contestant message has emptied it. It does not for
\* a contestant added after the page was opened, or once a page of the track
\* could not be fetched.
Watching == link = "open" /\ running /\ known /\ listed /\ ~failed
ScoreCatchesUp == <>[]Watching => <>[](shown = score)

=============================================================================
