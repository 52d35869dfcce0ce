------------------------- MODULE ResultsTableProofs -------------------------
(***************************************************************************)
(* Proofs about ResultsTable, for any number of pages, tasks, requests and *)
(* lists: the types of its variables; that a connected page with nothing   *)
(* on its way shows what is stored, unless it was overtaken; and that the  *)
(* order stored in the end is the one the users asked for.                 *)
(*                                                                         *)
(* The types come first (TableTypes), then the invariant of what each page *)
(* will come to show (ShowInv), and then, after lemmas on columns, that of *)
(* the order while moves, an addition or a deletion are half done          *)
(* (OrderInv). Each has a lemma per action.                                *)
(***************************************************************************)
EXTENDS ResultsTable, ListLemmas

-----------------------------------------------------------------------------
(* What a table is, and what the model's operators make of one.            *)

Tables(n) == UNION {[D -> Int] : D \in SUBSET (1..(n - 1))}

\* What the elements of a set of tables are.
LEMMA TablesAre ==
  ASSUME NEW n \in Nat, NEW f \in Tables(n)
  PROVE  /\ DOMAIN f \subseteq 1..(n - 1) /\ f \in [DOMAIN f -> Int]
         /\ f = [u \in DOMAIN f |-> f[u]]
BY DEF Tables

\* A function from some of the tasks to numbers is a table.
LEMMA TableBy ==
  ASSUME NEW n \in Nat, NEW D \in SUBSET (1..(n - 1)), NEW f \in [D -> Int]
  PROVE  f \in Tables(n)
BY DEF Tables

\* A table stays one when more tasks have been created.
LEMMA TablesGrow ==
  ASSUME NEW n \in Nat, NEW m \in Nat, n <= m
  PROVE  Tables(n) \subseteq Tables(m)
<1>1. SUFFICES ASSUME NEW f \in Tables(n) PROVE f \in Tables(m)
  OBVIOUS
<1>2. DOMAIN f \subseteq 1..(n - 1) /\ f \in [DOMAIN f -> Int]
  BY TablesAre
<1>3. 1..(n - 1) \subseteq 1..(m - 1)
  OBVIOUS
<1>4. DOMAIN f \in SUBSET (1..(m - 1))
  BY <1>2, <1>3
<1> QED BY <1>2, <1>4, TableBy

\* The empty table.
LEMMA NoTable ==
  ASSUME NEW n \in Nat
  PROVE  <<>> \in Tables(n)
<1>1. <<>> \in [{} -> Int]
  OBVIOUS
<1>2. {} \in SUBSET (1..(n - 1))
  OBVIOUS
<1> QED BY <1>1, <1>2, TableBy

\* A row that is stored and one that is taken away: what becomes of the table f.
Stores(g, f, t, i) ==
  DOMAIN g = DOMAIN f \cup {t} /\ g[t] = i /\ \A u \in DOMAIN f : u # t => g[u] = f[u]
Removes(g, f, t) == DOMAIN g = DOMAIN f \ {t} /\ \A u \in DOMAIN f \ {t} : g[u] = f[u]

\* A row is stored.
LEMMA WithIs ==
  ASSUME NEW n \in Nat, NEW f \in Tables(n), NEW t \in 1..(n - 1), NEW i \in Int
  PROVE  With(f, t, i) \in Tables(n) /\ Stores(With(f, t, i), f, t, i)
<1>1. DOMAIN f \subseteq 1..(n - 1) /\ f \in [DOMAIN f -> Int]
  BY TablesAre
<1> DEFINE D == DOMAIN f \cup {t}
<1>2. D \in SUBSET (1..(n - 1))
  BY <1>1
<1>3. With(f, t, i) \in [D -> Int]
  BY <1>1 DEF With
<1>4. With(f, t, i) \in Tables(n)
  BY <1>2, <1>3, TableBy
<1> QED BY <1>4, <1>1 DEF With, Stores

\* A row is taken away.
LEMMA WithoutIs ==
  ASSUME NEW n \in Nat, NEW f \in Tables(n), NEW t
  PROVE  Without(f, t) \in Tables(n) /\ Removes(Without(f, t), f, t)
<1>1. DOMAIN f \subseteq 1..(n - 1) /\ f \in [DOMAIN f -> Int]
  BY TablesAre
<1> DEFINE D == DOMAIN f \ {t}
<1>2. D \in SUBSET (1..(n - 1))
  BY <1>1
<1>3. Without(f, t) \in [D -> Int]
  BY <1>1 DEF Without
<1>4. Without(f, t) \in Tables(n)
  BY <1>2, <1>3, TableBy
<1> QED BY <1>4, <1>1 DEF Without, Removes

\* Two rows whose indexes are exchanged.
Exchanges(g, f, t, u, d) ==
  /\ DOMAIN g = DOMAIN f /\ g[t] = f[t] + d /\ g[u] = f[u] - d
  /\ \A v \in DOMAIN f : v \notin {t, u} => g[v] = f[v]

\* Two rows exchange their indexes.
LEMMA ExchangedIs ==
  ASSUME NEW n \in Nat, NEW f \in Tables(n), NEW t \in DOMAIN f, NEW u \in DOMAIN f,
         NEW d \in Int, t # u
  PROVE  Exchanged(f, t, u, d) \in Tables(n) /\ Exchanges(Exchanged(f, t, u, d), f, t, u, d)
<1>1. DOMAIN f \subseteq 1..(n - 1) /\ f \in [DOMAIN f -> Int]
  BY TablesAre
<1>2. t \in 1..(n - 1) /\ u \in 1..(n - 1) /\ f[t] + d \in Int /\ f[u] - d \in Int
  BY <1>1
<1> DEFINE g == With(f, t, f[t] + d)
           h == With(g, u, f[u] - d)
<1>3. g \in Tables(n) /\ Stores(g, f, t, f[t] + d)
  BY <1>2, WithIs
<1> HIDE DEF g
<1>4. h \in Tables(n) /\ Stores(h, g, u, f[u] - d)
  BY <1>2, <1>3, WithIs
<1>5. Exchanged(f, t, u, d) = h
  BY DEF Exchanged, g, h
<1> HIDE DEF h
<1>6. Exchanges(h, f, t, u, d)
  BY <1>3, <1>4 DEF Stores, Exchanges
<1> QED BY <1>4, <1>5, <1>6

\* A table with a row has a highest index.
LEMMA HighestExists ==
  ASSUME NEW n \in Nat, NEW f \in Tables(n), DOMAIN f # {}
  PROVE  \E u \in DOMAIN f : \A v \in DOMAIN f : f[v] <= f[u]
<1>1. DOMAIN f \subseteq 1..(n - 1) /\ f \in [DOMAIN f -> Int]
  BY TablesAre
<1> DEFINE First(m) == {v \in DOMAIN f : v <= m}
           T == {m \in 0..n : First(m) = {}
                              \/ \E u \in First(m) : \A v \in First(m) : f[v] <= f[u]}
<1>2. 0 \in T
  BY <1>1
<1>3. ASSUME NEW m \in 1..n, m - 1 \in T PROVE m \in T
  <2>1. m \in 0..n /\ \A v \in DOMAIN f : v <= m <=> (v <= m - 1 \/ v = m)
    BY <1>1
  <2>2. CASE m \notin DOMAIN f
    <3>1. First(m) = First(m - 1)
      BY <2>1, <2>2
    <3> HIDE DEF First
    <3> QED BY <2>1, <3>1, <1>3
  <2>3. CASE m \in DOMAIN f
    <3>1. First(m) = First(m - 1) \cup {m}
      BY <2>1, <2>3
    <3>2. f[m] \in Int /\ \A v \in First(m - 1) : f[v] \in Int
      BY <1>1, <2>3
    <3> HIDE DEF First
    <3>3. CASE First(m - 1) = {}
      BY <2>1, <3>1, <3>2, <3>3
    <3>4. CASE First(m - 1) # {}
      <4>1. PICK u \in First(m - 1) : \A v \in First(m - 1) : f[v] <= f[u]
        BY <1>3, <3>4
      <4>2. CASE f[m] <= f[u]
        BY <4>1, <4>2, <2>1, <3>1, <3>2
      <4>3. CASE ~(f[m] <= f[u])
        <5>1. f[u] <= f[m] /\ f[m] <= f[m]
          BY <4>3, <4>1, <3>2
        <5>2. \A v \in First(m - 1) : f[v] <= f[m]
          BY <5>1, <4>1, <3>2
        <5> QED BY <5>1, <5>2, <2>1, <3>1
      <4> QED BY <4>2, <4>3
    <3> QED BY <3>3, <3>4
  <2> QED BY <2>2, <2>3
<1> HIDE DEF T
<1>4. 0..n \subseteq T
  BY <1>2, <1>3, UpTo
<1>5. n \in T
  BY <1>4
<1>6. First(n) = DOMAIN f
  BY <1>1
<1> HIDE DEF First
<1> QED BY <1>5, <1>6 DEF T

\* update_task_index: the new index is above all others.
LEMMA NewIndexIs ==
  ASSUME NEW n \in Nat, NEW f \in Tables(n), DOMAIN f # {}
  PROVE  NewIndex(f) \in Int /\ \A u \in DOMAIN f : f[u] < NewIndex(f)
<1>1. PICK u \in DOMAIN f : \A v \in DOMAIN f : f[v] <= f[u]
  BY HighestExists
<1>2. \A v \in DOMAIN f : f[v] \in Int
  BY TablesAre
<1>3. f[u] \in Range(f) /\ \A j \in Range(f) : j <= f[u]
  BY <1>1 DEF Range
<1> DEFINE i == CHOOSE i \in Range(f) : \A j \in Range(f) : j <= i
<1>4. i \in Range(f) /\ \A j \in Range(f) : j <= i
  BY <1>3
<1> HIDE DEF i
<1>5. i \in Int /\ \A v \in DOMAIN f : f[v] <= i
  BY <1>4, <1>2 DEF Range
<1>6. NewIndex(f) = 1 + i
  BY DEF NewIndex, i
<1> QED BY <1>2, <1>5, <1>6

\* The sets of requests that go out together are counted.
LEMMA FewAreCounted ==
  ASSUME NEW a, NEW b
  PROVE  Cardinality({a}) \in Nat /\ Cardinality({a, b}) \in Nat
<1>1. IsFiniteSet({})
  BY FS_EmptySet
<1>2. IsFiniteSet({} \cup {a})
  BY <1>1, FS_AddElement
<1>3. IsFiniteSet({a} \cup {b})
  BY <1>2, FS_AddElement
<1>4. {a} \cup {b} = {a, b} /\ {} \cup {a} = {a}
  OBVIOUS
<1> QED BY <1>2, <1>3, <1>4, FS_CardinalityType

-----------------------------------------------------------------------------
(* The kinds of the variables.                                             *)

Kinds == {"put", "post", "delete", "hello"}
Lists(n) == [index : Tables(n), version : Nat, torn : BOOLEAN]
Jobs(n) == [id : Int, page : Pages, kind : Kinds, task : 0..(n - 1), index : Int,
            stage : Stages, list : Lists(n)]
Messages(n) == [index : Tables(n), late : BOOLEAN]
Forms(n) == [task : 0..(n - 1), index : Int]

\* The stages that a job of each kind is in, and the task that it is about.
JobFits(j) ==
  /\ j.kind \in {"put", "delete"} => j.task # 0
  /\ j.kind = "post" /\ j.stage # "sent" => j.task # 0
  /\ j.stage = "found" => j.kind \in {"put", "delete"}
  /\ j.stage \in {"numbering", "counted", "inserted", "listed"} => j.kind \in {"put", "post"}
  /\ j.stage = "deleting" => j.kind = "delete"
  /\ j.kind = "hello" => j.stage \in {"stored", "read"}

RowTypes ==
  /\ nextId \in Nat \ {0} /\ stored \in Tables(nextId)
  /\ version \in Nat /\ sent \in Nat /\ sent <= version
  /\ clicks \in Nat /\ requests \in Nat /\ upsets \in Nat
PageTypes ==
  /\ view \in [Pages -> Tables(nextId)]
  /\ form \in [Pages -> Forms(nextId)]
  /\ \A p \in Pages : form[p].task = 0 => form[p] = NoForm
  /\ inbox \in [Pages -> Seq(Messages(nextId))]
TruthTypes ==
  open \in [Pages -> BOOLEAN] /\ behind \in [Pages -> BOOLEAN] /\ doubt \in BOOLEAN
JobTypes ==
  jobs \subseteq Jobs(nextId) /\ \A j \in jobs : JobFits(j) /\ j.list.version <= version
TableTypes == RowTypes /\ PageTypes /\ TruthTypes /\ JobTypes

\* They say what TypeOK does.
LEMMA TableTypesSay == TableTypes => TypeOK
<1> SUFFICES ASSUME TableTypes PROVE TypeOK
  OBVIOUS
<1> DEFINE n == nextId
<1>1. n \in Nat \ {0} /\ stored \in Tables(n)
  BY DEF TableTypes, RowTypes, PageTypes, TruthTypes, JobTypes
<1> HIDE DEF n
<1>2. ASSUME NEW f \in Tables(n) PROVE DOMAIN f \subseteq 1..(n - 1) /\ Range(f) \subseteq Int
  <2>1. DOMAIN f \subseteq 1..(n - 1) /\ f \in [DOMAIN f -> Int]
    BY <1>1, TablesAre
  <2> QED BY <2>1 DEF Range
<1>3. ASSUME NEW f \in Tables(n) PROVE IsList(f)
  BY <1>2 DEF IsList, n
<1>4. nextId \in Nat /\ IsList(stored)
  BY <1>1, <1>3 DEF n
<1>5. {version, sent, clicks, requests, upsets} \subseteq Nat /\ sent <= version
  BY DEF TableTypes, RowTypes, PageTypes, TruthTypes, JobTypes
<1>6. ASSUME NEW p \in Pages, NEW i \in DOMAIN inbox[p] PROVE IsList(inbox[p][i].index)
  <2>1. inbox[p] \in Seq(Messages(n))
    BY DEF TableTypes, RowTypes, PageTypes, TruthTypes, JobTypes, n
  <2>2. inbox[p][i] \in Messages(n)
    BY <2>1
  <2> QED BY <2>2, <1>3 DEF Messages
<1>7. \A p \in Pages : IsList(view[p])
  BY <1>3 DEF TableTypes, RowTypes, PageTypes, TruthTypes, JobTypes, n
<1>8. ASSUME NEW p \in Pages
      PROVE  form[p].task \in 0..(nextId - 1) /\ form[p].index \in Int
  <2>1. form[p] \in Forms(n)
    BY DEF TableTypes, RowTypes, PageTypes, TruthTypes, JobTypes, n
  <2> QED BY <2>1 DEF Forms, n
<1>9. open \in [Pages -> BOOLEAN] /\ behind \in [Pages -> BOOLEAN] /\ doubt \in BOOLEAN
  BY Zenon DEF TableTypes, RowTypes, PageTypes, TruthTypes, JobTypes
<1>10. ASSUME NEW j \in jobs
       PROVE  j.stage \in Stages /\ j.page \in Pages /\ j.task \in 0..(nextId - 1)
  <2>1. j \in Jobs(n)
    BY DEF TableTypes, RowTypes, PageTypes, TruthTypes, JobTypes, n
  <2> QED BY <2>1 DEF Jobs, n
<1> QED BY <1>4, <1>5, <1>6, <1>7, <1>8, <1>9, <1>10, Zenon DEF TypeOK

\* What a job is while it is in another stage.
LEMMA JobIs ==
  ASSUME NEW n \in Nat \ {0}, NEW p \in Pages, NEW k \in Kinds, NEW t \in 0..(n - 1), NEW i \in Int,
         NEW d \in Int
  PROVE  Job(p, k, t, i, d) \in Jobs(n) /\ Job(p, k, t, i, d).list.version = 0
<1>1. <<>> \in Tables(n)
  BY NoTable
<1>2. NoList \in Lists(n) /\ NoList.version = 0
  BY <1>1 DEF NoList, Lists
<1> HIDE DEF NoList
<1> QED BY <1>2 DEF Job, Jobs, Stages

\* A job that goes on is a job.
LEMMA AtIs ==
  ASSUME NEW n, NEW j \in Jobs(n), NEW s \in Stages
  PROVE  At(j, s) \in Jobs(n)
BY DEF At, Jobs

\* So is one that has read the list.
LEMMA ReadTasksIs ==
  ASSUME NEW n \in Nat, NEW j \in Jobs(n), stored \in Tables(n), version \in Nat
  PROVE  /\ ReadTasks(j) \in Jobs(n)
         /\ ReadTasks(j).list.version = version
<1> DEFINE f == IF j.kind = "delete" THEN Without(stored, j.task) ELSE stored
           l == [index |-> f, version |-> version, torn |-> Deleting \ {j} # {}]
<1>1. f \in Tables(n)
  BY WithoutIs
<1>2. l \in Lists(n) /\ l.version = version
  <2> HIDE DEF f
  <2> QED BY <1>1 DEF Lists
<1>3. ReadTasks(j) = [j EXCEPT !.list = l]
  BY DEF ReadTasks
<1> HIDE DEF l
<1>4. [j EXCEPT !.list = l] \in Jobs(n) /\ [j EXCEPT !.list = l].list = l
  BY <1>2 DEF Jobs
<1> QED BY <1>2, <1>3, <1>4

\* A request goes out: it is one of the jobs.
LEMMA SentTypes ==
  ASSUME TableTypes, NEW p \in Pages, NEW k \in {"put", "post", "delete"}, NEW t \in 0..(nextId - 1),
         NEW i \in Int, k # "post" => t # 0
  PROVE  LET j == Job(p, k, t, i, requests + 1)
         IN  j \in Jobs(nextId) /\ JobFits(j) /\ j.list.version <= version
<1> DEFINE n == nextId
           d == requests + 1
           j == Job(p, k, t, i, d)
<1>1. n \in Nat \ {0} /\ d \in Int /\ version \in Nat /\ k \in Kinds /\ t \in 0..(n - 1)
  BY DEF TableTypes, RowTypes, Kinds
<1> HIDE DEF n, d
<1>2. j \in Jobs(n) /\ j.list.version = 0
  BY <1>1, JobIs
<1>3. JobFits(j)
  BY <1>1 DEF JobFits, Job
<1> HIDE DEF j
<1>4. j.list.version <= version
  BY <1>1, <1>2
<1> QED BY <1>2, <1>3, <1>4 DEF j, d, n

\* One job becomes another: the jobs are of their kind if that one is.
LEMMA ToTypes ==
  ASSUME JobTypes, NEW j \in jobs, NEW k, To(j, k), UNCHANGED nextId, k \in Jobs(nextId), JobFits(k),
         k.list.version <= version', version \in Nat, version' \in Nat, version <= version',
         \A h \in jobs : h.list.version \in Nat, k.list.version \in Nat
  PROVE  JobTypes'
<1>1. jobs' \subseteq Jobs(nextId')
  BY DEF JobTypes, To
<1>2. ASSUME NEW h \in jobs' PROVE JobFits(h) /\ h.list.version <= version'
  <2>1. h = k \/ h \in jobs
    BY DEF To
  <2>2. CASE h \in jobs
    <3>1. JobFits(h) /\ h.list.version <= version /\ h.list.version \in Nat
      BY <2>2 DEF JobTypes
    <3> QED BY <3>1
  <2> QED BY <2>1, <2>2
<1> QED BY <1>1, <1>2 DEF JobTypes

\* What the types say of one job.
LEMMA JobTypesSay ==
  ASSUME TableTypes, NEW j \in jobs
  PROVE  /\ j \in Jobs(nextId) /\ JobFits(j) /\ nextId \in Nat \ {0}
         /\ j.list.version \in Nat /\ j.list.version <= version /\ version \in Nat
         /\ j.page \in Pages /\ j.task \in 0..(nextId - 1) /\ j.index \in Int
         /\ j.stage \in Stages /\ j.kind \in Kinds /\ j.list.index \in Tables(nextId)
         /\ j.list.torn \in BOOLEAN
<1>1. j \in Jobs(nextId) /\ JobFits(j) /\ nextId \in Nat \ {0} /\ j.list.version <= version /\ version \in Nat
  BY DEF TableTypes, RowTypes, JobTypes
<1>2. /\ j.page \in Pages /\ j.task \in 0..(nextId - 1) /\ j.index \in Int
      /\ j.stage \in Stages /\ j.kind \in Kinds /\ j.list \in Lists(nextId)
  BY <1>1 DEF Jobs
<1>3. j.list.index \in Tables(nextId) /\ j.list.torn \in BOOLEAN /\ j.list.version \in Nat
  BY <1>2 DEF Lists
<1> QED BY <1>1, <1>2, <1>3, Zenon

\* A job goes on to another stage.
LEMMA StageTypes ==
  ASSUME TableTypes, NEW j \in jobs, NEW s \in Stages, JobFits(At(j, s)), To(j, At(j, s)),
         UNCHANGED nextId, version' \in Nat, version <= version'
  PROVE  JobTypes'
<1> DEFINE k == At(j, s)
<1>1. /\ j \in Jobs(nextId) /\ j.list.version \in Nat /\ j.list.version <= version
      /\ version \in Nat
  BY JobTypesSay
<1>2. k \in Jobs(nextId)
  BY <1>1, AtIs
<1>3. k.list = j.list
  BY <1>1 DEF At, Jobs
<1>4. \A h \in jobs : h.list.version \in Nat
  BY JobTypesSay
<1>5. JobFits(k) /\ To(j, k)
  OBVIOUS
<1> HIDE DEF k
<1>6. k.list.version <= version' /\ k.list.version \in Nat
  BY <1>1, <1>3
<1>7. JobTypes
  BY DEF TableTypes
<1> QED BY <1>1, <1>2, <1>4, <1>5, <1>6, <1>7, ToTypes

\* New requests go out.
LEMMA MoreJobs ==
  ASSUME TableTypes, NEW new, jobs' = jobs \cup new, UNCHANGED <<nextId, version>>,
         \A j \in new : j \in Jobs(nextId) /\ JobFits(j) /\ j.list.version <= version
  PROVE  JobTypes'
<1>1. nextId' = nextId /\ version' = version /\ JobTypes
  BY DEF TableTypes
<1> QED BY <1>1 DEF JobTypes

\* The parts of the types that a step leaves alone.
LEMMA JobsStay ==
  ASSUME TableTypes, UNCHANGED <<nextId, version, jobs>>
  PROVE  JobTypes'
BY DEF TableTypes, JobTypes

\* The types of what a step leaves alone hold on.
LEMMA RowsStay ==
  ASSUME TableTypes, UNCHANGED server, clicks' \in Nat, requests' \in Nat, upsets' \in Nat
  PROVE  RowTypes'
BY DEF TableTypes, RowTypes, server

\* Those of the pages.
LEMMA PagesStay ==
  ASSUME TableTypes, UNCHANGED <<nextId, form, inbox>>, view' \in [Pages -> Tables(nextId)]
  PROVE  PageTypes'
BY DEF TableTypes, PageTypes

\* Those of the history.
LEMMA TruthsStay ==
  ASSUME TableTypes, UNCHANGED <<open, behind>>, doubt' \in BOOLEAN
  PROVE  TruthTypes'
<1>1. open \in [Pages -> BOOLEAN] /\ behind \in [Pages -> BOOLEAN]
  BY Zenon DEF TableTypes, TruthTypes
<1>2. open' = open /\ behind' = behind
  OBVIOUS
<1> QED BY <1>1, <1>2, Zenon DEF TruthTypes

\* They do when one page falls behind or catches up.
LEMMA BehindStays ==
  ASSUME TableTypes, UNCHANGED open, NEW p \in Pages, NEW b \in BOOLEAN,
         behind' = [behind EXCEPT ![p] = b], doubt' \in BOOLEAN
  PROVE  TruthTypes'
<1>1. open \in [Pages -> BOOLEAN] /\ behind \in [Pages -> BOOLEAN]
  BY Zenon DEF TableTypes, TruthTypes
<1>2. open' = open
  OBVIOUS
<1>3. behind' \in [Pages -> BOOLEAN]
  BY <1>1
<1> QED BY <1>1, <1>2, <1>3, Zenon DEF TruthTypes

\* What a page shows is a table, and what is in it has been created.
LEMMA ViewIs ==
  ASSUME TableTypes, NEW p \in Pages
  PROVE  /\ view[p] \in Tables(nextId) /\ nextId \in Nat \ {0}
         /\ \A t \in DOMAIN view[p] : t \in 1..(nextId - 1) /\ view[p][t] \in Int
<1>1. view[p] \in Tables(nextId) /\ nextId \in Nat
  BY DEF TableTypes, RowTypes, PageTypes
<1>2. DOMAIN view[p] \subseteq 1..(nextId - 1) /\ view[p] \in [DOMAIN view[p] -> Int]
  BY <1>1, TablesAre
<1>3. nextId \in Nat \ {0}
  BY DEF TableTypes, RowTypes
<1> QED BY <1>1, <1>2, <1>3

\* The types when a change goes out.
LEMMA SendsOutTypes ==
  ASSUME TableTypes, NEW p \in Pages, NEW new, SendsOut(p, new), Cardinality(new) \in Nat,
         UNCHANGED <<form, behind>>, view' \in [Pages -> Tables(nextId)],
         \A j \in new : j \in Jobs(nextId) /\ JobFits(j) /\ j.list.version <= version
  PROVE  TableTypes'
<1>1. /\ clicks' = clicks + 1 /\ requests' = requests + Cardinality(new)
      /\ jobs' = jobs \cup new /\ UNCHANGED <<open, inbox, upsets>>
      /\ UNCHANGED server /\ UNCHANGED <<nextId, version>>
  BY Zenon DEF SendsOut, server
<1>2. clicks \in Nat /\ requests \in Nat /\ upsets \in Nat
  BY DEF TableTypes, RowTypes
<1>3. clicks' \in Nat /\ requests' \in Nat /\ upsets' \in Nat
  BY <1>1, <1>2
<1>4. RowTypes'
  BY <1>1, <1>3, RowsStay
<1>5. PageTypes'
  BY <1>1, PagesStay
<1>6. doubt' \in BOOLEAN
  BY Zenon DEF SendsOut, TableTypes, TruthTypes
<1>7. TruthTypes'
  BY <1>1, <1>6, TruthsStay
<1>8. JobTypes'
  BY <1>1, MoreJobs
<1> QED BY <1>4, <1>5, <1>7, <1>8, Zenon DEF TableTypes

\* Each action keeps the types. First those of the pages,
LEMMA MoveTypes == TableTypes /\ Move => TableTypes'
<1> SUFFICES ASSUME TableTypes, Move PROVE TableTypes'
  OBVIOUS
<1>1. PICK p \in Pages, d \in {-1, 1} : \E t \in DOMAIN view[p], u \in DOMAIN view[p] :
        /\ view[p][u] = view[p][t] + d
        /\ view' = [view EXCEPT ![p] = Exchanged(@, t, u, d)]
        /\ SendsOut(p, {Job(p, "put", t, view'[p][t], requests + 1),
                        Job(p, "put", u, view'[p][u], requests + 1)})
        /\ UNCHANGED <<form, behind>>
  BY Zenon DEF Move
<1>2. PICK t \in DOMAIN view[p], u \in DOMAIN view[p] :
        /\ view[p][u] = view[p][t] + d
        /\ view' = [view EXCEPT ![p] = Exchanged(@, t, u, d)]
        /\ SendsOut(p, {Job(p, "put", t, view'[p][t], requests + 1),
                        Job(p, "put", u, view'[p][u], requests + 1)})
        /\ UNCHANGED <<form, behind>>
  BY <1>1
<1> DEFINE f == view[p]
           g == Exchanged(f, t, u, d)
           n == nextId
           new == {Job(p, "put", t, view'[p][t], requests + 1),
                   Job(p, "put", u, view'[p][u], requests + 1)}
<1>3. /\ f \in Tables(n) /\ n \in Nat \ {0} /\ t \in 1..(n - 1) /\ u \in 1..(n - 1)
      /\ f[t] \in Int /\ f[u] \in Int
  BY ViewIs
<1>4. t # u /\ d \in Int
  BY <1>2, <1>3
<1>5. t \in DOMAIN f /\ u \in DOMAIN f
  OBVIOUS
<1>6. view \in [Pages -> Tables(n)]
  BY DEF TableTypes, PageTypes
<1>7. view' = [view EXCEPT ![p] = g]
  BY <1>2
<1> HIDE DEF f, n
<1>8. g \in Tables(n) /\ Exchanges(g, f, t, u, d)
  BY <1>3, <1>4, <1>5, ExchangedIs
<1> HIDE DEF g
<1>9. view' \in [Pages -> Tables(n)] /\ view'[p] = g
  BY <1>6, <1>7, <1>8
<1>10. g[t] \in Int /\ g[u] \in Int
  BY <1>3, <1>4, <1>8 DEF Exchanges
<1>11. \A j \in new : j \in Jobs(n) /\ JobFits(j) /\ j.list.version <= version
  <2>1. t # 0 /\ u # 0 /\ t \in 0..(n - 1) /\ u \in 0..(n - 1)
    BY <1>3
  <2>2. ASSUME NEW v \in {t, u}
        PROVE  LET j == Job(p, "put", v, g[v], requests + 1)
               IN  j \in Jobs(nextId) /\ JobFits(j) /\ j.list.version <= version
    BY <2>1, <1>10, SentTypes DEF n
  <2> QED BY <2>2, <1>9 DEF n
<1>12. Cardinality(new) \in Nat
  BY FewAreCounted
<1>13. SendsOut(p, new) /\ UNCHANGED <<form, behind>>
  BY <1>2
<1> HIDE DEF new
<1> QED BY <1>9, <1>11, <1>12, <1>13, SendsOutTypes DEF n

LEMMA MoveRaisesTypes == TableTypes /\ MoveRaises => TableTypes'
<1> SUFFICES ASSUME TableTypes, MoveRaises PROVE TableTypes'
  OBVIOUS
<1>1. PICK p \in Pages, d \in {-1, 1} : \E t \in DOMAIN view[p] :
        /\ view' = [view EXCEPT ![p] = With(@, t, @[t] + d)]
        /\ behind' = [behind EXCEPT ![p] = TRUE]
        /\ clicks' = clicks + 1
        /\ UNCHANGED <<server, form, open, inbox, jobs, requests, upsets, asked, doubt>>
  BY Zenon DEF MoveRaises
<1>2. PICK t \in DOMAIN view[p] :
        /\ view' = [view EXCEPT ![p] = With(@, t, @[t] + d)]
        /\ behind' = [behind EXCEPT ![p] = TRUE]
        /\ clicks' = clicks + 1
        /\ UNCHANGED <<server, form, open, inbox, jobs, requests, upsets, asked, doubt>>
  BY <1>1
<1> DEFINE n == nextId
           f == view[p]
           i == f[t] + d
           g == With(f, t, i)
<1>3. f \in Tables(n) /\ n \in Nat \ {0} /\ t \in 1..(n - 1) /\ f[t] \in Int
  BY ViewIs
<1>4. i \in Int
  BY <1>3
<1>5. view' = [view EXCEPT ![p] = g] /\ view \in [Pages -> Tables(n)]
  BY <1>2 DEF TableTypes, PageTypes
<1> HIDE DEF f, i, n
<1>6. g \in Tables(n)
  BY <1>3, <1>4, WithIs
<1> HIDE DEF g
<1>7. view' \in [Pages -> Tables(n)]
  BY <1>5, <1>6
<1>8. clicks' \in Nat /\ requests' \in Nat /\ upsets' \in Nat
  BY <1>2 DEF TableTypes, RowTypes
<1>9. UNCHANGED server /\ UNCHANGED <<nextId, form, inbox>> /\ UNCHANGED open
      /\ UNCHANGED <<nextId, version, jobs>>
  BY <1>2 DEF server
<1>10. RowTypes'
  BY <1>8, <1>9, RowsStay
<1>11. PageTypes'
  BY <1>7, <1>9, PagesStay DEF n
<1>12. doubt' \in BOOLEAN
  BY <1>2, Zenon DEF TableTypes, TruthTypes
<1>13. TruthTypes'
  BY <1>2, <1>9, <1>12, BehindStays
<1>14. JobTypes'
  BY <1>9, JobsStay
<1> QED BY <1>10, <1>11, <1>13, <1>14, Zenon DEF TableTypes

LEMMA OpenFormTypes == TableTypes /\ OpenForm => TableTypes'
<1> SUFFICES ASSUME TableTypes, OpenForm PROVE TableTypes'
  OBVIOUS
<1>1. PICK p \in Pages : \E t \in DOMAIN view[p] :
        /\ form' = [form EXCEPT ![p] = [task |-> t, index |-> view[p][t]]]
        /\ clicks' = clicks + 1
        /\ UNCHANGED <<server, view, open, inbox, jobs, requests, upsets, history>>
  BY Zenon DEF OpenForm
<1>2. PICK t \in DOMAIN view[p] :
        /\ form' = [form EXCEPT ![p] = [task |-> t, index |-> view[p][t]]]
        /\ clicks' = clicks + 1
        /\ UNCHANGED <<server, view, open, inbox, jobs, requests, upsets, history>>
  BY <1>1
<1>3. /\ UNCHANGED server /\ UNCHANGED <<nextId, version, jobs>>
      /\ UNCHANGED <<open, behind>> /\ nextId' = nextId /\ view' = view /\ inbox' = inbox
      /\ doubt' = doubt
  BY <1>2 DEF server, history
<1>4. clicks' \in Nat /\ requests' \in Nat /\ upsets' \in Nat
  BY <1>2 DEF TableTypes, RowTypes
<1>5. RowTypes'
  BY <1>3, <1>4, RowsStay
<1>6. t \in 1..(nextId - 1) /\ view[p][t] \in Int /\ nextId \in Nat
  BY ViewIs
<1> DEFINE g == [task |-> t, index |-> view[p][t]]
<1>7. g \in Forms(nextId) /\ g.task # 0
  BY <1>6 DEF Forms
<1>8. form' = [form EXCEPT ![p] = g]
  BY <1>2
<1> HIDE DEF g
<1>9. PageTypes'
  <2>1. /\ form \in [Pages -> Forms(nextId)]
        /\ \A q \in Pages : form[q].task = 0 => form[q] = NoForm
    BY DEF TableTypes, PageTypes
  <2>2. form' \in [Pages -> Forms(nextId)]
    BY <2>1, <1>7, <1>8
  <2>3. \A q \in Pages : form'[q].task = 0 => form'[q] = NoForm
    BY <2>1, <1>7, <1>8
  <2> QED BY <2>2, <2>3, <1>3 DEF TableTypes, PageTypes
<1>10. TruthTypes'
  <2>1. doubt' \in BOOLEAN
    BY <1>3, Zenon DEF TableTypes, TruthTypes
  <2> QED BY <2>1, <1>3, TruthsStay
<1>11. JobTypes'
  BY <1>3, JobsStay
<1> QED BY <1>5, <1>9, <1>10, <1>11, Zenon DEF TableTypes

LEMMA SubmitFormTypes == TableTypes /\ SubmitForm => TableTypes'
<1> SUFFICES ASSUME TableTypes, SubmitForm PROVE TableTypes'
  OBVIOUS
<1> DEFINE n == nextId
<1>1. PICK p \in Pages :
        /\ form[p] # NoForm
        /\ form' = [form EXCEPT ![p] = NoForm]
        /\ requests' = requests + 1
        /\ jobs' = jobs \cup {Job(p, "put", form[p].task, form[p].index, requests + 1)}
        /\ doubt' = (doubt \/ jobs # {} \/ view[p] # stored
                     \/ <<form[p].task, form[p].index>> \notin {<<u, stored[u]>> : u \in DOMAIN stored})
        /\ UNCHANGED <<server, view, open, inbox, clicks, upsets, behind>>
  BY Zenon DEF SubmitForm
<1>2. /\ UNCHANGED server /\ UNCHANGED <<nextId, version>>
      /\ UNCHANGED <<open, behind>> /\ nextId' = nextId /\ view' = view /\ inbox' = inbox
  BY <1>1 DEF server
<1>3. clicks' \in Nat /\ requests' \in Nat /\ upsets' \in Nat
  BY <1>1 DEF TableTypes, RowTypes
<1>4. RowTypes'
  BY <1>2, <1>3, RowsStay
<1>5. /\ form \in [Pages -> Forms(n)] /\ n \in Nat \ {0}
      /\ \A q \in Pages : form[q].task = 0 => form[q] = NoForm
  BY DEF TableTypes, PageTypes, RowTypes
<1>6. form[p].task \in 0..(n - 1) /\ form[p].index \in Int /\ form[p].task # 0
  BY <1>1, <1>5 DEF Forms
<1>7. NoForm \in Forms(n)
  BY <1>5 DEF NoForm, Forms
<1>8. PageTypes'
  <2>1. form' \in [Pages -> Forms(n)]
    BY <1>1, <1>5, <1>7
  <2>2. \A q \in Pages : form'[q].task = 0 => form'[q] = NoForm
    BY <1>1, <1>5
  <2> QED BY <2>1, <2>2, <1>2 DEF TableTypes, PageTypes
<1>9. TruthTypes'
  <2>1. doubt' \in BOOLEAN
    BY <1>1, Zenon DEF TableTypes, TruthTypes
  <2> QED BY <2>1, <1>2, TruthsStay
<1>10. JobTypes'
  <2> DEFINE t == form[p].task
             i == form[p].index
             j == Job(p, "put", t, i, requests + 1)
  <2> HIDE DEF t, i
  <2>1. t \in 0..(nextId - 1) /\ i \in Int /\ t # 0
    BY <1>6 DEF t, i
  <2>2. j \in Jobs(nextId) /\ JobFits(j) /\ j.list.version <= version
    BY <2>1, SentTypes
  <2>3. jobs' = jobs \cup {j}
    BY <1>1 DEF t, i
  <2> HIDE DEF j
  <2> DEFINE new == {j}
  <2>4. jobs' = jobs \cup new /\ \A h \in new : h \in Jobs(nextId) /\ JobFits(h) /\ h.list.version <= version
    BY <2>2, <2>3
  <2> HIDE DEF new
  <2> QED BY <2>4, <1>2, MoreJobs
<1> QED BY <1>4, <1>8, <1>9, <1>10, Zenon DEF TableTypes

LEMMA CreateTaskTypes == TableTypes /\ CreateTask => TableTypes'
<1> SUFFICES ASSUME TableTypes, CreateTask PROVE TableTypes'
  OBVIOUS
<1> DEFINE j(p) == Job(p, "post", 0, 0, requests + 1)
<1>1. PICK p \in Pages : SendsOut(p, {j(p)}) /\ UNCHANGED <<view, form, behind>>
  BY Zenon DEF CreateTask
<1>2. 0 \in 0..(nextId - 1)
  BY DEF TableTypes, RowTypes
<1>3. j(p) \in Jobs(nextId) /\ JobFits(j(p)) /\ j(p).list.version <= version
  BY <1>2, SentTypes
<1>4. view' \in [Pages -> Tables(nextId)]
  BY <1>1 DEF TableTypes, PageTypes
<1> DEFINE new == {j(p)}
<1>5. Cardinality(new) \in Nat
  BY FewAreCounted
<1> HIDE DEF j
<1>6. \A h \in new : h \in Jobs(nextId) /\ JobFits(h) /\ h.list.version <= version
  BY <1>3
<1>7. SendsOut(p, new) /\ UNCHANGED <<form, behind>>
  BY <1>1
<1> HIDE DEF new
<1> QED BY <1>4, <1>5, <1>6, <1>7, SendsOutTypes

LEMMA DeleteTaskTypes == TableTypes /\ DeleteTask => TableTypes'
<1> SUFFICES ASSUME TableTypes, DeleteTask PROVE TableTypes'
  OBVIOUS
<1> DEFINE j(p, t) == Job(p, "delete", t, 0, requests + 1)
<1>1. PICK p \in Pages : \E t \in DOMAIN view[p] :
        SendsOut(p, {j(p, t)}) /\ UNCHANGED <<view, form, behind>>
  BY Zenon DEF DeleteTask
<1>2. PICK t \in DOMAIN view[p] : SendsOut(p, {j(p, t)}) /\ UNCHANGED <<view, form, behind>>
  BY <1>1
<1>3. t \in 1..(nextId - 1) /\ nextId \in Nat \ {0}
  BY ViewIs
<1>4. t \in 0..(nextId - 1) /\ t # 0
  BY <1>3
<1>5. j(p, t) \in Jobs(nextId) /\ JobFits(j(p, t)) /\ j(p, t).list.version <= version
  BY <1>4, SentTypes
<1>6. view' \in [Pages -> Tables(nextId)]
  BY <1>2 DEF TableTypes, PageTypes
<1> DEFINE new == {j(p, t)}
<1>7. Cardinality(new) \in Nat
  BY FewAreCounted
<1> HIDE DEF j
<1>8. \A h \in new : h \in Jobs(nextId) /\ JobFits(h) /\ h.list.version <= version
  BY <1>5
<1>9. SendsOut(p, new) /\ UNCHANGED <<form, behind>>
  BY <1>2
<1> HIDE DEF new
<1> QED BY <1>6, <1>7, <1>8, <1>9, SendsOutTypes

\* The steps of a request.
LEMMA FailTypes == ASSUME TableTypes, NEW j \in jobs, Fail(j) PROVE TableTypes'
<1>1. /\ upsets' = upsets + 1 /\ jobs' = jobs \ {j} /\ doubt' = TRUE
      /\ behind' = [behind EXCEPT ![j.page] = TRUE]
      /\ UNCHANGED server /\ UNCHANGED <<open, clicks, requests>>
      /\ nextId' = nextId /\ version' = version /\ view' = view /\ form' = form /\ inbox' = inbox
  BY Zenon DEF Fail, server, pages
<1>2. clicks' \in Nat /\ requests' \in Nat /\ upsets' \in Nat
  BY <1>1 DEF TableTypes, RowTypes
<1>3. RowTypes'
  BY <1>1, <1>2, RowsStay
<1>4. view' \in [Pages -> Tables(nextId)]
  BY <1>1 DEF TableTypes, PageTypes
<1>5. PageTypes'
  BY <1>1, <1>4, PagesStay
<1>6. j.page \in Pages
  BY JobTypesSay
<1> DEFINE p == j.page
<1>7. behind' = [behind EXCEPT ![p] = TRUE] /\ p \in Pages /\ doubt' \in BOOLEAN /\ open' = open
  BY <1>1, <1>6
<1> HIDE DEF p
<1>8. TruthTypes'
  BY <1>7, BehindStays
<1>9. JobTypes'
  BY <1>1 DEF TableTypes, JobTypes
<1> QED BY <1>3, <1>5, <1>8, <1>9, Zenon DEF TableTypes

\* ... then those of the server,
LEMMA FindRowTypes == ASSUME TableTypes, NEW j \in jobs, FindRow(j) PROVE TableTypes'
<1>1. /\ UNCHANGED server /\ UNCHANGED <<clicks, requests, upsets>> /\ UNCHANGED <<open, doubt>>
      /\ nextId' = nextId /\ version' = version /\ view' = view /\ form' = form /\ inbox' = inbox
  BY Zenon DEF FindRow, server, pages, counts
<1>2. clicks' \in Nat /\ requests' \in Nat /\ upsets' \in Nat
  BY <1>1 DEF TableTypes, RowTypes
<1>3. RowTypes'
  BY <1>1, <1>2, RowsStay
<1>4. view' \in [Pages -> Tables(nextId)]
  BY <1>1 DEF TableTypes, PageTypes
<1>5. PageTypes'
  BY <1>1, <1>4, PagesStay
<1>6. doubt' \in BOOLEAN
  BY <1>1, Zenon DEF TableTypes, TruthTypes
<1>7. CASE j.task \in DOMAIN stored
  <2>1. To(j, At(j, "found")) /\ behind' = behind /\ j.kind \in {"put", "delete"}
    BY <1>7, Zenon DEF FindRow
  <2>2. TruthTypes'
    BY <1>1, <2>1, <1>6, TruthsStay
  <2>3. j \in Jobs(nextId) /\ JobFits(j) /\ version \in Nat
    BY JobTypesSay
  <2>4. JobFits(At(j, "found"))
    BY <2>1, <2>3 DEF JobFits, At, Jobs
  <2>5. "found" \in Stages /\ nextId' = nextId /\ version' \in Nat /\ version <= version'
    BY <2>3, <1>1 DEF Stages
  <2>6. JobTypes'
    BY <2>1, <2>4, <2>5, StageTypes
  <2> QED BY <1>3, <1>5, <2>2, <2>6, Zenon DEF TableTypes
<1>8. CASE j.task \notin DOMAIN stored
  <2>1. jobs' = jobs \ {j} /\ behind' = [behind EXCEPT ![j.page] = TRUE]
    BY <1>8, Zenon DEF FindRow
  <2>2. j.page \in Pages
    BY JobTypesSay
  <2> DEFINE p == j.page
  <2>3. behind' = [behind EXCEPT ![p] = TRUE] /\ p \in Pages /\ open' = open
    BY <1>1, <2>1, <2>2
  <2> HIDE DEF p
  <2>4. TruthTypes'
    BY <1>6, <2>3, BehindStays
  <2>5. JobTypes'
    BY <1>1, <2>1 DEF TableTypes, JobTypes
  <2> QED BY <1>3, <1>5, <2>4, <2>5, Zenon DEF TableTypes
<1> QED BY <1>7, <1>8

\* A row is stored, or marked as deleted, and the pages are left alone.
LEMMA WritesTypes ==
  ASSUME TableTypes, UNCHANGED <<nextId, sent, pages, counts>>, doubt' = doubt, behind' = behind,
         stored' \in Tables(nextId), version' \in {version, version + 1}
  PROVE  RowTypes' /\ PageTypes' /\ TruthTypes' /\ version' \in Nat /\ version <= version'
<1>1. /\ UNCHANGED <<nextId, sent>> /\ UNCHANGED <<clicks, requests, upsets>> /\ UNCHANGED <<open, behind>>
      /\ view' = view /\ form' = form /\ inbox' = inbox /\ doubt' = doubt
  BY DEF pages, counts
<1>2. /\ nextId \in Nat \ {0} /\ version \in Nat /\ sent \in Nat /\ sent <= version
      /\ clicks \in Nat /\ requests \in Nat /\ upsets \in Nat
  BY DEF TableTypes, RowTypes
<1>3. version' \in Nat /\ version <= version'
  BY <1>2
<1>4. RowTypes'
  BY <1>1, <1>2, <1>3 DEF RowTypes
<1>5. view' \in [Pages -> Tables(nextId)]
  BY <1>1 DEF TableTypes, PageTypes
<1>6. PageTypes'
  BY <1>1, <1>5, PagesStay
<1>7. doubt' \in BOOLEAN
  BY <1>1, Zenon DEF TableTypes, TruthTypes
<1>8. TruthTypes'
  BY <1>1, <1>7, TruthsStay
<1> QED BY <1>3, <1>4, <1>6, <1>8

\* A row is saved: updated or inserted again.
LEMMA SavedTypes ==
  ASSUME TableTypes, NEW j \in jobs, j.kind \in {"put", "post"}, j.stage # "sent", Saved(j)
  PROVE  TableTypes'
<1> DEFINE n == nextId
           t == j.task
           i == j.index
           s == IF t \in DOMAIN stored THEN "stored" ELSE "inserted"
<1>1. /\ stored' = With(stored, t, i) /\ version' = version + 1
      /\ To(j, At(j, s)) /\ UNCHANGED <<nextId, sent, pages, counts>>
      /\ doubt' = doubt /\ behind' = behind /\ nextId' = nextId
  BY DEF Saved, history
<1>2. /\ j \in Jobs(n) /\ JobFits(j) /\ n \in Nat \ {0} /\ i \in Int /\ t \in 0..(n - 1)
  BY JobTypesSay
<1>3. s \in {"stored", "inserted"}
  OBVIOUS
<1> HIDE DEF s
<1>4. t # 0 /\ JobFits(At(j, s)) /\ s \in Stages
  BY <1>2, <1>3 DEF JobFits, At, Jobs, Stages
<1>5. t \in 1..(n - 1) /\ stored \in Tables(n)
  BY <1>2, <1>4 DEF TableTypes, RowTypes
<1> HIDE DEF n, t, i
<1>6. With(stored, t, i) \in Tables(n)
  BY <1>2, <1>5, WithIs
<1>7. stored' \in Tables(nextId)
  BY <1>1, <1>6 DEF n
<1>8. RowTypes' /\ PageTypes' /\ TruthTypes' /\ version' \in Nat /\ version <= version'
  BY <1>1, <1>7, WritesTypes
<1>9. JobTypes'
  BY <1>1, <1>4, <1>8, StageTypes
<1> QED BY <1>8, <1>9, Zenon DEF TableTypes

LEMMA UpdateRowTypes == ASSUME TableTypes, NEW j \in jobs, UpdateRow(j) PROVE TableTypes'
BY SavedTypes DEF UpdateRow

\* A task that was inserted is numbered.
LEMMA NumberRowTypes == ASSUME TableTypes, NEW j \in jobs, NumberRow(j) PROVE TableTypes'
<1>1. JobFits(j)
  BY JobTypesSay
<1> QED BY <1>1, SavedTypes DEF NumberRow, JobFits

\* A row is deleted.
LEMMA DeleteRowTypes == ASSUME TableTypes, NEW j \in jobs, DeleteRow(j) PROVE TableTypes'
<1>1. /\ j.kind = "delete" /\ stored' = stored /\ version' = version + 1
      /\ To(j, At(j, "stored")) /\ UNCHANGED <<nextId, sent, pages, counts>>
      /\ doubt' = doubt /\ behind' = behind /\ nextId' = nextId
  BY DEF DeleteRow, history
<1>2. j \in Jobs(nextId) /\ JobFits(j)
  BY JobTypesSay
<1>3. JobFits(At(j, "stored")) /\ "stored" \in Stages
  BY <1>1, <1>2 DEF JobFits, At, Jobs, Stages
<1>4. stored' \in Tables(nextId)
  BY <1>1 DEF TableTypes, RowTypes
<1>5. RowTypes' /\ PageTypes' /\ TruthTypes' /\ version' \in Nat /\ version <= version'
  BY <1>1, <1>4, WritesTypes
<1>6. JobTypes'
  BY <1>1, <1>3, <1>5, StageTypes
<1> QED BY <1>5, <1>6, Zenon DEF TableTypes

\* The deletion is committed.
LEMMA CommitDeleteTypes == ASSUME TableTypes, NEW j \in jobs, CommitDelete(j) PROVE TableTypes'
<1> DEFINE n == nextId
           t == j.task
<1>1. /\ j.stage = "deleting" /\ stored' = Without(stored, t) /\ version' = version
      /\ To(j, At(j, "done")) /\ UNCHANGED <<nextId, sent, pages, counts>>
      /\ doubt' = doubt /\ behind' = behind /\ nextId' = nextId
  BY DEF CommitDelete, history
<1>2. j \in Jobs(n) /\ JobFits(j) /\ n \in Nat \ {0}
  BY JobTypesSay
<1>3. JobFits(At(j, "done")) /\ "done" \in Stages
  BY <1>1, <1>2 DEF JobFits, At, Jobs, Stages
<1>4. stored \in Tables(n)
  BY DEF TableTypes, RowTypes
<1> HIDE DEF n, t
<1>5. Without(stored, t) \in Tables(n)
  BY <1>2, <1>4, WithoutIs
<1>6. stored' \in Tables(nextId)
  BY <1>1, <1>5 DEF n
<1>7. RowTypes' /\ PageTypes' /\ TruthTypes' /\ version' \in Nat /\ version <= version'
  BY <1>1, <1>6, WritesTypes
<1>8. JobTypes'
  BY <1>1, <1>3, <1>7, StageTypes
<1> QED BY <1>7, <1>8, Zenon DEF TableTypes

\* The identities that there may be grow with each task.
LEMMA MoreIdentities ==
  ASSUME NEW n \in Nat \ {0}
  PROVE  /\ Tables(n) \subseteq Tables(n + 1) /\ Jobs(n) \subseteq Jobs(n + 1)
         /\ Forms(n) \subseteq Forms(n + 1) /\ Messages(n) \subseteq Messages(n + 1)
         /\ Seq(Messages(n)) \subseteq Seq(Messages(n + 1))
<1> DEFINE m == n + 1
<1>1. m \in Nat /\ n <= m /\ 0..(n - 1) \subseteq 0..(m - 1)
  OBVIOUS
<1> HIDE DEF m
<1>2. Tables(n) \subseteq Tables(m)
  BY <1>1, TablesGrow
<1>3. Lists(n) \subseteq Lists(m)
  BY <1>2 DEF Lists
<1>4. Jobs(n) \subseteq Jobs(m)
  BY <1>1, <1>3 DEF Jobs
<1>5. Forms(n) \subseteq Forms(m)
  BY <1>1 DEF Forms
<1>6. Messages(n) \subseteq Messages(m)
  BY <1>2 DEF Messages
<1> DEFINE A == Messages(n)
           B == Messages(m)
<1>7. A \subseteq B
  BY <1>6
<1> HIDE DEF A, B
<1>8. Seq(A) \subseteq Seq(B)
  BY <1>7
<1> QED BY <1>2, <1>4, <1>5, <1>6, <1>8 DEF m, A, B

\* A new task is stored: there are more identities.
LEMMA InsertRowTypes == ASSUME TableTypes, NEW j \in jobs, InsertRow(j) PROVE TableTypes'
<1> DEFINE n == nextId
           m == n + 1
           i == j.index
           k == [At(j, "inserted") EXCEPT !.task = n]
<1>1. /\ j.kind = "post" /\ stored' = With(stored, n, i) /\ nextId' = m /\ version' = version + 1
      /\ To(j, k) /\ UNCHANGED <<sent, pages, counts>> /\ doubt' = doubt /\ behind' = behind
  BY DEF InsertRow, Inserted
<1>2. /\ j \in Jobs(n) /\ JobFits(j) /\ n \in Nat \ {0} /\ i \in Int /\ version \in Nat
      /\ j.list.version <= version /\ j.list.version \in Nat
  BY JobTypesSay
<1>3. stored \in Tables(n)
  BY DEF TableTypes, RowTypes
<1>4. /\ Tables(n) \subseteq Tables(m) /\ Jobs(n) \subseteq Jobs(m)
      /\ Forms(n) \subseteq Forms(m) /\ Seq(Messages(n)) \subseteq Seq(Messages(m))
  BY <1>2, MoreIdentities
<1>5. m \in Nat \ {0} /\ n \in 1..(m - 1)
  BY <1>2
<1>6. k \in Jobs(m) /\ JobFits(k) /\ k.list = j.list
  <2>1. j \in Jobs(m) /\ n \in 0..(m - 1) /\ n # 0
    BY <1>2, <1>4, <1>5
  <2> HIDE DEF m, n
  <2> QED BY <2>1, <1>1, <1>2 DEF Jobs, At, JobFits, Stages
<1> HIDE DEF k, i
<1>7. stored' \in Tables(m)
  <2>1. stored \in Tables(m)
    BY <1>3, <1>4
  <2> HIDE DEF m, n
  <2>2. m \in Nat
    BY <1>5
  <2> QED BY <1>1, <1>2, <1>5, <2>1, <2>2, WithIs
<1> HIDE DEF m
<1>8. RowTypes'
  <2>1. /\ sent \in Nat /\ sent <= version /\ version \in Nat
        /\ clicks \in Nat /\ requests \in Nat /\ upsets \in Nat
    BY DEF TableTypes, RowTypes
  <2>2. version' \in Nat /\ sent <= version'
    BY <2>1, <1>1
  <2>3. UNCHANGED <<clicks, requests, upsets>> /\ sent' = sent
    BY <1>1 DEF counts
  <2> QED BY <1>1, <1>5, <1>7, <2>1, <2>2, <2>3 DEF RowTypes
<1>9. PageTypes'
  <2>1. /\ view \in [Pages -> Tables(n)] /\ form \in [Pages -> Forms(n)]
        /\ \A p \in Pages : form[p].task = 0 => form[p] = NoForm
        /\ inbox \in [Pages -> Seq(Messages(n))]
    BY DEF TableTypes, PageTypes
  <2>2. view' = view /\ form' = form /\ inbox' = inbox
    BY <1>1 DEF pages
  <2> HIDE DEF n
  <2>3. view' \in [Pages -> Tables(m)]
    BY <2>1, <2>2, <1>4
  <2>4. form' \in [Pages -> Forms(m)]
    BY <2>1, <2>2, <1>4
  <2>5. inbox' \in [Pages -> Seq(Messages(m))]
    BY <2>1, <2>2, <1>4
  <2> QED BY <1>1, <2>1, <2>2, <2>3, <2>4, <2>5 DEF PageTypes
<1>10. TruthTypes'
  <2>1. UNCHANGED <<open, behind>> /\ doubt' = doubt
    BY <1>1 DEF pages
  <2>2. doubt' \in BOOLEAN
    BY <2>1, Zenon DEF TableTypes, TruthTypes
  <2> QED BY <2>1, <2>2, TruthsStay
<1>11. JobTypes'
  <2>1. jobs \subseteq Jobs(n) /\ version' = version + 1 /\ nextId' = m
    BY <1>1 DEF TableTypes, JobTypes
  <2>2. jobs' \subseteq Jobs(m)
    BY <2>1, <1>1, <1>4, <1>6 DEF To
  <2>3. ASSUME NEW h \in jobs' PROVE JobFits(h) /\ h.list.version <= version'
    <3>1. CASE h = k
      BY <3>1, <2>1, <1>2, <1>6
    <3>2. CASE h # k
      <4>1. h \in jobs
        BY <3>2, <1>1 DEF To
      <4>2. JobFits(h) /\ h.list.version <= version /\ h.list.version \in Nat
        BY <4>1, JobTypesSay
      <4> QED BY <4>2, <2>1, <1>2
    <3> QED BY <3>1, <3>2
  <2> QED BY <2>1, <2>2, <2>3 DEF JobTypes
<1> QED BY <1>8, <1>9, <1>10, <1>11, Zenon DEF TableTypes

LEMMA ReadTypes == ASSUME TableTypes, NEW j \in jobs, Read(j) PROVE TableTypes'
<1> DEFINE s == IF j.stage = "stored" THEN "read" ELSE "listed"
           r == ReadTasks(j)
           k == At(r, s)
<1>1. /\ j.stage \in {"stored", "inserted"} /\ To(j, k)
      /\ UNCHANGED <<nextId, sent, pages, counts>> /\ stored' = stored /\ version' = version
      /\ doubt' = doubt /\ behind' = behind /\ nextId' = nextId
  BY DEF Read, server, history
<1>2. /\ j \in Jobs(nextId) /\ JobFits(j) /\ nextId \in Nat /\ version \in Nat
  BY JobTypesSay
<1>3. stored \in Tables(nextId)
  BY DEF TableTypes, RowTypes
<1>4. r \in Jobs(nextId) /\ r.list.version = version
  BY <1>2, <1>3, ReadTasksIs
<1>5. r.kind = j.kind /\ r.task = j.task /\ s \in Stages
  BY <1>2 DEF ReadTasks, Jobs, Stages
<1> HIDE DEF r
<1>6. k \in Jobs(nextId) /\ k.list = r.list /\ k.kind = j.kind /\ k.task = j.task /\ k.stage = s
  BY <1>4, <1>5 DEF At, Jobs
<1>7. JobFits(k)
  <2> HIDE DEF k
  <2> QED BY <1>1, <1>2, <1>6 DEF JobFits
<1> HIDE DEF k
<1>8. k.list.version <= version' /\ k.list.version \in Nat
  BY <1>1, <1>2, <1>4, <1>6
<1>9. RowTypes' /\ PageTypes' /\ TruthTypes' /\ version' \in Nat /\ version <= version'
  BY <1>1, <1>3, WritesTypes
<1>10. \A h \in jobs : h.list.version \in Nat
  BY JobTypesSay
<1>11. JobTypes
  BY DEF TableTypes
<1>12. JobTypes'
  BY <1>1, <1>2, <1>6, <1>7, <1>8, <1>9, <1>10, <1>11, ToTypes
<1> QED BY <1>9, <1>12, Zenon DEF TableTypes

LEMMA CountTasksTypes == ASSUME TableTypes, NEW j \in jobs, CountTasks(j) PROVE TableTypes'
<1>1. /\ j.stage = "numbering" /\ stored' = stored /\ version' = version
      /\ UNCHANGED <<nextId, sent, pages, counts>>
      /\ doubt' = doubt /\ behind' = behind /\ nextId' = nextId
  BY DEF CountTasks, server, history
<1>2. /\ j \in Jobs(nextId) /\ JobFits(j) /\ nextId \in Nat \ {0} /\ version \in Nat
      /\ j.list.version <= version /\ j.list.version \in Nat
  BY JobTypesSay
<1>3. stored \in Tables(nextId)
  BY DEF TableTypes, RowTypes
<1>4. RowTypes' /\ PageTypes' /\ TruthTypes' /\ version' \in Nat /\ version <= version'
  BY <1>1, <1>3, WritesTypes
<1>5. JobTypes'
  <2>1. CASE stored = <<>>
    <3>1. To(j, At(j, "done"))
      BY <2>1 DEF CountTasks
    <3>2. JobFits(At(j, "done")) /\ "done" \in Stages
      BY <1>1, <1>2 DEF JobFits, At, Jobs, Stages
    <3> QED BY <1>1, <1>4, <3>1, <3>2, StageTypes
  <2>2. CASE stored # <<>>
    <3> DEFINE i == NewIndex(stored)
               k == [At(j, "counted") EXCEPT !.index = i]
    <3>1. To(j, k)
      BY <2>2 DEF CountTasks
    <3>2. DOMAIN stored # {}
      <4>1. stored = [u \in DOMAIN stored |-> stored[u]]
        BY <1>2, <1>3, TablesAre
      <4>2. SUFFICES ASSUME DOMAIN stored = {} PROVE FALSE
        OBVIOUS
      <4>3. stored = [u \in {} |-> stored[u]]
        BY <4>1, <4>2
      <4>4. stored = <<>>
        BY <4>3
      <4> QED BY <4>4, <2>2
    <3>3. i \in Int
      BY <1>2, <1>3, <3>2, NewIndexIs
    <3> HIDE DEF i
    <3>4. k \in Jobs(nextId) /\ k.list = j.list /\ k.kind = j.kind /\ k.task = j.task /\ k.stage = "counted"
      BY <1>2, <3>3 DEF At, Jobs, Stages
    <3> HIDE DEF k
    <3>5. JobFits(k)
      BY <1>1, <1>2, <3>4 DEF JobFits
    <3>6. k.list.version <= version' /\ k.list.version \in Nat
      BY <1>1, <1>2, <3>4
    <3>7. \A h \in jobs : h.list.version \in Nat
      BY JobTypesSay
    <3>8. JobTypes
      BY DEF TableTypes
    <3> QED BY <1>1, <1>2, <1>4, <3>1, <3>4, <3>5, <3>6, <3>7, <3>8, ToTypes
  <2> QED BY <2>1, <2>2
<1> QED BY <1>4, <1>5, Zenon DEF TableTypes

LEMMA TransmitTasksTypes == ASSUME TableTypes, NEW j \in jobs, TransmitTasks(j) PROVE TableTypes'
<1> DEFINE c == [index |-> j.list.index, late |-> j.list.torn \/ j.list.version < sent]
           n == nextId
           s == AfterTransmit(j)
           k == [At(j, s) EXCEPT !.list = NoList]
<1>1. /\ inbox' = [p \in Pages |-> IF open[p] THEN Append(inbox[p], c) ELSE inbox[p]]
      /\ sent' = IF j.list.version < sent THEN sent ELSE j.list.version
      /\ IF j.kind = "hello" THEN jobs' = jobs \ {j} ELSE To(j, k)
      /\ UNCHANGED <<clicks, requests, upsets>> /\ UNCHANGED <<open, behind>> /\ doubt' = doubt
      /\ nextId' = nextId /\ version' = version /\ view' = view /\ form' = form /\ stored' = stored
      /\ j.stage \in {"read", "listed"}
  BY DEF TransmitTasks, counts, history
<1>2. /\ j \in Jobs(n) /\ JobFits(j) /\ n \in Nat \ {0} /\ version \in Nat
      /\ j.list.version <= version /\ j.list.version \in Nat /\ j.list.index \in Tables(n)
      /\ j.list.torn \in BOOLEAN
  BY JobTypesSay
<1>3. c \in Messages(n)
  BY <1>2 DEF Messages
<1> HIDE DEF c
<1>4. inbox \in [Pages -> Seq(Messages(n))]
  BY DEF TableTypes, PageTypes
<1>5. PageTypes'
  <2>1. inbox' \in [Pages -> Seq(Messages(n))]
    <3> DEFINE S == Messages(n)
    <3>1. c \in S /\ inbox \in [Pages -> Seq(S)]
      BY <1>3, <1>4
    <3> HIDE DEF S
    <3>2. \A p \in Pages : Append(inbox[p], c) \in Seq(S) /\ inbox[p] \in Seq(S)
      BY <3>1
    <3>3. inbox' \in [Pages -> Seq(S)]
      BY <3>2, <1>1
    <3> QED BY <3>3 DEF S
  <2> QED BY <2>1, <1>1 DEF TableTypes, PageTypes
<1>6. RowTypes'
  <2>1. sent \in Nat /\ sent <= version
    BY DEF TableTypes, RowTypes
  <2>2. sent' \in Nat /\ sent' <= version
    BY <2>1, <1>1, <1>2
  <2> QED BY <2>2, <1>1 DEF TableTypes, RowTypes
<1>7. TruthTypes'
  <2>1. doubt' \in BOOLEAN
    BY <1>1, Zenon DEF TableTypes, TruthTypes
  <2> QED BY <2>1, <1>1, TruthsStay
<1>8. JobTypes'
  <2>1. CASE j.kind = "hello"
    BY <2>1, <1>1 DEF TableTypes, JobTypes
  <2>2. CASE j.kind # "hello"
    <3>1. s \in Stages /\ To(j, k)
      BY <1>1, <2>2 DEF AfterTransmit, Stages
    <3>2. s = "numbering" => j.kind \in {"put", "post"}
      BY <1>2 DEF AfterTransmit, JobFits
    <3>3. s = "deleting" => j.kind = "delete"
      BY DEF AfterTransmit
    <3>4. s \in {"numbering", "deleting", "done"}
      BY DEF AfterTransmit
    <3>5. NoList \in Lists(n) /\ NoList.version = 0
      BY <1>2, NoTable DEF NoList, Lists
    <3> HIDE DEF s, NoList
    <3>6. k \in Jobs(n) /\ k.list = NoList /\ k.kind = j.kind /\ k.task = j.task /\ k.stage = s
      BY <1>2, <3>1, <3>5 DEF At, Jobs
    <3> HIDE DEF k
    <3>7. JobFits(k)
      BY <1>1, <1>2, <2>2, <3>2, <3>3, <3>4, <3>6 DEF JobFits
    <3>8. \A h \in jobs : h.list.version \in Nat
      BY JobTypesSay
    <3>9. JobTypes /\ version' \in Nat /\ version <= version'
      BY <1>1, <1>2 DEF TableTypes
    <3>10. k.list.version <= version' /\ k.list.version \in Nat
      BY <1>1, <1>2, <3>5, <3>6
    <3> QED BY <1>1, <1>2, <3>1, <3>6, <3>7, <3>8, <3>9, <3>10, ToTypes
  <2> QED BY <2>1, <2>2
<1> QED BY <1>5, <1>6, <1>7, <1>8, Zenon DEF TableTypes

\* A request that is answered has a task, which is one that has been created.
LEMMA AnsweredIs ==
  ASSUME TableTypes, NEW j \in jobs, j.stage = "done"
  PROVE  j.kind \in {"put", "post", "delete"} /\ j.task \in 1..(nextId - 1)
<1>1. /\ JobFits(j) /\ nextId \in Nat \ {0} /\ j.task \in 0..(nextId - 1) /\ j.kind \in Kinds
  BY JobTypesSay
<1>2. j.kind \in {"put", "post", "delete"} /\ j.task # 0
  BY <1>1 DEF JobFits, Kinds
<1> QED BY <1>1, <1>2

\* The page takes the answer to its request.
LEMMA AnswerTypes == ASSUME TableTypes, NEW j \in jobs, Answer(j) PROVE TableTypes'
<1> DEFINE p == j.page
           t == j.task
           f == view[p]
           n == nextId
           b == behind[p] \/ IF j.kind = "delete" THEN t \in DOMAIN stored
                             ELSE \/ t \notin DOMAIN stored \/ Uncommitted(t)
                                  \/ stored[t] # j.index
           g == Remaining(f, j)
<1>1. /\ j.stage = "done" /\ view' = [view EXCEPT ![p] = g]
      /\ behind' = [behind EXCEPT ![p] = b]
      /\ jobs' = jobs \ {j} /\ UNCHANGED server /\ UNCHANGED <<clicks, requests, upsets>>
      /\ open' = open /\ doubt' = doubt /\ nextId' = nextId /\ version' = version
      /\ form' = form /\ inbox' = inbox
  BY DEF Answer, server, counts
<1>2. /\ n \in Nat \ {0} /\ p \in Pages /\ j.index \in Int
  BY JobTypesSay
<1>3. t \in 1..(n - 1)
  BY <1>1, AnsweredIs
<1>4. f \in Tables(n) /\ view \in [Pages -> Tables(n)]
  BY <1>2 DEF TableTypes, PageTypes
<1>5. g \in Tables(n)
  <2> HIDE DEF f, n
  <2>1. Without(f, t) \in Tables(n)
    BY <1>2, <1>4, WithoutIs
  <2>2. With(f, t, j.index) \in Tables(n)
    <3> DEFINE i == j.index
    <3>1. i \in Int
      BY <1>2
    <3> HIDE DEF t, i
    <3>2. With(f, t, i) \in Tables(n)
      BY <1>2, <1>3, <1>4, <3>1, WithIs
    <3> QED BY <3>2 DEF i
  <2> QED BY <2>1, <2>2 DEF Remaining
<1>6. RowTypes'
  <2>1. clicks' \in Nat /\ requests' \in Nat /\ upsets' \in Nat
    BY <1>1 DEF TableTypes, RowTypes
  <2> QED BY <2>1, <1>1, RowsStay
<1>7. PageTypes'
  <2>1. view' \in [Pages -> Tables(nextId)]
    <3> HIDE DEF g
    <3> QED BY <1>1, <1>4, <1>5
  <2> QED BY <2>1, <1>1, PagesStay
<1>8. TruthTypes'
  <2>1. doubt' \in BOOLEAN /\ behind[p] \in BOOLEAN
    BY <1>1, <1>2, Zenon DEF TableTypes, TruthTypes
  <2>2. b \in BOOLEAN
    BY <2>1, Zenon
  <2> HIDE DEF b, p
  <2> QED BY <2>1, <2>2, <1>1, <1>2, BehindStays
<1>9. JobTypes'
  BY <1>1 DEF TableTypes, JobTypes
<1> QED BY <1>6, <1>7, <1>8, <1>9, Zenon DEF TableTypes

\* The steps of the pages.
LEMMA ReceiveTypes == TableTypes /\ Receive => TableTypes'
<1> SUFFICES ASSUME TableTypes, Receive PROVE TableTypes'
  OBVIOUS
<1>1. PICK p \in Pages :
        /\ inbox[p] # <<>>
        /\ inbox' = [inbox EXCEPT ![p] = Tail(@)]
        /\ view' = [view EXCEPT ![p] = Head(inbox[p]).index]
        /\ behind' = [behind EXCEPT ![p] = Head(inbox[p]).late]
        /\ UNCHANGED <<server, form, open, jobs, counts, asked, doubt>>
  BY DEF Receive
<1> DEFINE n == nextId
           q == inbox[p]
           c == Head(q)
           S == Messages(n)
<1>2. /\ UNCHANGED server /\ UNCHANGED <<clicks, requests, upsets>> /\ UNCHANGED <<nextId, version, jobs>>
      /\ open' = open /\ doubt' = doubt /\ nextId' = nextId /\ form' = form
  BY <1>1 DEF server, counts
<1>3. inbox \in [Pages -> Seq(S)] /\ view \in [Pages -> Tables(n)]
  BY DEF TableTypes, PageTypes
<1>4. q \in Seq(S) /\ q # <<>>
  BY <1>1, <1>3
<1> HIDE DEF S, q
<1>5. c \in S /\ Tail(q) \in Seq(S)
  BY <1>4
<1> HIDE DEF c
<1>6. c.index \in Tables(n) /\ c.late \in BOOLEAN
  BY <1>5 DEF S, Messages
<1>7. /\ inbox' = [inbox EXCEPT ![p] = Tail(q)] /\ view' = [view EXCEPT ![p] = c.index]
      /\ behind' = [behind EXCEPT ![p] = c.late]
  BY <1>1 DEF q, c
<1>8. PageTypes'
  <2>1. inbox' \in [Pages -> Seq(S)]
    BY <1>3, <1>5, <1>7
  <2>2. view' \in [Pages -> Tables(n)]
    BY <1>3, <1>6, <1>7
  <2> QED BY <2>1, <2>2, <1>2 DEF TableTypes, PageTypes, S
<1>9. RowTypes'
  <2>1. clicks' \in Nat /\ requests' \in Nat /\ upsets' \in Nat
    BY <1>2 DEF TableTypes, RowTypes
  <2> QED BY <2>1, <1>2, RowsStay
<1>10. TruthTypes'
  <2>1. doubt' \in BOOLEAN
    BY <1>2, Zenon DEF TableTypes, TruthTypes
  <2> DEFINE b == c.late
  <2>2. b \in BOOLEAN /\ behind' = [behind EXCEPT ![p] = b]
    BY <1>6, <1>7
  <2> HIDE DEF b
  <2> QED BY <2>1, <2>2, <1>2, BehindStays
<1>11. JobTypes'
  BY <1>2, JobsStay
<1> QED BY <1>8, <1>9, <1>10, <1>11, Zenon DEF TableTypes

\* A socket is cut off,
LEMMA CutTypes == TableTypes /\ Cut => TableTypes'
<1> SUFFICES ASSUME TableTypes, Cut PROVE TableTypes'
  OBVIOUS
<1>1. PICK p \in Pages :
        /\ upsets' = upsets + 1
        /\ open' = [open EXCEPT ![p] = FALSE]
        /\ inbox' = [inbox EXCEPT ![p] = <<>>]
        /\ UNCHANGED <<server, view, form, jobs, clicks, requests, history>>
  BY Zenon DEF Cut
<1>2. /\ UNCHANGED server /\ UNCHANGED <<nextId, version, jobs>> /\ UNCHANGED <<clicks, requests>>
      /\ behind' = behind /\ doubt' = doubt /\ nextId' = nextId /\ form' = form /\ view' = view
  BY <1>1 DEF server, history
<1>3. PageTypes'
  <2> DEFINE S == Messages(nextId)
  <2>1. inbox \in [Pages -> Seq(S)]
    BY DEF TableTypes, PageTypes
  <2> HIDE DEF S
  <2>2. inbox' \in [Pages -> Seq(S)]
    BY <2>1, <1>1
  <2> QED BY <2>2, <1>2 DEF TableTypes, PageTypes, S
<1>4. RowTypes'
  <2>1. clicks' \in Nat /\ requests' \in Nat /\ upsets' \in Nat
    BY <1>1, <1>2 DEF TableTypes, RowTypes
  <2> QED BY <2>1, <1>2, RowsStay
<1>5. TruthTypes'
  <2>1. behind' \in [Pages -> BOOLEAN] /\ doubt' \in BOOLEAN
    BY <1>2, Zenon DEF TableTypes, TruthTypes
  <2>2. open' \in [Pages -> BOOLEAN]
    BY <1>1 DEF TableTypes, TruthTypes
  <2> QED BY <2>1, <2>2, Zenon DEF TruthTypes
<1>6. JobTypes'
  BY <1>2, JobsStay
<1> QED BY <1>3, <1>4, <1>5, <1>6, Zenon DEF TableTypes

\* ... and made again.
LEMMA ConnectTypes == TableTypes /\ Connect => TableTypes'
<1> SUFFICES ASSUME TableTypes, Connect PROVE TableTypes'
  OBVIOUS
<1> DEFINE h(p) == Job(p, "hello", 0, 0, -upsets)
           k(p) == At(h(p), "stored")
<1>1. PICK p \in Pages :
        /\ open' = [open EXCEPT ![p] = TRUE]
        /\ jobs' = jobs \cup {k(p)}
        /\ UNCHANGED <<server, view, form, inbox, counts, history>>
  BY DEF Connect, Connected
<1>2. /\ UNCHANGED server /\ UNCHANGED <<nextId, version>> /\ UNCHANGED <<clicks, requests, upsets>>
      /\ behind' = behind /\ doubt' = doubt /\ UNCHANGED <<nextId, form, inbox>> /\ view' = view
  BY <1>1 DEF server, counts, history
<1>3. PageTypes'
  <2>1. view' \in [Pages -> Tables(nextId)]
    BY <1>2 DEF TableTypes, PageTypes
  <2> QED BY <2>1, <1>2, PagesStay
<1>4. RowTypes'
  <2>1. clicks' \in Nat /\ requests' \in Nat /\ upsets' \in Nat
    BY <1>2 DEF TableTypes, RowTypes
  <2> QED BY <2>1, <1>2, RowsStay
<1>5. TruthTypes'
  <2>1. behind' \in [Pages -> BOOLEAN] /\ doubt' \in BOOLEAN
    BY <1>2, Zenon DEF TableTypes, TruthTypes
  <2>2. open' \in [Pages -> BOOLEAN]
    BY <1>1 DEF TableTypes, TruthTypes
  <2> QED BY <2>1, <2>2, Zenon DEF TruthTypes
<1>6. JobTypes'
  <2> DEFINE n == nextId
             d == -upsets
             new == {k(p)}
  <2>1. n \in Nat \ {0} /\ d \in Int /\ 0 \in 0..(n - 1) /\ version \in Nat /\ "hello" \in Kinds
    BY DEF TableTypes, RowTypes, Kinds
  <2>2. h(p) = Job(p, "hello", 0, 0, d)
    OBVIOUS
  <2> HIDE DEF n, d, h
  <2>3. h(p) \in Jobs(n) /\ h(p).list.version = 0
    BY <2>1, <2>2, JobIs
  <2>4. h(p).kind = "hello" /\ h(p).task = 0
    BY <2>2 DEF Job
  <2>5. k(p) \in Jobs(n) /\ k(p).list.version = 0 /\ k(p).kind = "hello" /\ k(p).stage = "stored"
    BY <2>3, <2>4 DEF At, Jobs, Stages
  <2> HIDE DEF k
  <2>6. JobFits(k(p)) /\ k(p).list.version <= version
    BY <2>1, <2>5 DEF JobFits
  <2>7. jobs' = jobs \cup new /\ \A j \in new : j \in Jobs(nextId) /\ JobFits(j) /\ j.list.version <= version
    BY <2>5, <2>6, <1>1 DEF n
  <2> HIDE DEF new
  <2> QED BY <2>7, <1>2, MoreJobs
<1> QED BY <1>3, <1>4, <1>5, <1>6, Zenon DEF TableTypes

\* Every step keeps the types.
LEMMA TableTypesStay == TableTypes /\ [Next]_vars => TableTypes'
<1> SUFFICES ASSUME TableTypes, [Next]_vars PROVE TableTypes'
  OBVIOUS
<1>1. CASE Move \/ MoveRaises \/ OpenForm \/ SubmitForm \/ CreateTask \/ DeleteTask
  BY <1>1, Zenon, MoveTypes, MoveRaisesTypes, OpenFormTypes, SubmitFormTypes, CreateTaskTypes, DeleteTaskTypes
<1>2. ASSUME NEW j \in jobs,
        \/ Fail(j) \/ FindRow(j) \/ UpdateRow(j) \/ InsertRow(j) \/ DeleteRow(j) \/ CommitDelete(j)
        \/ Read(j) \/ TransmitTasks(j) \/ CountTasks(j) \/ NumberRow(j) \/ Answer(j)
      PROVE TableTypes'
  <2>1. CASE Fail(j) \/ FindRow(j) \/ UpdateRow(j) \/ InsertRow(j) \/ DeleteRow(j) \/ CommitDelete(j)
    BY <2>1, Zenon, FailTypes, FindRowTypes, UpdateRowTypes, InsertRowTypes, DeleteRowTypes, CommitDeleteTypes
  <2>2. CASE Read(j) \/ TransmitTasks(j) \/ CountTasks(j) \/ NumberRow(j) \/ Answer(j)
    BY <2>2, Zenon, ReadTypes, TransmitTasksTypes, CountTasksTypes, NumberRowTypes, AnswerTypes
  <2> QED BY <1>2, <2>1, <2>2, Zenon
<1>3. CASE Receive \/ Cut \/ Connect
  BY <1>3, Zenon, ReceiveTypes, CutTypes, ConnectTypes
<1>4. CASE UNCHANGED vars
  <2>1. /\ UNCHANGED server /\ UNCHANGED <<clicks, requests, upsets>> /\ UNCHANGED <<nextId, version, jobs>>
        /\ UNCHANGED <<open, behind>> /\ doubt' = doubt
        /\ UNCHANGED <<nextId, form, inbox>> /\ view' = view
    BY <1>4 DEF vars, server, pages, counts, history
  <2>2. clicks' \in Nat /\ requests' \in Nat /\ upsets' \in Nat
    BY <2>1 DEF TableTypes, RowTypes
  <2>3. view' \in [Pages -> Tables(nextId)]
    BY <2>1 DEF TableTypes, PageTypes
  <2>4. doubt' \in BOOLEAN
    BY <2>1, Zenon DEF TableTypes, TruthTypes
  <2> QED BY <2>1, <2>2, <2>3, <2>4, RowsStay, PagesStay, TruthsStay, JobsStay, Zenon DEF TableTypes
<1> QED BY <1>1, <1>2, <1>3, <1>4, Zenon DEF Next

\* The first state has them.
LEMMA TableTypesFirst == ResultsAssumption /\ Init => TableTypes
<1> SUFFICES ASSUME ResultsAssumption, Init PROVE TableTypes
  OBVIOUS
<1>1. stored \in Seq(Nat \ {0}) /\ nextId = 1 + Len(stored)
  BY DEF ResultsAssumption, Init
<1>2. nextId \in Nat \ {0} /\ DOMAIN stored = 1..(nextId - 1)
  BY <1>1
<1>3. stored \in Tables(nextId)
  <2> DEFINE D == 1..(nextId - 1)
  <2>1. stored \in [D -> Int]
    BY <1>1, <1>2
  <2> QED BY <2>1, <1>2, TableBy
<1>4. RowTypes
  BY <1>2, <1>3 DEF RowTypes, Init
<1>5. PageTypes
  <2>1. /\ view = [p \in Pages |-> stored] /\ form = [p \in Pages |-> NoForm]
        /\ inbox = [p \in Pages |-> <<>>]
    BY DEF Init
  <2>2. NoForm \in Forms(nextId)
    BY <1>2 DEF NoForm, Forms
  <2>3. view \in [Pages -> Tables(nextId)]
    BY <2>1, <1>3
  <2>4. form \in [Pages -> Forms(nextId)] /\ \A p \in Pages : form[p] = NoForm
    BY <2>1, <2>2
  <2> DEFINE S == Messages(nextId)
  <2> HIDE DEF S
  <2>5. inbox \in [Pages -> Seq(S)]
    BY <2>1
  <2> QED BY <2>3, <2>4, <2>5 DEF PageTypes, S
<1>6. TruthTypes
  BY DEF TruthTypes, Init
<1>7. JobTypes
  BY DEF JobTypes, Init
<1> QED BY <1>4, <1>5, <1>6, <1>7, Zenon DEF TableTypes

\* Only tasks that have been created are stored, shown, edited or asked about, whatever
\* requests, lists and answers are on their way.
THEOREM TableTypesHold == Spec => []TypeOK
<1>1. Init => TableTypes
  BY ResultsAssumption, TableTypesFirst
<1>2. TableTypes /\ [Next]_vars => TableTypes'
  BY TableTypesStay
<1>3. TableTypes => TypeOK
  BY TableTypesSay
<1> QED BY <1>1, <1>2, <1>3, PTL DEF Spec

-----------------------------------------------------------------------------
(* What the pages will show. The table that the pages are to show leaves    *)
(* out what is being deleted. Each page that is connected will come to show *)
(* it: a list is about to be made, the last on its way is it, or the page   *)
(* has it, awaits an answer of its own, or has been left behind.            *)

InDelete(k) == k.kind = "delete" /\ k.stage \in {"stored", "read", "deleting"}
Gone == {k.task : k \in Deleting}
Eff == [u \in DOMAIN stored \ Gone |-> stored[u]]
IsFresh(j, v) ==
  j.stage \in {"stored", "inserted"} \/ (j.stage \in {"read", "listed"} /\ j.list.version = v)
Underway == \E j \in jobs : IsFresh(j, version)
ListSays(j, v, f) ==
  j.stage \in {"read", "listed"} /\ j.list.version = v /\ ~j.list.torn => j.list.index = f
Asks(j, p) == j.page = p /\ j.kind # "hello" /\ j.stage \in {"sent", "found"}
OwnPending(p) == \E j \in jobs : Asks(j, p)
HasIt(p) == behind[p] \/ view[p] = Eff \/ OwnPending(p)
Comes(q, f) == q # <<>> /\ (q[Len(q)].late \/ q[Len(q)].index = f)

Announced == sent < version => Underway
ListsSay == \A j \in jobs : ListSays(j, version, Eff)
PageShows(p) == Underway \/ Comes(inbox[p], Eff) \/ (inbox[p] = <<>> /\ HasIt(p))
PagesShow == \A p \in Pages : open[p] => PageShows(p)
ShowInv == Announced /\ ListsSay /\ PagesShow

\* The deletions under way, by a predicate on one job.
LEMMA DeletingIs == Deleting = {k \in jobs : InDelete(k)}
BY DEF Deleting, InDelete

\* What is being deleted stays the same when each job that deletes is one after the
\* step and was one before it.
LEMMA EffStays ==
  ASSUME stored' = stored,
         \A k \in jobs : InDelete(k) => \E h \in jobs' : InDelete(h) /\ h.task = k.task,
         \A h \in jobs' : InDelete(h) => \E k \in jobs : InDelete(k) /\ h.task = k.task
  PROVE  Eff' = Eff
<1>1. Gone = {k.task : k \in {k \in jobs : InDelete(k)}}
  BY DeletingIs DEF Gone
<1>2. Gone' = {k.task : k \in {k \in jobs' : InDelete(k)}}
  BY DEF Gone, Deleting, InDelete
<1>3. Gone' = Gone
  BY <1>1, <1>2
<1> QED BY <1>3 DEF Eff

\* What the pages are to show stays when one job goes on.
LEMMA EffStaysTo ==
  ASSUME stored' = stored, NEW j \in jobs, NEW k, To(j, k), k.task = j.task,
         InDelete(j) <=> InDelete(k)
  PROVE  Eff' = Eff
<1>1. jobs' = (jobs \ {j}) \cup {k}
  BY DEF To
<1>2. ASSUME NEW h \in jobs, InDelete(h) PROVE \E i \in jobs' : InDelete(i) /\ i.task = h.task
  <2>1. CASE h = j
    BY <2>1, <1>1, <1>2
  <2>2. CASE h # j
    BY <2>2, <1>1, <1>2
  <2> QED BY <2>1, <2>2
<1>3. ASSUME NEW h \in jobs', InDelete(h) PROVE \E i \in jobs : InDelete(i) /\ h.task = i.task
  <2>1. CASE h = k
    BY <2>1, <1>1, <1>3
  <2>2. CASE h # k
    BY <2>2, <1>1, <1>3
  <2> QED BY <2>1, <2>2
<1> QED BY <1>2, <1>3, EffStays

\* Jobs that do not delete come and go.
LEMMA EffStaysWith ==
  ASSUME stored' = stored, \A k \in jobs : InDelete(k) => k \in jobs',
         \A k \in jobs' : InDelete(k) => k \in jobs
  PROVE  Eff' = Eff
<1>1. ASSUME NEW h \in jobs, InDelete(h) PROVE \E i \in jobs' : InDelete(i) /\ i.task = h.task
  BY <1>1
<1>2. ASSUME NEW h \in jobs', InDelete(h) PROVE \E i \in jobs : InDelete(i) /\ h.task = i.task
  BY <1>2
<1> QED BY <1>1, <1>2, EffStays

\* A step that stores nothing and sends nothing keeps the invariant when the list that is
\* under way stays so, new lists are right, and each page keeps what it has.
LEMMA ShowKept ==
  ASSUME ShowInv, UNCHANGED <<version, sent, inbox, open>>, Eff' = Eff,
         Underway => Underway',
         \A k \in jobs' : k \in jobs \/ ListSays(k, version, Eff),
         \A p \in Pages : HasIt(p) => HasIt(p)'
  PROVE  ShowInv'
<1>1. version' = version /\ sent' = sent /\ inbox' = inbox /\ open' = open
  OBVIOUS
<1>2. Announced'
  BY <1>1 DEF Announced, ShowInv
<1>3. ListsSay'
  <2>1. \A k \in jobs' : ListSays(k, version, Eff)
    BY DEF ShowInv, ListsSay
  <2>2. \A k \in jobs' : ListSays(k, version', Eff')
    BY <2>1, <1>1
  <2> QED BY <2>2, Zenon DEF ListsSay
<1>4. PagesShow'
  <2>1. ASSUME NEW p \in Pages, open[p] PROVE PageShows(p)'
    <3>1. PageShows(p)
      BY <2>1, Zenon DEF ShowInv, PagesShow
    <3>2. inbox'[p] = inbox[p]
      BY <1>1
    <3> QED BY <3>1, <3>2, Zenon DEF PageShows
  <2> QED BY <2>1, <1>1, Zenon DEF PagesShow
<1> QED BY <1>2, <1>3, <1>4, Zenon DEF ShowInv

\* A step that stores a row leaves a job that will make a list, and all lists made before
\* are out of date.
LEMMA ShowStored ==
  ASSUME ShowInv, TableTypes, version' = version + 1, NEW k \in jobs',
         k.stage \in {"stored", "inserted"}, \A h \in jobs' : h \in jobs \/ h = k
  PROVE  ShowInv'
<1>1. Underway'
  <2>1. IsFresh(k, version')
    BY DEF IsFresh
  <2> QED BY <2>1, Zenon DEF Underway
<1>2. ASSUME NEW h \in jobs' PROVE ListSays(h, version', Eff')
  <2>1. CASE h \in jobs
    <3>1. h.list.version \in Nat /\ h.list.version <= version /\ version \in Nat
      BY <2>1, JobTypesSay
    <3>2. h.list.version # version'
      BY <3>1
    <3> QED BY <3>2 DEF ListSays
  <2>2. CASE h = k
    BY <2>2 DEF ListSays
  <2> QED BY <2>1, <2>2
<1>3. ListsSay'
  BY <1>2, Zenon DEF ListsSay
<1>4. Announced' /\ PagesShow'
  BY <1>1, Zenon DEF Announced, PagesShow, PageShows
<1> QED BY <1>3, <1>4, Zenon DEF ShowInv

\* One job becomes another that does not stand for a new list.
LEMMA FreshTo ==
  ASSUME NEW j \in jobs, NEW k, To(j, k), version' = version,
         IsFresh(j, version) => IsFresh(k, version), Underway
  PROVE  Underway'
<1>1. PICK h \in jobs : IsFresh(h, version)
  BY DEF Underway
<1>2. jobs' = (jobs \ {j}) \cup {k}
  BY DEF To
<1>3. CASE h = j
  <2>1. k \in jobs' /\ IsFresh(k, version')
    BY <1>1, <1>2, <1>3
  <2> QED BY <2>1, Zenon DEF Underway
<1>4. CASE h # j
  <2>1. h \in jobs' /\ IsFresh(h, version')
    BY <1>1, <1>2, <1>4
  <2> QED BY <2>1, Zenon DEF Underway
<1> QED BY <1>3, <1>4

\* What a page has, it keeps when the request it may be awaiting is still under way.
LEMMA HasItStill ==
  ASSUME NEW p \in Pages, HasIt(p), behind' = behind, view' = view, Eff' = Eff,
         \A h \in jobs : Asks(h, p) => \E k \in jobs' : Asks(k, p)
  PROVE  HasIt(p)'
<1>1. OwnPending(p) => OwnPending(p)'
  BY DEF OwnPending
<1> QED BY <1>1, Zenon DEF HasIt

\* It is still about to be sent when one job goes on.
LEMMA AsksTo ==
  ASSUME NEW p, NEW j \in jobs, NEW k, To(j, k), Asks(j, p) => Asks(k, p)
  PROVE  \A h \in jobs : Asks(h, p) => \E i \in jobs' : Asks(i, p)
<1>1. jobs' = (jobs \ {j}) \cup {k}
  BY DEF To
<1> QED BY <1>1

\* Requests go out, none of which deletes yet or stands for a list.
LEMMA ShowSent ==
  ASSUME ShowInv, NEW new, jobs' = jobs \cup new, UNCHANGED <<stored, version, sent, inbox, open>>,
         \A k \in new : k.stage = "sent",
         \A p \in Pages : HasIt(p) => behind'[p] = TRUE \/ OwnPending(p)'
                                      \/ (view'[p] = view[p] /\ behind'[p] = behind[p])
  PROVE  ShowInv'
<1>1. Eff' = Eff
  <2>1. ASSUME NEW k \in jobs', InDelete(k) PROVE k \in jobs
    BY <2>1 DEF InDelete
  <2> QED BY <2>1, EffStaysWith
<1>2. Underway => Underway'
  BY DEF Underway
<1>3. \A k \in jobs' : k \in jobs \/ ListSays(k, version, Eff)
  BY DEF ListSays
<1>4. ASSUME NEW p \in Pages, HasIt(p) PROVE HasIt(p)'
  <2>1. OwnPending(p) => OwnPending(p)'
    BY DEF OwnPending
  <2>2. CASE behind'[p] = TRUE \/ OwnPending(p)'
    BY <2>2, Zenon DEF HasIt
  <2>3. CASE view'[p] = view[p] /\ behind'[p] = behind[p]
    BY <2>1, <2>3, <1>1, <1>4, Zenon DEF HasIt
  <2> QED BY <1>4, <2>2, <2>3
<1> QED BY <1>1, <1>2, <1>3, <1>4, ShowKept

\* A page that moves a column sends what it shows.
LEMMA MoveShows == ShowInv /\ TableTypes /\ Move => ShowInv'
<1> SUFFICES ASSUME ShowInv, TableTypes, Move PROVE ShowInv'
  OBVIOUS
<1>1. PICK p \in Pages, d \in {-1, 1} : \E t \in DOMAIN view[p], u \in DOMAIN view[p] :
        /\ view' = [view EXCEPT ![p] = Exchanged(@, t, u, d)]
        /\ SendsOut(p, {Job(p, "put", t, view'[p][t], requests + 1),
                        Job(p, "put", u, view'[p][u], requests + 1)})
        /\ UNCHANGED behind
  BY Zenon DEF Move
<1>2. PICK t \in DOMAIN view[p], u \in DOMAIN view[p] :
        /\ view' = [view EXCEPT ![p] = Exchanged(@, t, u, d)]
        /\ SendsOut(p, {Job(p, "put", t, view'[p][t], requests + 1),
                        Job(p, "put", u, view'[p][u], requests + 1)})
        /\ UNCHANGED behind
  BY <1>1
<1> DEFINE j == Job(p, "put", t, view'[p][t], requests + 1)
           k == Job(p, "put", u, view'[p][u], requests + 1)
           g == Exchanged(view[p], t, u, d)
           new == {j, k}
<1>3. /\ j.stage = "sent" /\ j.kind = "put" /\ j.page = p /\ k.stage = "sent"
  BY DEF Job
<1>4. SendsOut(p, {j, k}) /\ behind' = behind /\ view' = [view EXCEPT ![p] = g]
  BY <1>2
<1> HIDE DEF j, k, g
<1>5. jobs' = jobs \cup new /\ UNCHANGED <<stored, version, sent, inbox, open>>
  BY <1>4 DEF SendsOut, server
<1>6. \A h \in new : h.stage = "sent"
  BY <1>3
<1>7. OwnPending(p)'
  <2>1. j \in jobs' /\ Asks(j, p)
    BY <1>3, <1>5 DEF Asks
  <2> QED BY <2>1, Zenon DEF OwnPending
<1>8. \A q \in Pages : q # p => view'[q] = view[q]
  BY <1>4 DEF TableTypes, PageTypes
<1> HIDE DEF new
<1>9. \A q \in Pages : OwnPending(q)' \/ (view'[q] = view[q] /\ behind'[q] = behind[q])
  <2> TAKE q \in Pages
  <2>1. CASE q = p
    BY <1>7, <2>1, Zenon
  <2>2. CASE q # p
    BY <1>4, <1>8, <2>2
  <2> QED BY <2>1, <2>2
<1> QED BY <1>5, <1>6, <1>9, ShowSent

\* One whose move raises is behind.
LEMMA MoveRaisesShows == ShowInv /\ TableTypes /\ MoveRaises => ShowInv'
<1> SUFFICES ASSUME ShowInv, TableTypes, MoveRaises PROVE ShowInv'
  OBVIOUS
<1>1. PICK p \in Pages, d \in {-1, 1} : \E t \in DOMAIN view[p] :
        /\ view' = [view EXCEPT ![p] = With(@, t, @[t] + d)]
        /\ behind' = [behind EXCEPT ![p] = TRUE]
        /\ UNCHANGED <<server, open, inbox, jobs>>
  BY Zenon DEF MoveRaises
<1>2. PICK t \in DOMAIN view[p] :
        /\ view' = [view EXCEPT ![p] = With(@, t, @[t] + d)]
        /\ behind' = [behind EXCEPT ![p] = TRUE]
        /\ UNCHANGED <<server, open, inbox, jobs>>
  BY <1>1
<1> DEFINE g == With(view[p], t, view[p][t] + d)
<1>3. /\ view' = [view EXCEPT ![p] = g] /\ behind' = [behind EXCEPT ![p] = TRUE]
      /\ UNCHANGED <<stored, version, sent, inbox, open>> /\ jobs' = jobs
  BY <1>2 DEF server
<1> HIDE DEF g
<1>4. behind'[p] = TRUE /\ \A q \in Pages : q # p => view'[q] = view[q] /\ behind'[q] = behind[q]
  BY <1>3 DEF TableTypes, PageTypes, TruthTypes
<1>5. Eff' = Eff
  BY <1>3, EffStaysWith
<1>6. Underway => Underway'
  BY <1>3 DEF Underway
<1>7. ASSUME NEW q \in Pages, HasIt(q) PROVE HasIt(q)'
  <2>1. CASE q = p
    BY <1>4, <2>1, Zenon DEF HasIt
  <2>2. CASE q # p
    <3>1. OwnPending(q) => OwnPending(q)'
      BY <1>3 DEF OwnPending
    <3> QED BY <1>4, <1>5, <1>7, <2>2, <3>1, Zenon DEF HasIt
  <2> QED BY <2>1, <2>2
<1> QED BY <1>3, <1>5, <1>6, <1>7, ShowKept

\* Forms and what is sent from them change no page.
LEMMA FormsShow == ShowInv /\ (OpenForm \/ SubmitForm \/ CreateTask \/ DeleteTask) => ShowInv'
<1> SUFFICES ASSUME ShowInv, OpenForm \/ SubmitForm \/ CreateTask \/ DeleteTask PROVE ShowInv'
  OBVIOUS
<1>1. PICK new : /\ jobs' = jobs \cup new /\ \A k \in new : k.stage = "sent"
                 /\ UNCHANGED <<stored, version, sent, inbox, open>> /\ view' = view /\ behind' = behind
  <2>1. CASE OpenForm
    <3> DEFINE new == {}
    <3>1. jobs' = jobs \cup new /\ UNCHANGED <<stored, version, sent, inbox, open>>
          /\ view' = view /\ behind' = behind
      BY <2>1 DEF OpenForm, server, history
    <3>2. \A k \in new : k.stage = "sent"
      OBVIOUS
    <3> HIDE DEF new
    <3> QED BY <3>1, <3>2
  <2>2. CASE SubmitForm
    <3>1. PICK p \in Pages :
            /\ jobs' = jobs \cup {Job(p, "put", form[p].task, form[p].index, requests + 1)}
            /\ UNCHANGED <<server, view, open, inbox, clicks, upsets, behind>>
      BY <2>2, Zenon DEF SubmitForm
    <3> DEFINE j == Job(p, "put", form[p].task, form[p].index, requests + 1)
               new == {j}
    <3>2. j.stage = "sent"
      BY DEF Job
    <3>3. jobs' = jobs \cup new /\ UNCHANGED <<stored, version, sent, inbox, open>>
          /\ view' = view /\ behind' = behind
      BY <3>1 DEF server
    <3> HIDE DEF j
    <3>4. \A k \in new : k.stage = "sent"
      BY <3>2
    <3> HIDE DEF new
    <3> QED BY <3>3, <3>4
  <2>3. CASE CreateTask
    <3>1. PICK p \in Pages :
            SendsOut(p, {Job(p, "post", 0, 0, requests + 1)}) /\ UNCHANGED <<view, behind>>
      BY <2>3, Zenon DEF CreateTask
    <3> DEFINE j == Job(p, "post", 0, 0, requests + 1)
               new == {j}
    <3>2. j.stage = "sent"
      BY DEF Job
    <3>3. jobs' = jobs \cup new /\ UNCHANGED <<stored, version, sent, inbox, open>>
          /\ view' = view /\ behind' = behind
      BY <3>1 DEF SendsOut, server
    <3> HIDE DEF j
    <3>4. \A k \in new : k.stage = "sent"
      BY <3>2
    <3> HIDE DEF new
    <3> QED BY <3>3, <3>4
  <2>4. CASE DeleteTask
    <3>1. PICK p \in Pages : \E t \in DOMAIN view[p] :
            SendsOut(p, {Job(p, "delete", t, 0, requests + 1)}) /\ UNCHANGED <<view, behind>>
      BY <2>4, Zenon DEF DeleteTask
    <3>2. PICK t \in DOMAIN view[p] :
            SendsOut(p, {Job(p, "delete", t, 0, requests + 1)}) /\ UNCHANGED <<view, behind>>
      BY <3>1
    <3> DEFINE j == Job(p, "delete", t, 0, requests + 1)
               new == {j}
    <3>3. j.stage = "sent"
      BY DEF Job
    <3>4. jobs' = jobs \cup new /\ UNCHANGED <<stored, version, sent, inbox, open>>
          /\ view' = view /\ behind' = behind
      BY <3>2 DEF SendsOut, server
    <3> HIDE DEF j
    <3>5. \A k \in new : k.stage = "sent"
      BY <3>3
    <3> HIDE DEF new
    <3> QED BY <3>4, <3>5
  <2> QED BY <2>1, <2>2, <2>3, <2>4
<1>2. \A p \in Pages : view'[p] = view[p] /\ behind'[p] = behind[p]
  BY <1>1
<1> QED BY <1>1, <1>2, ShowSent

\* A request that fails or finds nothing leaves its page behind.
LEMMA FailShows ==
  ASSUME ShowInv, TableTypes, NEW j \in jobs, j.stage = "sent", jobs' = jobs \ {j},
         behind' = [behind EXCEPT ![j.page] = TRUE],
         UNCHANGED <<stored, version, sent, inbox, open>>, view' = view
  PROVE  ShowInv'
<1>1. j.page \in Pages
  BY JobTypesSay
<1>2. behind \in [Pages -> BOOLEAN]
  BY Zenon DEF TableTypes, TruthTypes
<1>3. behind'[j.page] = TRUE /\ \A q \in Pages : q # j.page => behind'[q] = behind[q]
  BY <1>1, <1>2
<1>4. Eff' = Eff
  <2>1. ASSUME NEW k \in jobs, InDelete(k) PROVE k \in jobs'
    BY <2>1 DEF InDelete
  <2> QED BY <2>1, EffStaysWith
<1>5. Underway => Underway'
  <2>1. ASSUME NEW k \in jobs, IsFresh(k, version) PROVE k \in jobs' /\ IsFresh(k, version')
    BY <2>1 DEF IsFresh
  <2> QED BY <2>1 DEF Underway
<1>6. ASSUME NEW q \in Pages, HasIt(q) PROVE HasIt(q)'
  <2>1. CASE q = j.page
    BY <1>3, <2>1, Zenon DEF HasIt
  <2>2. CASE q # j.page
    <3>1. ASSUME NEW h \in jobs, Asks(h, q) PROVE h \in jobs'
      BY <2>2, <3>1 DEF Asks
    <3>2. OwnPending(q) => OwnPending(q)'
      BY <3>1 DEF OwnPending
    <3> QED BY <1>3, <1>4, <1>6, <2>2, <3>2, Zenon DEF HasIt
  <2> QED BY <2>1, <2>2
<1>7. \A k \in jobs' : k \in jobs
  OBVIOUS
<1> QED BY <1>4, <1>5, <1>6, <1>7, ShowKept

\* A row that is found will be stored; one that is not leaves its page behind.
LEMMA FindRowShows == ASSUME ShowInv, TableTypes, NEW j \in jobs, FindRow(j) PROVE ShowInv'
<1>1. /\ UNCHANGED <<stored, version, sent, inbox, open>> /\ view' = view /\ j.stage = "sent"
      /\ j.kind \in {"put", "delete"}
  BY DEF FindRow, server, pages
<1>2. CASE j.task \notin DOMAIN stored
  <2>1. jobs' = jobs \ {j} /\ behind' = [behind EXCEPT ![j.page] = TRUE]
    BY <1>2, Zenon DEF FindRow
  <2> QED BY <1>1, <2>1, FailShows
<1>3. CASE j.task \in DOMAIN stored
  <2> DEFINE k == At(j, "found")
  <2>1. To(j, k) /\ behind' = behind
    BY <1>3, Zenon DEF FindRow
  <2>2. j \in Jobs(nextId)
    BY JobTypesSay
  <2>3. k.stage = "found" /\ k.task = j.task /\ k.kind = j.kind /\ k.page = j.page
    BY <2>2 DEF At, Jobs
  <2> HIDE DEF k
  <2>4. Eff' = Eff
    BY <1>1, <2>1, <2>3, EffStaysTo DEF InDelete
  <2>5. Underway => Underway'
    BY <1>1, <2>1, FreshTo DEF IsFresh
  <2>6. ASSUME NEW p \in Pages, HasIt(p) PROVE HasIt(p)'
    <3>1. Asks(j, p) => Asks(k, p)
      BY <2>3 DEF Asks
    <3> QED BY <1>1, <2>1, <2>4, <2>6, <3>1, AsksTo, HasItStill
  <2>7. \A h \in jobs' : h \in jobs \/ ListSays(h, version, Eff)
    BY <2>1, <2>3 DEF To, ListSays
  <2> QED BY <1>1, <2>4, <2>5, <2>6, <2>7, ShowKept
<1> QED BY <1>2, <1>3

\* A row that is written will be read and sent.
LEMMA WritesShow ==
  ASSUME ShowInv, TableTypes, NEW j \in jobs,
         UpdateRow(j) \/ InsertRow(j) \/ DeleteRow(j) \/ NumberRow(j)
  PROVE  ShowInv'
<1>1. j \in Jobs(nextId)
  BY JobTypesSay
<1>2. CASE UpdateRow(j) \/ NumberRow(j)
  <2> DEFINE e == IF j.task \in DOMAIN stored THEN "stored" ELSE "inserted"
             k == At(j, e)
  <2>1. To(j, k) /\ version' = version + 1
    BY <1>2 DEF UpdateRow, NumberRow, Saved
  <2>2. k.stage \in {"stored", "inserted"}
    BY <1>1 DEF At, Jobs
  <2> HIDE DEF k
  <2>3. k \in jobs' /\ \A h \in jobs' : h \in jobs \/ h = k
    BY <2>1 DEF To
  <2> QED BY <2>1, <2>2, <2>3, ShowStored
<1>3. CASE DeleteRow(j)
  <2> DEFINE k == At(j, "stored")
  <2>1. To(j, k) /\ version' = version + 1
    BY <1>3 DEF DeleteRow
  <2>2. k.stage = "stored"
    BY <1>1 DEF At, Jobs
  <2> HIDE DEF k
  <2>3. k \in jobs' /\ \A h \in jobs' : h \in jobs \/ h = k
    BY <2>1 DEF To
  <2> QED BY <2>1, <2>2, <2>3, ShowStored
<1>4. CASE InsertRow(j)
  <2> DEFINE k == [At(j, "inserted") EXCEPT !.task = nextId]
  <2>1. To(j, k) /\ version' = version + 1
    BY <1>4 DEF InsertRow, Inserted
  <2>2. k.stage = "inserted"
    BY <1>1 DEF At, Jobs
  <2> HIDE DEF k
  <2>3. k \in jobs' /\ \A h \in jobs' : h \in jobs \/ h = k
    BY <2>1 DEF To
  <2> QED BY <2>1, <2>2, <2>3, ShowStored
<1> QED BY <1>2, <1>3, <1>4

\* What was being deleted is gone when the deletion is committed: nothing else changes.
LEMMA CommitDeleteShows == ASSUME ShowInv, TableTypes, NEW j \in jobs, CommitDelete(j) PROVE ShowInv'
<1> DEFINE k == At(j, "done")
           t == j.task
<1>1. /\ j.stage = "deleting" /\ stored' = Without(stored, t) /\ To(j, k) /\ behind' = behind
      /\ UNCHANGED <<version, sent, inbox, open>> /\ view' = view /\ version' = version
  BY DEF CommitDelete, pages, history
<1>2. j \in Jobs(nextId) /\ JobFits(j)
  BY JobTypesSay
<1>3. j.kind = "delete" /\ InDelete(j)
  BY <1>1, <1>2 DEF JobFits, InDelete
<1>4. k.stage = "done" /\ k.task = t /\ k.page = j.page
  BY <1>2 DEF At, Jobs
<1> HIDE DEF k
<1>5. Eff' = Eff
  <2>1. stored \in Tables(nextId) /\ nextId \in Nat
    BY DEF TableTypes, RowTypes
  <2>2. Removes(stored', stored, t)
    BY <1>1, <2>1, WithoutIs
  <2>3. Gone = {h.task : h \in {h \in jobs : InDelete(h)}}
    BY DeletingIs DEF Gone
  <2>4. Gone' = {h.task : h \in {h \in jobs' : InDelete(h)}}
    BY DEF Gone, Deleting, InDelete
  <2>5. t \in Gone
    BY <1>3, <2>3
  <2>6. Gone' \subseteq Gone
    <3>1. ASSUME NEW h \in jobs', InDelete(h) PROVE h \in jobs
      BY <3>1, <1>1, <1>4 DEF To, InDelete
    <3> QED BY <3>1, <2>3, <2>4
  <2>7. Gone \subseteq Gone' \cup {t}
    <3>1. ASSUME NEW h \in jobs, InDelete(h), h # j PROVE h \in jobs'
      BY <3>1, <1>1 DEF To
    <3> QED BY <3>1, <2>3, <2>4
  <2>8. DOMAIN stored' \ Gone' = DOMAIN stored \ Gone
    BY <2>2, <2>5, <2>6, <2>7 DEF Removes
  <2>9. \A u \in DOMAIN stored \ Gone : stored'[u] = stored[u]
    BY <2>2, <2>5 DEF Removes
  <2> HIDE DEF t
  <2>10. [u \in DOMAIN stored \ Gone |-> stored'[u]] = [u \in DOMAIN stored \ Gone |-> stored[u]]
    BY <2>9
  <2>11. Eff' = [u \in DOMAIN stored' \ Gone' |-> stored'[u]]
    BY DEF Eff
  <2> QED BY <2>8, <2>10, <2>11 DEF Eff
<1>6. Underway => Underway'
  BY <1>1, FreshTo DEF IsFresh
<1>7. ASSUME NEW p \in Pages, HasIt(p) PROVE HasIt(p)'
  <2>1. Asks(j, p) => Asks(k, p)
    BY <1>1 DEF Asks
  <2> QED BY <1>1, <1>5, <1>7, <2>1, AsksTo, HasItStill
<1>8. \A h \in jobs' : h \in jobs \/ ListSays(h, version, Eff)
  BY <1>1, <1>4 DEF To, ListSays
<1> QED BY <1>1, <1>5, <1>6, <1>7, <1>8, ShowKept

\* A list that is read shows what the pages are to show, unless another deletion is not
\* committed yet.
LEMMA ReadShows == ASSUME ShowInv, TableTypes, NEW j \in jobs, Read(j) PROVE ShowInv'
<1> DEFINE s == IF j.stage = "stored" THEN "read" ELSE "listed"
           r == ReadTasks(j)
           k == At(r, s)
           f == IF j.kind = "delete" THEN Without(stored, j.task) ELSE stored
           l == [index |-> f, version |-> version, torn |-> Deleting \ {j} # {}]
<1>1. /\ j.stage \in {"stored", "inserted"} /\ To(j, k) /\ stored' = stored /\ version' = version
      /\ UNCHANGED <<version, sent, inbox, open>> /\ view' = view /\ behind' = behind
  BY DEF Read, server, pages, history
<1>2. /\ j \in Jobs(nextId) /\ JobFits(j) /\ nextId \in Nat
  BY JobTypesSay
<1>3. r = [j EXCEPT !.list = l]
  BY DEF ReadTasks
<1>4. r \in Jobs(nextId)
  BY <1>2, ReadTasksIs DEF TableTypes, RowTypes
<1> HIDE DEF l, r
<1>5. r.kind = j.kind /\ r.task = j.task /\ r.page = j.page /\ r.list = l
  BY <1>2, <1>3 DEF Jobs
<1> HIDE DEF s
<1>6. k.list = l /\ k.kind = j.kind /\ k.task = j.task /\ k.stage = s
  BY <1>4, <1>5 DEF At, Jobs
<1> HIDE DEF k
<1>7. (s = "read" /\ j.stage = "stored") \/ (s = "listed" /\ j.kind \in {"put", "post"})
  BY <1>1, <1>2 DEF s, JobFits
<1>8. InDelete(j) <=> InDelete(k)
  BY <1>1, <1>2, <1>6, <1>7 DEF InDelete, JobFits
<1>9. Eff' = Eff
  BY <1>1, <1>6, <1>8, EffStaysTo
<1>10. IsFresh(k, version)
  BY <1>6, <1>7 DEF IsFresh, l
<1>11. Underway => Underway'
  BY <1>1, <1>10, FreshTo
<1>12. ASSUME NEW p \in Pages, HasIt(p) PROVE HasIt(p)'
  <2>1. Asks(j, p) => Asks(k, p)
    BY <1>1 DEF Asks
  <2> QED BY <1>1, <1>9, <1>12, <2>1, AsksTo, HasItStill
<1>13. ListSays(k, version, Eff)
  <2> SUFFICES ASSUME ~l.torn PROVE l.index = Eff
    BY <1>6 DEF ListSays
  <2>1. Deleting \ {j} = {} /\ l.index = f
    BY DEF l
  <2>2. Gone = {h.task : h \in {h \in jobs : InDelete(h)}}
    BY DeletingIs DEF Gone
  <2>3. stored \in Tables(nextId)
    BY DEF TableTypes, RowTypes
  <2>4. \A h \in jobs : InDelete(h) => h = j
    BY <2>1, DeletingIs
  <2>5. CASE j.kind = "delete"
    <3>1. InDelete(j)
      BY <1>1, <1>2, <2>5 DEF InDelete, JobFits
    <3>2. Gone = {j.task}
      BY <2>2, <2>4, <3>1
    <3> QED BY <2>1, <2>5, <3>2 DEF Eff, Without
  <2>6. CASE j.kind # "delete"
    <3>1. Gone = {}
      BY <2>2, <2>4, <2>6 DEF InDelete
    <3>2. Eff = [u \in DOMAIN stored |-> stored[u]]
      BY <3>1 DEF Eff
    <3>3. stored = [u \in DOMAIN stored |-> stored[u]]
      BY <1>2, <2>3, TablesAre
    <3> QED BY <2>1, <2>6, <3>2, <3>3
  <2> QED BY <2>5, <2>6
<1>14. \A h \in jobs' : h \in jobs \/ ListSays(h, version, Eff)
  BY <1>1, <1>13 DEF To
<1> QED BY <1>1, <1>9, <1>11, <1>12, <1>14, ShowKept

\* Counting changes nothing that is shown.
LEMMA CountTasksShows == ASSUME ShowInv, TableTypes, NEW j \in jobs, CountTasks(j) PROVE ShowInv'
<1>1. /\ j.stage = "numbering" /\ stored' = stored /\ version' = version
      /\ UNCHANGED <<version, sent, inbox, open>> /\ view' = view /\ behind' = behind
  BY DEF CountTasks, server, pages, history
<1>2. j \in Jobs(nextId) /\ JobFits(j)
  BY JobTypesSay
<1>3. PICK k : To(j, k) /\ k.stage \in {"done", "counted"} /\ k.task = j.task /\ k.kind = j.kind
  <2> DEFINE a == At(j, "done")
             b == [At(j, "counted") EXCEPT !.index = NewIndex(stored)]
  <2>1. To(j, a) \/ To(j, b)
    BY DEF CountTasks
  <2>2. a.stage = "done" /\ a.task = j.task /\ a.kind = j.kind
    BY <1>2 DEF At, Jobs
  <2>3. b.stage = "counted" /\ b.task = j.task /\ b.kind = j.kind
    BY <1>2 DEF At, Jobs
  <2> HIDE DEF a, b
  <2> QED BY <2>1, <2>2, <2>3
<1>4. InDelete(j) <=> InDelete(k)
  BY <1>1, <1>3 DEF InDelete
<1>5. Eff' = Eff
  BY <1>1, <1>3, <1>4, EffStaysTo
<1>6. Underway => Underway'
  BY <1>1, <1>3, FreshTo DEF IsFresh
<1>7. ASSUME NEW p \in Pages, HasIt(p) PROVE HasIt(p)'
  <2>1. Asks(j, p) => Asks(k, p)
    BY <1>1 DEF Asks
  <2> QED BY <1>1, <1>3, <1>5, <1>7, <2>1, AsksTo, HasItStill
<1>8. \A h \in jobs' : h \in jobs \/ ListSays(h, version, Eff)
  BY <1>3 DEF To, ListSays
<1> QED BY <1>1, <1>5, <1>6, <1>7, <1>8, ShowKept

\* An answer that was not overtaken says what the page has to show anyway.
LEMMA AnswerShows == ASSUME ShowInv, TableTypes, NEW j \in jobs, Answer(j) PROVE ShowInv'
<1> DEFINE p == j.page
           t == j.task
           over == IF j.kind = "delete" THEN t \in DOMAIN stored
                   ELSE \/ t \notin DOMAIN stored \/ Uncommitted(t)
                        \/ stored[t] # j.index
           g == Remaining(view[p], j)
<1>1. /\ j.stage = "done" /\ view' = [view EXCEPT ![p] = g]
      /\ behind' = [behind EXCEPT ![p] = behind[p] \/ over]
      /\ jobs' = jobs \ {j} /\ stored' = stored
      /\ UNCHANGED <<version, sent, inbox, open>> /\ version' = version
  BY DEF Answer, server
<1>2. p \in Pages
  BY JobTypesSay
<1>3. DOMAIN view = Pages /\ DOMAIN behind = Pages
  <2>1. view \in [Pages -> Tables(nextId)] /\ behind \in [Pages -> BOOLEAN]
    BY DEF TableTypes, PageTypes, TruthTypes
  <2> QED BY <2>1
<1>4. Eff' = Eff
  <2>1. ASSUME NEW k \in jobs, InDelete(k) PROVE k \in jobs'
    BY <1>1, <2>1 DEF InDelete
  <2> QED BY <1>1, <2>1, EffStaysWith
<1>5. Underway => Underway'
  <2>1. ASSUME NEW k \in jobs, IsFresh(k, version) PROVE k \in jobs' /\ IsFresh(k, version')
    BY <1>1, <2>1 DEF IsFresh
  <2> QED BY <2>1 DEF Underway
<1>6. ~over /\ view[p] = Eff => g = Eff
  <2> SUFFICES ASSUME ~over, view[p] = Eff PROVE g = Eff
    OBVIOUS
  <2> DEFINE D == DOMAIN stored \ Gone
             i == j.index
  <2>1. Eff = [u \in D |-> stored[u]]
    BY DEF Eff
  <2>2. CASE j.kind = "delete"
    <3>1. t \notin D /\ g = Without(Eff, t)
      BY <2>2 DEF Remaining
    <3> HIDE DEF D, t
    <3> QED BY <2>1, <3>1 DEF Without
  <2>3. CASE j.kind # "delete"
    <3>1. t \in DOMAIN stored /\ ~Uncommitted(t) /\ stored[t] = i /\ g = With(Eff, t, i)
      BY <2>3 DEF Remaining
    <3>2. t \in D
      BY <3>1 DEF Uncommitted, Gone
    <3> HIDE DEF D, t, i
    <3>3. With(Eff, t, i) = [u \in D \cup {t} |-> IF u = t THEN i ELSE stored[u]]
      BY <2>1 DEF With
    <3>4. With(Eff, t, i) = [u \in D |-> stored[u]]
      BY <3>1, <3>2, <3>3
    <3> QED BY <2>1, <3>1, <3>4
  <2> QED BY <2>2, <2>3
<1> HIDE DEF g, over
<1>7. ASSUME NEW q \in Pages, HasIt(q) PROVE HasIt(q)'
  <2>1. OwnPending(q) => OwnPending(q)'
    <3>1. ASSUME NEW h \in jobs, Asks(h, q) PROVE h \in jobs'
      BY <1>1, <3>1 DEF Asks
    <3> QED BY <3>1 DEF OwnPending
  <2>2. CASE q = p
    <3>1. view'[q] = g /\ behind'[q] = (behind[q] \/ over)
      BY <1>1, <1>2, <1>3, <2>2
    <3>2. view[q] = Eff /\ ~over => g = Eff
      BY <1>6, <2>2
    <3> QED BY <1>4, <1>7, <2>1, <3>1, <3>2 DEF HasIt
  <2>3. CASE q # p
    <3>1. view'[q] = view[q] /\ behind'[q] = behind[q]
      BY <1>1, <1>2, <1>3, <2>3
    <3> QED BY <1>4, <1>7, <2>1, <3>1, Zenon DEF HasIt
  <2> QED BY <2>2, <2>3
<1>8. \A k \in jobs' : k \in jobs
  BY <1>1
<1> QED BY <1>1, <1>4, <1>5, <1>7, <1>8, ShowKept

\* A list that is sent is what the pages are to show, or is late, or will be followed by
\* another one.
LEMMA TransmitTasksShows ==
  ASSUME ShowInv, TableTypes, NEW j \in jobs, TransmitTasks(j) PROVE ShowInv'
<1> DEFINE c == [index |-> j.list.index, late |-> j.list.torn \/ j.list.version < sent]
           k == [At(j, AfterTransmit(j)) EXCEPT !.list = NoList]
           v == j.list.version
<1>1. /\ inbox' = [p \in Pages |-> IF open[p] THEN Append(inbox[p], c) ELSE inbox[p]]
      /\ sent' = IF v < sent THEN sent ELSE v
      /\ IF j.kind = "hello" THEN jobs' = jobs \ {j} ELSE To(j, k)
      /\ open' = open /\ stored' = stored /\ version' = version
      /\ j.stage \in {"read", "listed"}
  BY DEF TransmitTasks
<1>2. /\ j \in Jobs(nextId) /\ JobFits(j) /\ version \in Nat /\ v <= version /\ v \in Nat
      /\ j.list.torn \in BOOLEAN
  BY JobTypesSay
<1>3. sent \in Nat /\ sent <= version
  BY DEF TableTypes, RowTypes
<1>4. k.kind = j.kind /\ k.task = j.task /\ k.stage = AfterTransmit(j)
  BY <1>2 DEF At, Jobs
<1>5. /\ k.stage \in {"numbering", "deleting", "done"}
      /\ j.kind = "delete" => k.stage = "deleting"
  BY <1>1, <1>2, <1>4 DEF AfterTransmit, JobFits
<1> HIDE DEF k
<1>6. Eff' = Eff
  <2>1. CASE j.kind = "hello"
    <3>1. ASSUME NEW h \in jobs, InDelete(h) PROVE h \in jobs'
      BY <1>1, <2>1, <3>1 DEF InDelete
    <3>2. \A h \in jobs' : h \in jobs
      BY <1>1, <2>1
    <3> QED BY <1>1, <3>1, <3>2, EffStaysWith
  <2>2. CASE j.kind # "hello"
    <3>1. InDelete(j) <=> InDelete(k)
      BY <1>1, <1>2, <1>4, <1>5 DEF InDelete, JobFits
    <3> QED BY <1>1, <1>4, <2>2, <3>1, EffStaysTo
  <2> QED BY <2>1, <2>2
<1>7. \A h \in jobs : h # j => h \in jobs'
  BY <1>1 DEF To
<1>8. v < version /\ Underway => Underway'
  <2> SUFFICES ASSUME v < version, Underway PROVE Underway'
    OBVIOUS
  <2>1. PICK h \in jobs : IsFresh(h, version)
    BY DEF Underway
  <2>2. h # j
    BY <1>1, <1>2, <2>1 DEF IsFresh
  <2>3. h \in jobs' /\ IsFresh(h, version')
    BY <1>1, <1>7, <2>1, <2>2
  <2> QED BY <2>3, Zenon DEF Underway
<1>9. Announced'
  <2>1. CASE v = version
    <3>1. sent' = version'
      BY <1>1, <1>2, <1>3, <2>1
    <3>a. version' \in Nat
      BY <1>1, <1>2
    <3>2. ~(sent' < version')
      BY <3>1, <3>a
    <3> QED BY <3>2, Zenon DEF Announced
  <2>2. CASE v # version
    <3>1. v < version
      BY <1>2, <2>2
    <3>2. sent < version => Underway'
      BY <3>1, <1>8 DEF ShowInv, Announced
    <3>3. sent' < version' => sent < version
      BY <1>1, <1>2, <1>3
    <3> QED BY <3>2, <3>3, Zenon DEF Announced
  <2> QED BY <2>1, <2>2
<1>10. Underway' \/ c.late \/ c.index = Eff'
  <2>1. CASE v = version
    <3>1. ListSays(j, version, Eff)
      BY DEF ShowInv, ListsSay
    <3> QED BY <3>1, <1>1, <1>6, <2>1 DEF ListSays
  <2>2. CASE v # version
    <3>1. v < version
      BY <1>2, <2>2
    <3>2. sent < version => Underway'
      BY <3>1, <1>8 DEF ShowInv, Announced
    <3>3. v < sent \/ sent < version
      BY <1>2, <1>3, <3>1
    <3>4. v < sent => c.late
      OBVIOUS
    <3> QED BY <3>2, <3>3, <3>4, Zenon
  <2> QED BY <2>1, <2>2
<1> HIDE DEF c
<1>11. PagesShow'
  <2>1. ASSUME NEW p \in Pages, open[p] PROVE PageShows(p)'
    <3> DEFINE S == Messages(nextId)
               q == inbox[p]
               r == Append(q, c)
    <3>1. q \in Seq(S)
      BY DEF TableTypes, PageTypes
    <3> HIDE DEF S, q
    <3>2. r # <<>> /\ r[Len(r)] = c
      BY <3>1
    <3>3. inbox'[p] = r
      BY <1>1, <2>1 DEF q
    <3> HIDE DEF r
    <3>4. Underway' \/ Comes(inbox'[p], Eff')
      BY <3>2, <3>3, <1>10 DEF Comes
    <3> QED BY <3>4, Zenon DEF PageShows
  <2> QED BY <2>1, <1>1 DEF PagesShow
<1>12. ListsSay'
  <2>1. ASSUME NEW h \in jobs' PROVE ListSays(h, version', Eff')
    <3>1. CASE h \in jobs
      BY <3>1, <1>1, <1>6 DEF ShowInv, ListsSay
    <3>2. CASE h \notin jobs
      <4>1. h = k
        BY <3>2, <1>1 DEF To
      <4> QED BY <4>1, <1>5 DEF ListSays
    <3> QED BY <3>1, <3>2
  <2> QED BY <2>1, Zenon DEF ListsSay
<1> QED BY <1>9, <1>11, <1>12, Zenon DEF ShowInv

\* A page shows the list it receives, which is the last one on its way or is followed by it.
LEMMA ReceiveShows == ShowInv /\ TableTypes /\ Receive => ShowInv'
<1> SUFFICES ASSUME ShowInv, TableTypes, Receive PROVE ShowInv'
  OBVIOUS
<1>1. PICK p \in Pages :
        /\ inbox[p] # <<>>
        /\ inbox' = [inbox EXCEPT ![p] = Tail(@)]
        /\ view' = [view EXCEPT ![p] = Head(inbox[p]).index]
        /\ behind' = [behind EXCEPT ![p] = Head(inbox[p]).late]
        /\ UNCHANGED <<server, open, jobs>>
  BY DEF Receive
<1> DEFINE q == inbox[p]
           c == Head(q)
           r == Tail(q)
           S == Messages(nextId)
<1>2. UNCHANGED <<stored, version, sent, open>> /\ jobs' = jobs /\ open' = open /\ version' = version
  BY <1>1 DEF server
<1>3. inbox \in [Pages -> Seq(S)] /\ view \in [Pages -> Tables(nextId)] /\ behind \in [Pages -> BOOLEAN]
  BY DEF TableTypes, PageTypes, TruthTypes
<1>4. q \in Seq(S) /\ q # <<>>
  BY <1>1, <1>3
<1>5. /\ inbox' = [inbox EXCEPT ![p] = r] /\ view' = [view EXCEPT ![p] = c.index]
      /\ behind' = [behind EXCEPT ![p] = c.late]
  BY <1>1
<1> HIDE DEF S, q
<1>6. Len(q) \in Nat \ {0} /\ c = q[1] /\ r \in Seq(S) /\ Len(r) = Len(q) - 1
      /\ \A i \in 1..(Len(q) - 1) : r[i] = q[i + 1]
  BY <1>4
<1> HIDE DEF c, r
<1>7. Eff' = Eff
  BY <1>2, EffStaysWith
<1>8. Underway' = Underway
  BY <1>2 DEF Underway
<1>9. Announced' /\ ListsSay'
  BY <1>2, <1>7, <1>8 DEF Announced, ListsSay, ShowInv
<1>10. ASSUME NEW s \in Pages, s # p, open[s] PROVE PageShows(s)'
  <2>1. inbox'[s] = inbox[s] /\ view'[s] = view[s] /\ behind'[s] = behind[s]
    BY <1>3, <1>5, <1>10
  <2>2. PageShows(s)
    BY <1>10, Zenon DEF ShowInv, PagesShow
  <2>3. OwnPending(s)' = OwnPending(s)
    BY <1>2 DEF OwnPending
  <2> QED BY <2>1, <2>2, <2>3, <1>7, <1>8, Zenon DEF PageShows, HasIt
<1>11. ASSUME open[p] PROVE PageShows(p)'
  <2>1. Underway \/ Comes(q, Eff)
    BY <1>4, <1>11, Zenon DEF ShowInv, PagesShow, PageShows, q
  <2>2. inbox'[p] = r /\ view'[p] = c.index /\ behind'[p] = c.late
    BY <1>3, <1>5
  <2>3. CASE Underway
    BY <1>8, <2>3, Zenon DEF PageShows
  <2>4. CASE Comes(q, Eff)
    <3>1. CASE Len(q) = 1
      <4>1. r = <<>>
        BY <1>6, <3>1
      <4>2. c.late \/ c.index = Eff
        BY <1>6, <2>4, <3>1 DEF Comes
      <4> QED BY <2>2, <4>1, <4>2, <1>7 DEF PageShows, HasIt
    <3>2. CASE Len(q) # 1
      <4> DEFINE n == Len(q)
                 m == Len(r)
      <4>1. n \in Nat \ {0, 1} /\ m = n - 1
        BY <1>6, <3>2
      <4>2. \A i \in 1..(n - 1) : r[i] = q[i + 1]
        BY <1>6
      <4> HIDE DEF n
      <4>3. m \in 1..(n - 1) /\ m + 1 = n
        BY <4>1
      <4> HIDE DEF m
      <4>4. r[m] = q[n] /\ m # 0
        BY <4>2, <4>3
      <4>5. r # <<>>
        BY <4>4 DEF m
      <4>6. Comes(r, Eff)
        BY <4>4, <4>5, <2>4 DEF Comes, m, n
      <4> QED BY <4>6, <2>2, <1>7, Zenon DEF PageShows
    <3> QED BY <3>1, <3>2
  <2> QED BY <2>1, <2>3, <2>4
<1>12. PagesShow'
  <2>1. ASSUME NEW s \in Pages, open[s] PROVE PageShows(s)'
    BY <2>1, <1>10, <1>11, Zenon
  <2> QED BY <2>1, <1>2 DEF PagesShow
<1> QED BY <1>9, <1>12, Zenon DEF ShowInv

\* A page that is cut off shows nothing new, and one that comes back is sent a list.
LEMMA CutShows == ShowInv /\ TableTypes /\ Cut => ShowInv'
<1> SUFFICES ASSUME ShowInv, TableTypes, Cut PROVE ShowInv'
  OBVIOUS
<1>1. PICK p \in Pages :
        /\ open' = [open EXCEPT ![p] = FALSE]
        /\ inbox' = [inbox EXCEPT ![p] = <<>>]
        /\ UNCHANGED <<server, view, jobs, behind>>
  BY Zenon DEF Cut, history
<1>2. UNCHANGED <<stored, version, sent, view, behind, jobs>>
  BY <1>1 DEF server
<1>3. inbox \in [Pages -> Seq(Messages(nextId))] /\ open \in [Pages -> BOOLEAN]
  BY DEF TableTypes, PageTypes, TruthTypes
<1>4. Eff' = Eff
  BY <1>2, EffStaysWith
<1>5. Underway' = Underway
  BY <1>2 DEF Underway
<1>6. Announced' /\ ListsSay'
  BY <1>2, <1>4, <1>5 DEF Announced, ListsSay, ShowInv
<1>7. ASSUME NEW s \in Pages, open'[s] PROVE PageShows(s)'
  <2>1. s # p
    BY <1>1, <1>3, <1>7
  <2>2. open[s] /\ inbox'[s] = inbox[s]
    BY <1>1, <1>3, <1>7, <2>1
  <2>3. PageShows(s)
    BY <2>2, Zenon DEF ShowInv, PagesShow
  <2>4. HasIt(s)' = HasIt(s)
    BY <1>2, <1>4 DEF HasIt, OwnPending
  <2> QED BY <2>2, <2>3, <2>4, <1>4, <1>5, Zenon DEF PageShows
<1>8. PagesShow'
  BY <1>7, Zenon DEF PagesShow
<1> QED BY <1>6, <1>8, Zenon DEF ShowInv

\* A new socket has its consumer read the list.
LEMMA ConnectShows == ShowInv /\ TableTypes /\ Connect => ShowInv'
<1> SUFFICES ASSUME ShowInv, TableTypes, Connect PROVE ShowInv'
  OBVIOUS
<1> DEFINE h(p) == Job(p, "hello", 0, 0, -upsets)
           k(p) == At(h(p), "stored")
<1>1. PICK p \in Pages : jobs' = jobs \cup {k(p)} /\ UNCHANGED server
  BY DEF Connect, Connected
<1>2. stored' = stored /\ version' = version /\ sent' = sent
  BY <1>1 DEF server
<1>3. k(p).stage = "stored" /\ k(p).kind = "hello"
  BY DEF At, Job
<1> HIDE DEF k
<1>4. Eff' = Eff
  <2>1. ASSUME NEW j \in jobs', InDelete(j) PROVE j \in jobs
    BY <1>1, <1>3, <2>1 DEF InDelete
  <2> QED BY <1>1, <1>2, <2>1, EffStaysWith
<1>5. Underway'
  <2>1. k(p) \in jobs' /\ IsFresh(k(p), version')
    BY <1>1, <1>3 DEF IsFresh
  <2> QED BY <2>1, Zenon DEF Underway
<1>6. ListsSay'
  <2>1. ASSUME NEW j \in jobs' PROVE ListSays(j, version', Eff')
    <3>1. CASE j \in jobs
      BY <3>1, <1>2, <1>4 DEF ShowInv, ListsSay
    <3>2. CASE j \notin jobs
      BY <3>2, <1>1, <1>3 DEF ListSays
    <3> QED BY <3>1, <3>2
  <2> QED BY <2>1, Zenon DEF ListsSay
<1>7. Announced' /\ PagesShow'
  BY <1>5, Zenon DEF Announced, PagesShow, PageShows
<1> QED BY <1>6, <1>7, Zenon DEF ShowInv

\* Every step keeps the invariant.
LEMMA ShowStays == ShowInv /\ TableTypes /\ [Next]_vars => ShowInv'
<1> SUFFICES ASSUME ShowInv, TableTypes, [Next]_vars PROVE ShowInv'
  OBVIOUS
<1>1. CASE Move \/ MoveRaises \/ OpenForm \/ SubmitForm \/ CreateTask \/ DeleteTask
  BY <1>1, Zenon, MoveShows, MoveRaisesShows, FormsShow
<1>2. ASSUME NEW j \in jobs,
        \/ Fail(j) \/ FindRow(j) \/ UpdateRow(j) \/ InsertRow(j) \/ DeleteRow(j) \/ CommitDelete(j)
        \/ Read(j) \/ TransmitTasks(j) \/ CountTasks(j) \/ NumberRow(j) \/ Answer(j)
      PROVE ShowInv'
  <2>1. CASE Fail(j)
    <3>1. /\ j.stage = "sent" /\ jobs' = jobs \ {j} /\ behind' = [behind EXCEPT ![j.page] = TRUE]
          /\ UNCHANGED <<stored, version, sent, inbox, open>> /\ view' = view
      BY <2>1 DEF Fail, server, pages
    <3> QED BY <3>1, FailShows
  <2>2. CASE FindRow(j) \/ UpdateRow(j) \/ InsertRow(j) \/ DeleteRow(j) \/ NumberRow(j)
    BY <2>2, Zenon, FindRowShows, WritesShow
  <2>3. CASE CommitDelete(j) \/ Read(j) \/ TransmitTasks(j) \/ CountTasks(j) \/ Answer(j)
    BY <2>3, Zenon, CommitDeleteShows, ReadShows, TransmitTasksShows, CountTasksShows, AnswerShows
  <2> QED BY <1>2, <2>1, <2>2, <2>3, Zenon
<1>3. CASE Receive \/ Cut \/ Connect
  BY <1>3, Zenon, ReceiveShows, CutShows, ConnectShows
<1>4. CASE UNCHANGED vars
  <2>1. /\ UNCHANGED <<stored, version, sent, inbox, open, jobs, view, behind>>
    BY <1>4 DEF vars, server, pages, history
  <2>2. Eff' = Eff
    BY <2>1, EffStaysWith
  <2>3. Underway => Underway'
    BY <2>1 DEF Underway
  <2>4. \A p \in Pages : HasIt(p) => HasIt(p)'
    BY <2>1, <2>2 DEF HasIt, OwnPending
  <2> QED BY <2>1, <2>2, <2>3, <2>4, ShowKept
<1> QED BY <1>1, <1>2, <1>3, <1>4, Zenon DEF Next

\* It holds at first.
LEMMA ShowFirst == Init /\ TableTypes => ShowInv
<1> SUFFICES ASSUME Init, TableTypes PROVE ShowInv
  OBVIOUS
<1>1. jobs = {} /\ version = 0 /\ sent = 0 /\ view = [p \in Pages |-> stored]
      /\ inbox = [p \in Pages |-> <<>>]
  BY DEF Init
<1>2. Eff = stored
  <2>1. stored \in Tables(nextId) /\ nextId \in Nat
    BY DEF TableTypes, RowTypes
  <2>2. Gone = {}
    BY <1>1 DEF Gone, Deleting
  <2>3. stored = [u \in DOMAIN stored |-> stored[u]]
    BY <2>1, TablesAre
  <2> QED BY <2>2, <2>3 DEF Eff
<1>3. Announced /\ ListsSay
  BY <1>1 DEF Announced, ListsSay
<1>4. PagesShow
  BY <1>1, <1>2 DEF PagesShow, PageShows, HasIt
<1> QED BY <1>3, <1>4, Zenon DEF ShowInv

\* It says what PagesShowStored does.
LEMMA ShowSays == ShowInv /\ TableTypes => PagesShowStored
<1> SUFFICES ASSUME ShowInv, TableTypes, jobs = {},
                    NEW p \in Pages, open[p], inbox[p] = <<>>, ~behind[p]
             PROVE  view[p] = stored
  BY Zenon DEF PagesShowStored, Quiet
<1>1. ~Underway /\ ~OwnPending(p)
  BY DEF Underway, OwnPending
<1>2. PageShows(p)
  BY Zenon DEF ShowInv, PagesShow
<1>3. view[p] = Eff
  BY <1>1, <1>2, Zenon DEF PageShows, Comes, HasIt
<1>4. stored \in Tables(nextId) /\ nextId \in Nat
  BY DEF TableTypes, RowTypes
<1>5. Gone = {}
  BY DEF Gone, Deleting
<1>6. stored = [u \in DOMAIN stored |-> stored[u]]
  BY <1>4, TablesAre
<1> QED BY <1>3, <1>5, <1>6 DEF Eff

\* However many pages there are, and in whatever order requests, lists and answers arrive:
\* when nothing is on its way, a connected page shows the table as it is stored, unless a
\* list was late, an answer was overtaken, a request failed or a move raised.
THEOREM PagesComeToShow == Spec => []PagesShowStored
<1>1. Init => TableTypes /\ ShowInv
  BY ResultsAssumption, TableTypesFirst, ShowFirst
<1>2. TableTypes /\ ShowInv /\ [Next]_vars => (TableTypes /\ ShowInv)'
  BY TableTypesStay, ShowStays
<1>3. TableTypes /\ ShowInv => PagesShowStored
  BY ShowSays
<1> QED BY <1>1, <1>2, <1>3, PTL DEF Spec

-----------------------------------------------------------------------------
(* Columns. A table with distinct indexes shows its tasks in one order.    *)

Distinct(f) == \A u, v \in DOMAIN f : f[u] = f[v] => u = v
IsColumns(s, f) ==
  /\ s \in [1..Cardinality(DOMAIN f) -> DOMAIN f]
  /\ \A i, j \in DOMAIN s : i < j => f[s[i]] < f[s[j]]
Settled(f, s) == Distinct(f) /\ IsColumns(s, f)

\* The tasks of a table are counted.
LEMMA TasksAreCounted ==
  ASSUME NEW n \in Nat, NEW f \in Tables(n)
  PROVE  IsFiniteSet(DOMAIN f) /\ Cardinality(DOMAIN f) \in Nat
<1>1. DOMAIN f \in SUBSET (1..(n - 1))
  BY TablesAre
<1>2. IsFiniteSet(1..(n - 1))
  BY FS_Interval
<1>3. IsFiniteSet(DOMAIN f)
  BY <1>1, <1>2, FS_Subset
<1> QED BY <1>3, FS_CardinalityType

\* As many places as tasks, each with a task of its own: every task has a place.
LEMMA AllHavePlaces ==
  ASSUME NEW D, IsFiniteSet(D), NEW n \in Nat, n = Cardinality(D), NEW s \in [1..n -> D],
         \A i, j \in 1..n : s[i] = s[j] => i = j
  PROVE  \A u \in D : \E i \in 1..n : s[i] = u
<1>1. Cardinality(1..n) = n
  <2>1. 1 \in Int /\ n \in Int
    OBVIOUS
  <2>2. Cardinality(1..n) = IF 1 > n THEN 0 ELSE n - 1 + 1
    BY <2>1, FS_Interval
  <2> QED BY <2>2
<1>2. s \in Injection(1..n, D)
  BY DEF Injection, IsInjective
<1>3. s \in Surjection(1..n, D)
  BY <1>1, <1>2, FS_Injection
<1> QED BY <1>3 DEF Surjection

\* As many places as tasks, each with another task, leave no task out.
LEMMA AllAreTaken ==
  ASSUME NEW D, IsFiniteSet(D), NEW n \in Nat, n = Cardinality(D), NEW r \in [D -> 1..n],
         \A u, v \in D : r[u] = r[v] => u = v
  PROVE  \A i \in 1..n : \E u \in D : r[u] = i
<1>1. IsFiniteSet(1..n) /\ Cardinality(1..n) = n
  <2>1. 1 \in Int /\ n \in Int
    OBVIOUS
  <2>2. IsFiniteSet(1..n) /\ Cardinality(1..n) = IF 1 > n THEN 0 ELSE n - 1 + 1
    BY <2>1, FS_Interval
  <2> QED BY <2>2
<1>2. r \in Injection(D, 1..n)
  BY DEF Injection, IsInjective
<1>3. r \in Surjection(D, 1..n)
  BY <1>1, <1>2, FS_Injection
<1> QED BY <1>3 DEF Surjection

\* In columns that are in order each task has one place.
Places(s, f, n) ==
  /\ n \in Nat /\ DOMAIN s = 1..n
  /\ \A i \in 1..n : s[i] \in DOMAIN f /\ f[s[i]] \in Int
  /\ \A i, j \in 1..n : i < j => f[s[i]] < f[s[j]]
  /\ \A i, j \in 1..n : s[i] = s[j] => i = j
  /\ \A u \in DOMAIN f : \E i \in 1..n : s[i] = u

\* The columns of a table are its tasks, each in one place.
LEMMA ColumnsHaveAll ==
  ASSUME NEW m \in Nat, NEW f \in Tables(m), NEW s, IsColumns(s, f)
  PROVE  Places(s, f, Cardinality(DOMAIN f))
<1> DEFINE D == DOMAIN f
           n == Cardinality(D)
<1>1. IsFiniteSet(D) /\ n \in Nat
  BY TasksAreCounted
<1>2. \A u \in D : f[u] \in Int
  BY TablesAre
<1>3. s \in [1..n -> D] /\ \A i, j \in 1..n : i < j => f[s[i]] < f[s[j]]
  BY DEF IsColumns
<1> HIDE DEF D
<1>4. n = Cardinality(D)
  OBVIOUS
<1> HIDE DEF n
<1>5. ASSUME NEW i \in 1..n, NEW j \in 1..n, s[i] = s[j] PROVE i = j
  <2>1. s[i] \in D /\ f[s[i]] \in Int
    BY <1>2, <1>3
  <2>2. ~(i < j) /\ ~(j < i)
    BY <1>3, <1>5, <2>1
  <2> QED BY <2>2, <1>1
<1>6. \A u \in D : \E i \in 1..n : s[i] = u
  BY <1>1, <1>3, <1>4, <1>5, AllHavePlaces
<1>7. DOMAIN s = 1..n /\ \A i \in 1..n : s[i] \in D /\ f[s[i]] \in Int
  BY <1>2, <1>3
<1> QED BY <1>1, <1>3, <1>5, <1>6, <1>7 DEF D, n, Places

\* A table with distinct indexes has its tasks in order: each task's place is the number of
\* tasks whose index is not higher.
LEMMA ColumnsExist ==
  ASSUME NEW m \in Nat, NEW f \in Tables(m), Distinct(f)
  PROVE  \E s : IsColumns(s, f)
<1> DEFINE D == DOMAIN f
           n == Cardinality(D)
           Below(u) == {v \in D : f[v] <= f[u]}
           r == [u \in D |-> Cardinality(Below(u))]
           s == [i \in 1..n |-> CHOOSE u \in D : r[u] = i]
<1>1. IsFiniteSet(D) /\ n \in Nat /\ \A u \in D : f[u] \in Int
  BY TasksAreCounted, TablesAre
<1>2. \A u, v \in D : f[u] = f[v] => u = v
  BY DEF Distinct
<1> HIDE DEF D
<1>3. ASSUME NEW u \in D
      PROVE  /\ IsFiniteSet(Below(u)) /\ Cardinality(Below(u)) \in 1..n
             /\ Below(u) \subseteq D /\ u \in Below(u)
  <2>1. Below(u) \in SUBSET D /\ u \in Below(u)
    BY <1>1
  <2> HIDE DEF Below
  <2>2. IsFiniteSet(Below(u)) /\ Cardinality(Below(u)) <= n
    BY <1>1, <2>1, FS_Subset
  <2>3. Cardinality(Below(u)) \in Nat /\ Cardinality(Below(u)) # 0
    BY <2>1, <2>2, FS_CardinalityType, FS_EmptySet
  <2> QED BY <1>1, <2>1, <2>2, <2>3
<1>4. ASSUME NEW u \in D, NEW v \in D, f[u] < f[v]
      PROVE  Cardinality(Below(u)) < Cardinality(Below(v))
  <2>1. Below(u) \in SUBSET Below(v) /\ v \in Below(v) /\ v \notin Below(u)
    BY <1>1, <1>4
  <2>2. IsFiniteSet(Below(v)) /\ Cardinality(Below(v)) \in 1..n /\ Cardinality(Below(u)) \in 1..n
    BY <1>3
  <2> HIDE DEF Below
  <2>3. /\ Cardinality(Below(u)) <= Cardinality(Below(v))
        /\ Cardinality(Below(v)) = Cardinality(Below(u)) => Below(v) = Below(u)
    BY <2>1, <2>2, FS_Subset
  <2> QED BY <1>1, <2>1, <2>2, <2>3
<1>5. r \in [D -> 1..n] /\ \A u \in D : r[u] = Cardinality(Below(u))
  BY <1>3
<1> HIDE DEF r, Below
<1>6. ASSUME NEW u \in D, NEW v \in D, r[u] = r[v] PROVE u = v
  <2>1. ~(f[u] < f[v]) /\ ~(f[v] < f[u])
    BY <1>1, <1>3, <1>4, <1>5, <1>6
  <2> QED BY <1>1, <1>2, <2>1
<1>7. \A i \in 1..n : \E u \in D : r[u] = i
  <2>1. n = Cardinality(D)
    OBVIOUS
  <2> HIDE DEF n
  <2> QED BY <1>1, <1>5, <1>6, <2>1, AllAreTaken
<1>8. \A i \in 1..n : s[i] \in D /\ r[s[i]] = i
  BY <1>7
<1>9. s \in [1..n -> D] /\ DOMAIN s = 1..n
  BY <1>8
<1> HIDE DEF s
<1>10. ASSUME NEW i \in 1..n, NEW j \in 1..n, i < j PROVE f[s[i]] < f[s[j]]
  <2> DEFINE u == s[i]
             v == s[j]
  <2>1. u \in D /\ v \in D /\ r[u] = i /\ r[v] = j
    BY <1>8
  <2> HIDE DEF u, v
  <2>2. u # v /\ ~(f[v] < f[u])
    <3>1. f[v] < f[u] => r[v] < r[u]
      BY <1>4, <1>5, <2>1
    <3> QED BY <1>1, <1>10, <2>1, <3>1
  <2>3. f[u] < f[v]
    BY <1>1, <1>2, <2>1, <2>2
  <2> QED BY <2>3 DEF u, v
<1>11. IsColumns(s, f)
  BY <1>9, <1>10 DEF IsColumns, D
<1> QED BY <1>11

\* It has one order only: where two of them first differ, one has a task that the other has
\* no place for.
LEMMA NoTaskLeftOut ==
  ASSUME NEW m \in Nat, NEW f \in Tables(m), NEW s, NEW r, IsColumns(s, f), IsColumns(r, f),
         NEW k \in DOMAIN s, \A i \in DOMAIN s : i < k => s[i] = r[i]
  PROVE  ~(f[s[k]] < f[r[k]])
<1> DEFINE n == Cardinality(DOMAIN f)
<1> SUFFICES ASSUME f[s[k]] < f[r[k]] PROVE FALSE
  OBVIOUS
<1>0. Places(s, f, n) /\ Places(r, f, n)
  BY ColumnsHaveAll
<1> HIDE DEF n
<1>1. /\ n \in Nat /\ DOMAIN s = 1..n
      /\ \A i \in 1..n : s[i] \in DOMAIN f /\ f[s[i]] \in Int
      /\ \A i, j \in 1..n : i < j => f[s[i]] < f[s[j]]
  BY <1>0 DEF Places
<1>2. /\ DOMAIN r = 1..n
      /\ \A i \in 1..n : r[i] \in DOMAIN f /\ f[r[i]] \in Int
      /\ \A i, j \in 1..n : i < j => f[r[i]] < f[r[j]]
      /\ \A u \in DOMAIN f : \E i \in 1..n : r[i] = u
  BY <1>0 DEF Places
<1>3. k \in 1..n
  BY <1>1
<1>4. PICK j \in 1..n : r[j] = s[k]
  BY <1>1, <1>2, <1>3
<1>5. CASE j < k
  <2>1. s[j] = s[k]
    BY <1>1, <1>4, <1>5
  <2>2. f[s[j]] < f[s[k]] /\ f[s[k]] \in Int
    BY <1>1, <1>3, <1>5
  <2> QED BY <2>1, <2>2
<1>6. CASE j = k
  BY <1>2, <1>3, <1>4, <1>6
<1>7. CASE k < j
  <2>1. f[r[k]] < f[r[j]] /\ f[r[k]] \in Int /\ f[s[k]] \in Int
    BY <1>1, <1>2, <1>3, <1>7
  <2> QED BY <1>4, <2>1
<1> QED BY <1>3, <1>5, <1>6, <1>7

\* There is one order only.
LEMMA ColumnsOne ==
  ASSUME NEW m \in Nat, NEW f \in Tables(m), Distinct(f), NEW s, NEW r, IsColumns(s, f), IsColumns(r, f)
  PROVE  s = r
<1> DEFINE n == Cardinality(DOMAIN f)
<1>1. n \in Nat /\ s \in [1..n -> DOMAIN f] /\ r \in [1..n -> DOMAIN f]
  BY TasksAreCounted DEF IsColumns
<1>2. \A u \in DOMAIN f : f[u] \in Int
  BY TablesAre
<1> HIDE DEF n
<1> DEFINE U == {i \in 1..n : s[i] # r[i]}
<1>3. CASE U = {}
  BY <1>1, <1>3
<1>4. CASE U # {}
  <2>1. U \in SUBSET Nat
    OBVIOUS
  <2>2. PICK k \in U : \A i \in U : k <= i
    BY <1>4, <2>1, LeastExists
  <2>3. k \in 1..n /\ s[k] # r[k] /\ DOMAIN s = 1..n /\ DOMAIN r = 1..n
    BY <1>1, <2>2
  <2>4. \A i \in 1..n : i < k => s[i] = r[i]
    BY <2>2, <2>3
  <2>5. ~(f[s[k]] < f[r[k]])
    BY <2>3, <2>4, NoTaskLeftOut
  <2>6. ~(f[r[k]] < f[s[k]])
    <3>1. \A i \in DOMAIN r : i < k => r[i] = s[i]
      BY <2>3, <2>4
    <3> QED BY <2>3, <3>1, NoTaskLeftOut
  <2>7. s[k] \in DOMAIN f /\ r[k] \in DOMAIN f
    BY <1>1, <2>3
  <2>8. f[s[k]] = f[r[k]]
    BY <1>2, <2>5, <2>6, <2>7
  <2> QED BY <2>3, <2>7, <2>8 DEF Distinct
<1> QED BY <1>3, <1>4

\* The columns that the model names are these.
LEMMA ColumnsAre ==
  ASSUME NEW m \in Nat, NEW f \in Tables(m), Distinct(f)
  PROVE  IsColumns(Columns(f), f) /\ \A s : Settled(f, s) => Columns(f) = s
<1>1. PICK s : IsColumns(s, f)
  BY ColumnsExist
<1>2. Columns(f) = CHOOSE r \in [1..Cardinality(DOMAIN f) -> DOMAIN f] :
                     \A i, j \in DOMAIN r : i < j => f[r[i]] < f[r[j]]
  BY DEF Columns
<1>3. IsColumns(Columns(f), f)
  BY <1>1, <1>2 DEF IsColumns
<1> QED BY <1>3, ColumnsOne DEF Settled

\* Two neighbours that exchange their indexes exchange their places.
LEMMA SettledExchanged ==
  ASSUME NEW m \in Nat, NEW f \in Tables(m), NEW g \in Tables(m), NEW t \in DOMAIN f,
         NEW u \in DOMAIN f, NEW d \in Int, t # u, f[u] = f[t] + d, Exchanges(g, f, t, u, d),
         NEW s, Settled(f, s)
  PROVE  Settled(g, Swapped(s, t, u))
<1> DEFINE n == Cardinality(DOMAIN f)
           r == [i \in DOMAIN s |-> CASE s[i] = t -> u [] s[i] = u -> t [] OTHER -> s[i]]
<1>0. Places(s, f, n) /\ Distinct(f)
  BY ColumnsHaveAll DEF Settled
<1>1. DOMAIN g = DOMAIN f /\ \A v \in DOMAIN f : f[v] \in Int
  BY TablesAre DEF Exchanges
<1>2. n = Cardinality(DOMAIN g)
  BY <1>1
<1> HIDE DEF n
<1>3. /\ n \in Nat /\ DOMAIN s = 1..n
      /\ \A i \in 1..n : s[i] \in DOMAIN f
      /\ \A i, j \in 1..n : i < j => f[s[i]] < f[s[j]]
  BY <1>0 DEF Places
<1>4. g[t] = f[u] /\ g[u] = f[t]
  BY <1>1 DEF Exchanges
<1>5. \A v \in DOMAIN f : v \notin {t, u} => g[v] = f[v]
  BY DEF Exchanges
<1>6. DOMAIN r = 1..n
  BY <1>3
<1>7. ASSUME NEW i \in 1..n PROVE r[i] \in DOMAIN f /\ g[r[i]] = f[s[i]]
  <2>1. CASE s[i] = t
    BY <1>3, <1>4, <2>1
  <2>2. CASE s[i] = u
    BY <1>3, <1>4, <2>2
  <2>3. CASE s[i] \notin {t, u}
    <3>1. r[i] = s[i]
      BY <1>3, <2>3
    <3> QED BY <1>3, <1>5, <2>3, <3>1
  <2> QED BY <2>1, <2>2, <2>3
<1>8. r \in [1..n -> DOMAIN f]
  <2>1. r = [i \in 1..n |-> r[i]]
    BY <1>3
  <2> HIDE DEF r
  <2> QED BY <1>7, <2>1
<1> HIDE DEF r
<1>9. IsColumns(r, g)
  <2>1. \A i, j \in 1..n : i < j => g[r[i]] < g[r[j]]
    BY <1>3, <1>7
  <2> QED BY <1>1, <1>2, <1>6, <1>8, <2>1 DEF IsColumns
<1>10. Distinct(g)
  <2> SUFFICES ASSUME NEW v \in DOMAIN f, NEW w \in DOMAIN f, g[v] = g[w] PROVE v = w
    BY <1>1 DEF Distinct
  <2>1. \A x, y \in DOMAIN f : f[x] = f[y] => x = y
    BY <1>0 DEF Distinct
  <2>2. CASE v = t
    BY <1>4, <1>5, <2>1, <2>2
  <2>3. CASE v = u
    BY <1>4, <1>5, <2>1, <2>3
  <2>4. CASE v \notin {t, u}
    BY <1>4, <1>5, <2>1, <2>4
  <2> QED BY <2>2, <2>3, <2>4
<1> QED BY <1>9, <1>10 DEF Settled, r, Swapped

\* A task that is taken away leaves the others in order.
LEMMA SettledDropped ==
  ASSUME NEW m \in Nat, NEW f \in Tables(m), NEW g \in Tables(m), NEW t \in DOMAIN f,
         Removes(g, f, t), NEW s, Settled(f, s)
  PROVE  Settled(g, Dropped(s, t))
<1> DEFINE D == DOMAIN f
           n == Cardinality(D)
           k == CHOOSE k \in DOMAIN s : s[k] = t
           r == [i \in 1..(n - 1) |-> IF i < k THEN s[i] ELSE s[i + 1]]
<1>0. Places(s, f, n) /\ Distinct(f) /\ IsFiniteSet(D)
  BY ColumnsHaveAll, TasksAreCounted DEF Settled
<1>1. DOMAIN g = D \ {t} /\ \A v \in D \ {t} : g[v] = f[v]
  BY DEF Removes
<1>2. Cardinality(DOMAIN g) = n - 1
  BY <1>0, <1>1, FS_RemoveElement
<1> HIDE DEF n
<1>3. /\ n \in Nat /\ DOMAIN s = 1..n
      /\ \A i \in 1..n : s[i] \in D /\ f[s[i]] \in Int
      /\ \A i, j \in 1..n : i < j => f[s[i]] < f[s[j]]
      /\ \A i, j \in 1..n : s[i] = s[j] => i = j
      /\ \E i \in 1..n : s[i] = t
  BY <1>0 DEF Places
<1>4. k \in 1..n /\ s[k] = t
  BY <1>3
<1> HIDE DEF k, D
<1>5. Len(s) = n
  <2>1. s \in [1..n -> D]
    BY DEF Settled, IsColumns, n, D
  <2> QED BY <1>3, <2>1
<1>6. Dropped(s, t) = r
  BY <1>5 DEF Dropped, k
<1>7. ASSUME NEW i \in 1..(n - 1)
      PROVE  /\ r[i] \in D \ {t} /\ g[r[i]] = f[r[i]]
             /\ \A j \in 1..(n - 1) : i < j => f[r[i]] < f[r[j]]
  <2>1. i \in 1..n /\ i + 1 \in 1..n /\ n \in Nat /\ k \in Nat
    BY <1>3, <1>4
  <2> DEFINE a == IF i < k THEN i ELSE i + 1
  <2>2. a \in 1..n /\ a # k /\ r[i] = s[a]
    BY <2>1, <1>4
  <2> HIDE DEF a
  <2>3. r[i] \in D \ {t}
    BY <1>3, <1>4, <2>2
  <2>4. ASSUME NEW j \in 1..(n - 1), i < j PROVE f[r[i]] < f[r[j]]
    <3> DEFINE b == IF j < k THEN j ELSE j + 1
    <3>1. j \in 1..n /\ j + 1 \in 1..n
      BY <2>1
    <3>2. b \in 1..n /\ r[j] = s[b]
      BY <3>1, <1>4
    <3>3. a < b
      BY <2>1, <2>4, <3>1 DEF a
    <3> HIDE DEF b, r
    <3> QED BY <1>3, <2>2, <3>2, <3>3
  <2> QED BY <1>1, <2>3, <2>4
<1>8. r \in [1..(n - 1) -> D \ {t}]
  BY <1>7
<1> HIDE DEF r
<1>9. IsColumns(r, g)
  <2> DEFINE h == n - 1
  <2>1. DOMAIN r = 1..h /\ \A i, j \in 1..h : i < j => g[r[i]] < g[r[j]]
    BY <1>7, <1>8
  <2>2. r \in [1..h -> DOMAIN g] /\ h = Cardinality(DOMAIN g)
    BY <1>1, <1>2, <1>8
  <2> HIDE DEF h
  <2> QED BY <2>1, <2>2 DEF IsColumns
<1>10. Distinct(g)
  BY <1>0, <1>1 DEF Distinct, D
<1> QED BY <1>6, <1>9, <1>10 DEF Settled

\* A task whose index is above all others is the last column.
LEMMA SettledAppended ==
  ASSUME NEW m \in Nat, NEW f \in Tables(m), NEW g \in Tables(m), NEW t, t \notin DOMAIN f,
         NEW i \in Int, Stores(g, f, t, i), \A v \in DOMAIN f : f[v] < i,
         NEW s, Settled(f, s)
  PROVE  Settled(g, Append(s, t))
<1> DEFINE D == DOMAIN f
           n == Cardinality(D)
           r == Append(s, t)
<1>0. Places(s, f, n) /\ Distinct(f) /\ IsFiniteSet(D)
  BY ColumnsHaveAll, TasksAreCounted DEF Settled
<1>1. DOMAIN g = D \cup {t} /\ g[t] = i /\ \A v \in D : g[v] = f[v]
  BY DEF Stores
<1>2. Cardinality(DOMAIN g) = n + 1
  BY <1>0, <1>1, FS_AddElement
<1>3. s \in [1..n -> D]
  BY DEF Settled, IsColumns
<1> HIDE DEF n
<1>4. /\ n \in Nat
      /\ \A a \in 1..n : s[a] \in D /\ f[s[a]] \in Int
      /\ \A a, b \in 1..n : a < b => f[s[a]] < f[s[b]]
  BY <1>0 DEF Places
<1>5. \A v \in D : f[v] \in Int /\ f[v] < i
  BY TablesAre
<1> HIDE DEF D
<1> DEFINE E == D \cup {t}
<1>6. /\ r \in [1..(n + 1) -> E] /\ r[n + 1] = t
      /\ \A a \in 1..n : r[a] = s[a]
  <2>1. s \in Seq(E) /\ Len(s) = n /\ t \in E
    BY <1>3, <1>4
  <2> HIDE DEF E
  <2>2. r \in Seq(E) /\ Len(r) = n + 1 /\ r[n + 1] = t /\ \A a \in 1..n : r[a] = s[a]
    BY <1>4, <2>1
  <2> HIDE DEF r
  <2> QED BY <2>2
<1> HIDE DEF r
<1>7. IsColumns(r, g)
  <2> DEFINE h == n + 1
  <2>1. \A a \in 1..n : g[r[a]] = f[s[a]]
    BY <1>1, <1>4, <1>6
  <2>2. \A a, b \in 1..h : a < b => g[r[a]] < g[r[b]]
    <3> SUFFICES ASSUME NEW a \in 1..h, NEW b \in 1..h, a < b PROVE g[r[a]] < g[r[b]]
      OBVIOUS
    <3>1. a \in 1..n /\ g[r[a]] = f[s[a]]
      BY <1>4, <2>1
    <3>2. CASE b \in 1..n
      BY <1>4, <2>1, <3>1, <3>2
    <3>3. CASE b = h
      <4>1. g[r[b]] = i
        BY <1>1, <1>6, <3>3
      <4>2. f[s[a]] < i
        BY <1>4, <1>5, <3>1
      <4> QED BY <3>1, <4>1, <4>2
    <3> QED BY <1>4, <3>2, <3>3
  <2>3. r \in [1..h -> DOMAIN g] /\ h = Cardinality(DOMAIN g) /\ DOMAIN r = 1..h
    BY <1>1, <1>2, <1>6
  <2> HIDE DEF h
  <2> QED BY <2>2, <2>3 DEF IsColumns
<1>8. Distinct(g)
  <2> SUFFICES ASSUME NEW v \in E, NEW w \in E, g[v] = g[w] PROVE v = w
    BY <1>1 DEF Distinct
  <2>1. \A x, y \in D : f[x] = f[y] => x = y
    BY <1>0 DEF Distinct, D
  <2>2. \A x \in D : g[x] # g[t]
    BY <1>1, <1>5
  <2> QED BY <1>1, <2>1, <2>2
<1> QED BY <1>7, <1>8 DEF Settled, r

-----------------------------------------------------------------------------
(* The order. While nothing is in doubt, either the tasks are moved, and    *)
(* what is stored is the order that was asked for but for the indexes that  *)
(* are still on their way; or one task is added, and is the last but for    *)
(* its own index; or one is deleted, and the others are in order.           *)

Waits(j) == j.kind = "put" /\ j.stage \in {"sent", "found"}
MovedTo(g) ==
  /\ DOMAIN g = DOMAIN stored /\ Settled(g, asked)
  /\ \A j \in jobs : Waits(j) => j.task \in DOMAIN g /\ g[j.task] = j.index
  /\ \A u \in DOMAIN g : stored[u] = g[u] \/ \E j \in jobs : Waits(j) /\ j.task = u
Plain(j) ==
  j.kind = "hello" \/ (j.kind = "put" /\ j.stage \in {"sent", "found", "stored", "read", "done"})
Moves == /\ \A j \in jobs : Plain(j)
         /\ \E g \in Tables(nextId) : MovedTo(g)
Alone(j) == \A k \in jobs : k.kind # "hello" => k = j
IsLast(t, f, s) == t \in DOMAIN f /\ \E r : s = Append(r, t) /\ Settled(Without(f, t), r)
Adding(j, f, s) ==
  /\ j.kind = "post"
  /\ j.stage \in {"sent", "stored", "read", "done"} => Settled(f, s)
  /\ j.stage \in {"inserted", "listed", "numbering", "counted"} => IsLast(j.task, f, s)
  /\ j.stage = "counted" => \A u \in DOMAIN f \ {j.task} : f[u] < j.index
Dropping(j, f, s) ==
  /\ j.kind = "delete"
  /\ IF j.stage = "done" THEN Settled(f, s)
     ELSE j.task \in DOMAIN f /\ Settled(Without(f, j.task), s)
OneAlone == \E j \in jobs : Alone(j) /\ (Adding(j, stored, asked) \/ Dropping(j, stored, asked))
OrderInv == doubt \/ Moves \/ OneAlone

\* What is in doubt stays so.
LEMMA DoubtStays == doubt /\ [Next]_vars => doubt'
<1> SUFFICES ASSUME doubt, [Next]_vars PROVE doubt'
  OBVIOUS
<1>1. CASE UNCHANGED vars
  BY <1>1 DEF vars, history
<1>2. CASE Move \/ MoveRaises \/ OpenForm
  <2>1. CASE Move
    <3>1. \E p \in Pages : \E new : SendsOut(p, new)
      BY <2>1, Zenon DEF Move
    <3> QED BY <3>1 DEF SendsOut
  <2>2. CASE MoveRaises \/ OpenForm
    BY <2>2 DEF MoveRaises, OpenForm, history
  <2> QED BY <1>2, <2>1, <2>2
<1>3. CASE SubmitForm \/ CreateTask \/ DeleteTask
  BY <1>3 DEF SubmitForm, CreateTask, DeleteTask, SendsOut
<1>4. CASE Receive \/ Cut \/ Connect
  BY <1>4 DEF Receive, Cut, Connect, Connected, history
<1>5. ASSUME NEW j \in jobs,
        \/ Fail(j) \/ FindRow(j) \/ UpdateRow(j) \/ InsertRow(j) \/ DeleteRow(j) \/ CommitDelete(j)
        \/ Read(j) \/ TransmitTasks(j) \/ CountTasks(j) \/ NumberRow(j) \/ Answer(j)
      PROVE doubt'
  <2>1. CASE Fail(j) \/ FindRow(j) \/ UpdateRow(j) \/ InsertRow(j) \/ DeleteRow(j) \/ CommitDelete(j)
    BY <2>1 DEF Fail, FindRow, UpdateRow, Saved, InsertRow, Inserted, DeleteRow, CommitDelete, history
  <2>2. CASE Read(j) \/ TransmitTasks(j) \/ CountTasks(j) \/ NumberRow(j) \/ Answer(j)
    BY <2>2 DEF Read, TransmitTasks, CountTasks, NumberRow, Saved, Answer, history
  <2> QED BY <1>5, <2>1, <2>2, Zenon
<1> QED BY <1>1, <1>2, <1>3, <1>4, <1>5, Zenon DEF Next

\* Only what the requests do matters to the order.
LEMMA OrderSame ==
  ASSUME OrderInv, UNCHANGED <<stored, nextId, asked, doubt>>,
         \A k \in jobs : k.kind # "hello" => k \in jobs',
         \A k \in jobs' : k.kind # "hello" => k \in jobs
  PROVE  OrderInv'
<1>1. stored' = stored /\ nextId' = nextId /\ asked' = asked /\ doubt' = doubt
  OBVIOUS
<1>2. CASE doubt
  BY <1>1, <1>2, Zenon DEF OrderInv
<1>3. CASE Moves
  <2>1. PICK g \in Tables(nextId) : MovedTo(g)
    BY <1>3 DEF Moves
  <2>2. /\ DOMAIN g = DOMAIN stored /\ Settled(g, asked)
        /\ \A j \in jobs : Waits(j) => j.task \in DOMAIN g /\ g[j.task] = j.index
        /\ \A u \in DOMAIN g : stored[u] = g[u] \/ \E j \in jobs : Waits(j) /\ j.task = u
    BY <2>1 DEF MovedTo
  <2>3. \A j : Waits(j) => (j \in jobs <=> j \in jobs')
    BY DEF Waits
  <2>4. MovedTo(g)'
    BY <1>1, <2>2, <2>3 DEF MovedTo
  <2>5. \A j \in jobs' : Plain(j)
    BY <1>3 DEF Moves, Plain
  <2>6. Moves'
    BY <1>1, <2>4, <2>5, Zenon DEF Moves
  <2> QED BY <2>6, Zenon DEF OrderInv
<1>4. CASE OneAlone
  <2>1. PICK j \in jobs : Alone(j) /\ (Adding(j, stored, asked) \/ Dropping(j, stored, asked))
    BY <1>4 DEF OneAlone
  <2>2. j.kind # "hello"
    BY <2>1 DEF Adding, Dropping
  <2>3. j \in jobs' /\ Alone(j)'
    BY <2>1, <2>2 DEF Alone
  <2>4. OneAlone'
    BY <1>1, <2>1, <2>3 DEF OneAlone
  <2> QED BY <2>4, Zenon DEF OrderInv
<1> QED BY <1>2, <1>3, <1>4, Zenon DEF OrderInv

\* When no request is under way the order stored is the one asked for.
LEMMA QuietIsSettled ==
  ASSUME OrderInv, TableTypes, jobs = {}, ~doubt
  PROVE  Settled(stored, asked)
<1>1. Moves
  BY DEF OrderInv, OneAlone
<1>2. PICK g \in Tables(nextId) : MovedTo(g)
  BY <1>1 DEF Moves
<1>3. nextId \in Nat /\ stored \in Tables(nextId)
  BY DEF TableTypes, RowTypes
<1>4. DOMAIN g = DOMAIN stored /\ \A u \in DOMAIN g : stored[u] = g[u]
  BY <1>2 DEF MovedTo
<1>5. stored = [u \in DOMAIN stored |-> stored[u]] /\ g = [u \in DOMAIN g |-> g[u]]
  BY <1>3, TablesAre
<1>6. stored = g
  BY <1>4, <1>5
<1> QED BY <1>2, <1>6 DEF MovedTo

\* A request that goes out without doubt is the first, from a page that shows what is stored.
LEMMA SentAlone ==
  ASSUME OrderInv, TableTypes, NEW p \in Pages, NEW new, SendsOut(p, new), ~doubt'
  PROVE  /\ jobs = {} /\ view[p] = stored /\ jobs' = new /\ Settled(stored, asked)
         /\ stored' = stored /\ nextId' = nextId
<1>1. doubt' = (doubt \/ jobs # {} \/ view[p] # stored) /\ jobs' = jobs \cup new /\ UNCHANGED server
  BY DEF SendsOut
<1>2. ~doubt /\ jobs = {} /\ view[p] = stored
  BY <1>1, Zenon
<1>3. Settled(stored, asked)
  BY <1>2, QuietIsSettled
<1> QED BY <1>1, <1>2, <1>3 DEF server

\* A move is the first request, and its two halves are under way.
LEMMA MoveOrders == OrderInv /\ TableTypes /\ Move /\ ~doubt' => OrderInv'
<1> SUFFICES ASSUME OrderInv, TableTypes, Move, ~doubt' PROVE OrderInv'
  OBVIOUS
<1>1. PICK p \in Pages, d \in {-1, 1} : \E t \in DOMAIN view[p], u \in DOMAIN view[p] :
        /\ view[p][u] = view[p][t] + d
        /\ view' = [view EXCEPT ![p] = Exchanged(@, t, u, d)]
        /\ SendsOut(p, {Job(p, "put", t, view'[p][t], requests + 1),
                        Job(p, "put", u, view'[p][u], requests + 1)})
        /\ asked' = IF doubt' THEN <<>> ELSE Swapped(asked, t, u)
  BY ZenonT(30) DEF Move
<1>2. PICK t \in DOMAIN view[p], u \in DOMAIN view[p] :
        /\ view[p][u] = view[p][t] + d
        /\ view' = [view EXCEPT ![p] = Exchanged(@, t, u, d)]
        /\ SendsOut(p, {Job(p, "put", t, view'[p][t], requests + 1),
                        Job(p, "put", u, view'[p][u], requests + 1)})
        /\ asked' = IF doubt' THEN <<>> ELSE Swapped(asked, t, u)
  BY <1>1
<1> DEFINE f == view[p]
           g == Exchanged(f, t, u, d)
           a == Job(p, "put", t, view'[p][t], requests + 1)
           b == Job(p, "put", u, view'[p][u], requests + 1)
           new == {a, b}
           n == nextId
           r == Swapped(asked, t, u)
<1>3. /\ f \in Tables(n) /\ n \in Nat \ {0} /\ f[t] \in Int /\ f[u] \in Int
      /\ DOMAIN view = Pages
  BY ViewIs DEF TableTypes, PageTypes
<1>4. t # u /\ d \in Int /\ f[u] = f[t] + d
  BY <1>2, <1>3
<1>5. t \in DOMAIN f /\ u \in DOMAIN f
  OBVIOUS
<1>6. view' = [view EXCEPT ![p] = g] /\ SendsOut(p, new) /\ asked' = r
  BY <1>2
<1>7. /\ a.kind = "put" /\ a.task = t /\ a.index = view'[p][t] /\ a.stage = "sent"
      /\ b.kind = "put" /\ b.task = u /\ b.index = view'[p][u] /\ b.stage = "sent"
  BY DEF Job
<1> HIDE DEF a, b
<1>8. a \in new /\ b \in new /\ \A j \in new : j = a \/ j = b
  OBVIOUS
<1> HIDE DEF new
<1>9. /\ f = stored /\ jobs' = new /\ Settled(f, asked) /\ stored' = stored /\ nextId' = n
  BY <1>6, SentAlone
<1> HIDE DEF f, n
<1>10. g \in Tables(n) /\ Exchanges(g, f, t, u, d)
  BY <1>3, <1>4, <1>5, ExchangedIs
<1> HIDE DEF g
<1>11. view'[p] = g
  BY <1>3, <1>6
<1>12. Settled(g, r)
  BY <1>3, <1>4, <1>5, <1>9, <1>10, SettledExchanged
<1> HIDE DEF r
<1>13. DOMAIN g = DOMAIN f /\ \A v \in DOMAIN f : v \notin {t, u} => g[v] = f[v]
  BY <1>10 DEF Exchanges
<1>14. \A j \in jobs' : Waits(j) => j.task \in DOMAIN g /\ g[j.task] = j.index
  BY <1>5, <1>7, <1>8, <1>9, <1>11, <1>13
<1>15. ASSUME NEW v \in DOMAIN g
       PROVE  stored'[v] = g[v] \/ \E j \in jobs' : Waits(j) /\ j.task = v
  <2>1. CASE v = t
    BY <1>7, <1>8, <1>9, <2>1 DEF Waits
  <2>2. CASE v = u
    BY <1>7, <1>8, <1>9, <2>2 DEF Waits
  <2>3. CASE v \notin {t, u}
    BY <1>9, <1>13, <2>3
  <2> QED BY <2>1, <2>2, <2>3
<1>16. PICK h : h = g
  OBVIOUS
<1>17. MovedTo(h)'
  <2>1. /\ DOMAIN h = DOMAIN stored' /\ Settled(h, asked')
        /\ \A j \in jobs' : Waits(j) => j.task \in DOMAIN h /\ h[j.task] = j.index
        /\ \A v \in DOMAIN h : stored'[v] = h[v] \/ \E j \in jobs' : Waits(j) /\ j.task = v
    BY <1>6, <1>9, <1>12, <1>13, <1>14, <1>15, <1>16
  <2> QED BY <2>1 DEF MovedTo
<1>18. \A j \in jobs' : Plain(j)
  BY <1>7, <1>8, <1>9 DEF Plain
<1>19. h \in Tables(nextId')
  BY <1>9, <1>10, <1>16
<1>20. Moves'
  BY <1>17, <1>18, <1>19, Zenon DEF Moves
<1> QED BY <1>20, Zenon DEF OrderInv

\* A form that is sent in stores the index again that is stored already.
LEMMA SubmitFormOrders == OrderInv /\ TableTypes /\ SubmitForm /\ ~doubt' => OrderInv'
<1> SUFFICES ASSUME OrderInv, TableTypes, SubmitForm, ~doubt' PROVE OrderInv'
  OBVIOUS
<1>1. PICK p \in Pages :
        /\ jobs' = jobs \cup {Job(p, "put", form[p].task, form[p].index, requests + 1)}
        /\ doubt' = (doubt \/ jobs # {} \/ view[p] # stored
                     \/ <<form[p].task, form[p].index>> \notin {<<u, stored[u]>> : u \in DOMAIN stored})
        /\ asked' = IF doubt' THEN <<>> ELSE asked
        /\ UNCHANGED server
  BY Zenon DEF SubmitForm
<1> DEFINE t == form[p].task
           i == form[p].index
           a == Job(p, "put", t, i, requests + 1)
<1>2. ~doubt /\ jobs = {} /\ <<t, i>> \in {<<u, stored[u]>> : u \in DOMAIN stored}
  BY <1>1, Zenon
<1> HIDE DEF t, i
<1>3. t \in DOMAIN stored /\ stored[t] = i
  BY <1>2
<1>4. a.kind = "put" /\ a.task = t /\ a.index = i /\ a.stage = "sent"
  BY DEF Job
<1> HIDE DEF a
<1>5. jobs' = {a} /\ asked' = asked /\ stored' = stored /\ nextId' = nextId
  BY <1>1, <1>2 DEF server, a, t, i
<1>6. Settled(stored, asked) /\ stored \in Tables(nextId)
  BY <1>2, QuietIsSettled DEF TableTypes, RowTypes
<1>7. PICK h : h = stored
  OBVIOUS
<1>8. MovedTo(h)'
  BY <1>3, <1>4, <1>5, <1>6, <1>7 DEF MovedTo
<1>9. \A j \in jobs' : Plain(j)
  BY <1>4, <1>5 DEF Plain
<1>10. h \in Tables(nextId')
  BY <1>5, <1>6, <1>7
<1>11. Moves'
  BY <1>8, <1>9, <1>10, Zenon DEF Moves
<1> QED BY <1>11, Zenon DEF OrderInv

\* A request that adds or deletes a task is alone.
LEMMA AloneOrders ==
  ASSUME NEW j, jobs' = {j}, Adding(j, stored', asked') \/ Dropping(j, stored', asked')
  PROVE  OrderInv'
<1>1. j \in jobs' /\ Alone(j)'
  BY DEF Alone
<1>2. OneAlone'
  BY <1>1, Zenon DEF OneAlone
<1> QED BY <1>2, Zenon DEF OrderInv

\* A task to be added,
LEMMA CreateTaskOrders == OrderInv /\ TableTypes /\ CreateTask /\ ~doubt' => OrderInv'
<1> SUFFICES ASSUME OrderInv, TableTypes, CreateTask, ~doubt' PROVE OrderInv'
  OBVIOUS
<1>1. PICK p \in Pages : /\ SendsOut(p, {Job(p, "post", 0, 0, requests + 1)})
                         /\ asked' = IF doubt' THEN <<>> ELSE asked
  BY Zenon DEF CreateTask
<1> DEFINE j == Job(p, "post", 0, 0, requests + 1)
           new == {j}
<1>2. j.kind = "post" /\ j.stage = "sent"
  BY DEF Job
<1>3. SendsOut(p, new)
  BY <1>1
<1> HIDE DEF j, new
<1>4. jobs' = new /\ Settled(stored, asked) /\ stored' = stored /\ asked' = asked
  BY <1>1, <1>3, SentAlone
<1>5. Adding(j, stored', asked')
  BY <1>2, <1>4 DEF Adding
<1> QED BY <1>4, <1>5, AloneOrders DEF new

\* ... and one to be deleted.
LEMMA DeleteTaskOrders == OrderInv /\ TableTypes /\ DeleteTask /\ ~doubt' => OrderInv'
<1> SUFFICES ASSUME OrderInv, TableTypes, DeleteTask, ~doubt' PROVE OrderInv'
  OBVIOUS
<1>1. PICK p \in Pages : \E t \in DOMAIN view[p] :
        /\ SendsOut(p, {Job(p, "delete", t, 0, requests + 1)})
        /\ asked' = IF doubt' THEN <<>> ELSE Dropped(asked, t)
  BY Zenon DEF DeleteTask
<1>2. PICK t \in DOMAIN view[p] :
        /\ SendsOut(p, {Job(p, "delete", t, 0, requests + 1)})
        /\ asked' = IF doubt' THEN <<>> ELSE Dropped(asked, t)
  BY <1>1
<1> DEFINE j == Job(p, "delete", t, 0, requests + 1)
           new == {j}
           g == Without(stored, t)
<1>3. j.kind = "delete" /\ j.stage = "sent" /\ j.task = t
  BY DEF Job
<1>4. SendsOut(p, new)
  BY <1>2
<1> HIDE DEF j, new
<1>5. jobs' = new /\ Settled(stored, asked) /\ stored' = stored /\ view[p] = stored
  BY <1>4, SentAlone
<1>6. stored \in Tables(nextId) /\ nextId \in Nat /\ t \in DOMAIN stored
  BY <1>5 DEF TableTypes, RowTypes
<1>7. g \in Tables(nextId) /\ Removes(g, stored, t)
  BY <1>6, WithoutIs
<1> HIDE DEF g
<1>8. Settled(g, Dropped(asked, t))
  BY <1>5, <1>6, <1>7, SettledDropped
<1>9. Dropping(j, stored', asked')
  BY <1>2, <1>3, <1>5, <1>6, <1>8 DEF Dropping, g
<1> QED BY <1>5, <1>9, AloneOrders DEF new

\* What of a job stays when it goes on.
Continues(k, j, s) == k.stage = s /\ k.kind = j.kind /\ k.task = j.task /\ k.index = j.index

\* One that enters another stage.
LEMMA AtContinues ==
  ASSUME TableTypes, NEW j \in jobs, NEW s \in Stages
  PROVE  Continues(At(j, s), j, s)
<1>1. j \in Jobs(nextId)
  BY JobTypesSay
<1> QED BY <1>1 DEF At, Jobs, Continues

\* One that reads the list.
LEMMA ReadContinues ==
  ASSUME TableTypes, NEW j \in jobs, Read(j)
  PROVE  \E k : To(j, k) /\ Continues(k, j, IF j.stage = "stored" THEN "read" ELSE "listed")
<1> DEFINE s == IF j.stage = "stored" THEN "read" ELSE "listed"
           r == ReadTasks(j)
           k == At(r, s)
<1>1. j \in Jobs(nextId)
  BY JobTypesSay
<1>2. r.kind = j.kind /\ r.task = j.task /\ r.index = j.index /\ r \in Jobs(nextId)
  <2>1. nextId \in Nat /\ stored \in Tables(nextId) /\ version \in Nat
    BY DEF TableTypes, RowTypes
  <2>2. r \in Jobs(nextId)
    BY <1>1, <2>1, ReadTasksIs
  <2> QED BY <1>1, <2>2 DEF ReadTasks, Jobs
<1> HIDE DEF r
<1>3. Continues(k, j, s)
  BY <1>2 DEF At, Jobs, Continues
<1>4. To(j, k)
  BY DEF Read, r
<1> HIDE DEF k, s
<1>5. \E h : To(j, h) /\ Continues(h, j, s)
  BY <1>3, <1>4
<1> QED BY <1>5 DEF s

\* One that sends it.
LEMMA TransmitContinues ==
  ASSUME TableTypes, NEW j \in jobs, TransmitTasks(j), j.kind # "hello"
  PROVE  \E k : To(j, k) /\ Continues(k, j, AfterTransmit(j))
<1> DEFINE s == AfterTransmit(j)
           k == [At(j, s) EXCEPT !.list = NoList]
<1>1. j \in Jobs(nextId)
  BY JobTypesSay
<1>2. To(j, k)
  BY DEF TransmitTasks
<1> HIDE DEF s
<1>3. Continues(k, j, s)
  BY <1>1 DEF At, Jobs, Continues
<1> HIDE DEF k
<1>4. \E h : To(j, h) /\ Continues(h, j, s)
  BY <1>2, <1>3
<1> QED BY <1>4 DEF s

\* A request that goes on does not change what is asked, or what else is stored.
LEMMA StepLeaves ==
  ASSUME NEW j \in jobs,
         FindRow(j) \/ DeleteRow(j) \/ Read(j) \/ TransmitTasks(j) \/ CountTasks(j) \/ Answer(j)
  PROVE  stored' = stored /\ nextId' = nextId /\ asked' = asked /\ doubt' = doubt
<1>1. CASE FindRow(j) \/ DeleteRow(j)
  BY <1>1 DEF FindRow, DeleteRow, server, history
<1>2. CASE Read(j) \/ TransmitTasks(j)
  BY <1>2 DEF Read, TransmitTasks, server, history
<1>3. CASE CountTasks(j) \/ Answer(j)
  BY <1>3 DEF CountTasks, Answer, server, history
<1> QED BY <1>1, <1>2, <1>3

\* Where the tasks are moved: a request goes on, or is answered.
LEMMA MovesGoOn ==
  ASSUME Moves, NEW j \in jobs, NEW k, To(j, k), stored' = stored, nextId' = nextId, asked' = asked,
         j.kind = "put", Plain(k), k.task = j.task, k.index = j.index, Waits(k) <=> Waits(j)
  PROVE  Moves'
<1>1. PICK g \in Tables(nextId) : MovedTo(g)
  BY DEF Moves
<1>2. /\ DOMAIN g = DOMAIN stored /\ Settled(g, asked)
      /\ \A h \in jobs : Waits(h) => h.task \in DOMAIN g /\ g[h.task] = h.index
      /\ \A u \in DOMAIN g : stored[u] = g[u] \/ \E h \in jobs : Waits(h) /\ h.task = u
  BY <1>1 DEF MovedTo
<1>3. jobs' = (jobs \ {j}) \cup {k}
  BY DEF To
<1>4. ASSUME NEW h \in jobs', Waits(h) PROVE h.task \in DOMAIN g /\ g[h.task] = h.index
  <2>1. CASE h = k
    BY <1>2, <1>4, <2>1
  <2>2. CASE h # k
    BY <1>2, <1>3, <1>4, <2>2
  <2> QED BY <2>1, <2>2
<1>5. ASSUME NEW u \in DOMAIN g PROVE stored[u] = g[u] \/ \E h \in jobs' : Waits(h) /\ h.task = u
  <2>1. CASE stored[u] = g[u]
    BY <2>1
  <2>2. CASE stored[u] # g[u]
    <3>1. PICK h \in jobs : Waits(h) /\ h.task = u
      BY <1>2, <2>2
    <3>2. CASE h = j
      BY <1>3, <3>1, <3>2
    <3>3. CASE h # j
      BY <1>3, <3>1, <3>3
    <3> QED BY <3>2, <3>3
  <2> QED BY <2>1, <2>2
<1>6. MovedTo(g)'
  BY <1>2, <1>4, <1>5 DEF MovedTo
<1>7. \A h \in jobs' : Plain(h)
  BY <1>3 DEF Moves
<1> QED BY <1>6, <1>7, Zenon DEF Moves

\* It is answered when its index is no longer on its way.
LEMMA MovesAnswered ==
  ASSUME Moves, NEW j \in jobs, jobs' = jobs \ {j}, stored' = stored, nextId' = nextId, asked' = asked,
         ~Waits(j)
  PROVE  Moves'
<1>1. PICK g \in Tables(nextId) : MovedTo(g)
  BY DEF Moves
<1>2. /\ DOMAIN g = DOMAIN stored /\ Settled(g, asked)
      /\ \A h \in jobs : Waits(h) => h.task \in DOMAIN g /\ g[h.task] = h.index
      /\ \A u \in DOMAIN g : stored[u] = g[u] \/ \E h \in jobs : Waits(h) /\ h.task = u
  BY <1>1 DEF MovedTo
<1>3. \A h : Waits(h) => (h \in jobs <=> h \in jobs')
  OBVIOUS
<1>4. MovedTo(g)'
  BY <1>2, <1>3 DEF MovedTo
<1>5. \A h \in jobs' : Plain(h)
  BY DEF Moves
<1> QED BY <1>4, <1>5, Zenon DEF Moves

\* The index that is asked for is stored.
LEMMA MovesStored ==
  ASSUME TableTypes, Moves, NEW j \in jobs, UpdateRow(j)
  PROVE  Moves'
<1> DEFINE t == j.task
           i == j.index
           k == At(j, "stored")
           n == nextId
<1>1. /\ j.kind = "put" /\ j.stage = "found" /\ stored' = With(stored, t, i)
      /\ nextId' = n /\ asked' = asked
  BY DEF UpdateRow, Saved, history
<1>2. PICK g \in Tables(n) : MovedTo(g)
  BY DEF Moves
<1>3. /\ DOMAIN g = DOMAIN stored /\ Settled(g, asked)
      /\ \A h \in jobs : Waits(h) => h.task \in DOMAIN g /\ g[h.task] = h.index
      /\ \A u \in DOMAIN g : stored[u] = g[u] \/ \E h \in jobs : Waits(h) /\ h.task = u
  BY <1>2 DEF MovedTo
<1>4. Waits(j) /\ t \in DOMAIN g /\ g[t] = i
  BY <1>1, <1>3 DEF Waits
<1>4a. To(j, k)
  BY <1>3, <1>4 DEF UpdateRow, Saved
<1>5. n \in Nat \ {0} /\ t \in 1..(n - 1) /\ i \in Int /\ stored \in Tables(n)
  <2>1. n \in Nat \ {0} /\ i \in Int /\ stored \in Tables(n)
    BY JobTypesSay DEF TableTypes, RowTypes
  <2>2. DOMAIN stored \subseteq 1..(n - 1)
    BY <2>1, TablesAre
  <2> QED BY <1>3, <1>4, <2>1, <2>2
<1>6. Continues(k, j, "stored")
  BY AtContinues DEF Stages
<1> HIDE DEF k, n, t, i
<1>7. Stores(stored', stored, t, i)
  BY <1>1, <1>5, WithIs
<1>8. jobs' = (jobs \ {j}) \cup {k} /\ ~Waits(k)
  BY <1>4a, <1>6 DEF To, Waits, Continues
<1>9. DOMAIN g = DOMAIN stored'
  BY <1>3, <1>4, <1>7 DEF Stores
<1>10. \A h \in jobs' : Waits(h) => h.task \in DOMAIN g /\ g[h.task] = h.index
  BY <1>3, <1>8
<1>11. ASSUME NEW u \in DOMAIN g PROVE stored'[u] = g[u] \/ \E h \in jobs' : Waits(h) /\ h.task = u
  <2>1. CASE u = t
    BY <1>4, <1>7, <2>1 DEF Stores
  <2>2. CASE u # t
    <3>1. stored'[u] = stored[u]
      BY <1>3, <1>7, <2>2 DEF Stores
    <3>2. ASSUME NEW h \in jobs, Waits(h), h.task = u PROVE h \in jobs'
      BY <1>8, <2>2, <3>2 DEF t
    <3> QED BY <1>3, <3>1, <3>2
  <2> QED BY <2>1, <2>2
<1>12. MovedTo(g)'
  BY <1>1, <1>3, <1>9, <1>10, <1>11 DEF MovedTo
<1>13. \A h \in jobs' : Plain(h)
  BY <1>1, <1>6, <1>8 DEF Moves, Continues, Plain
<1>14. g \in Tables(nextId')
  BY <1>1, <1>2
<1> QED BY <1>12, <1>13, <1>14, Zenon DEF Moves

\* Whatever a request to store an index does, the tasks are still being moved.
LEMMA MovesJobs ==
  ASSUME TableTypes, Moves, NEW j \in jobs, j.kind # "hello", ~doubt',
        \/ Fail(j) \/ FindRow(j) \/ UpdateRow(j) \/ InsertRow(j) \/ DeleteRow(j) \/ CommitDelete(j)
        \/ Read(j) \/ TransmitTasks(j) \/ CountTasks(j) \/ NumberRow(j) \/ Answer(j)
  PROVE  Moves'
<1>1. j.kind = "put" /\ j.stage \in {"sent", "found", "stored", "read", "done"}
  BY DEF Moves, Plain
<1>3. ~Fail(j) /\ ~InsertRow(j) /\ ~DeleteRow(j)
  BY <1>1 DEF Fail, InsertRow, Inserted, DeleteRow
<1>4. ~CommitDelete(j) /\ ~CountTasks(j) /\ ~NumberRow(j)
  BY <1>1 DEF CommitDelete, CountTasks, NumberRow
<1>5. CASE UpdateRow(j)
  BY <1>5, MovesStored
<1>6. CASE FindRow(j)
  <2>1. PICK g \in Tables(nextId) : MovedTo(g)
    BY DEF Moves
  <2>2. j.stage = "sent"
    BY <1>6 DEF FindRow
  <2>3. j.task \in DOMAIN stored
    BY <1>1, <2>1, <2>2 DEF MovedTo, Waits
  <2> DEFINE k == At(j, "found")
  <2>4. To(j, k)
    BY <1>6, <2>3, Zenon DEF FindRow
  <2>5. Continues(k, j, "found")
    BY AtContinues DEF Stages
  <2> HIDE DEF k
  <2>6. Plain(k) /\ k.task = j.task /\ k.index = j.index /\ (Waits(k) <=> Waits(j))
    BY <1>1, <2>2, <2>5 DEF Continues, Waits, Plain
  <2> QED BY <1>1, <1>6, <2>4, <2>6, StepLeaves, MovesGoOn
<1>7. CASE Read(j)
  <2> DEFINE s == IF j.stage = "stored" THEN "read" ELSE "listed"
  <2>1. PICK k : To(j, k) /\ Continues(k, j, s)
    BY <1>7, ReadContinues
  <2>2. j.stage = "stored"
    BY <1>1, <1>7 DEF Read
  <2>3. Plain(k) /\ k.task = j.task /\ k.index = j.index /\ (Waits(k) <=> Waits(j))
    BY <1>1, <2>1, <2>2 DEF Continues, Waits, Plain
  <2> QED BY <1>1, <1>7, <2>1, <2>3, StepLeaves, MovesGoOn
<1>8. CASE TransmitTasks(j)
  <2>1. PICK k : To(j, k) /\ Continues(k, j, AfterTransmit(j))
    BY <1>8, TransmitContinues
  <2>2. j.stage = "read" /\ AfterTransmit(j) = "done"
    BY <1>1, <1>8 DEF TransmitTasks, AfterTransmit
  <2>3. Plain(k) /\ k.task = j.task /\ k.index = j.index /\ (Waits(k) <=> Waits(j))
    BY <1>1, <2>1, <2>2 DEF Continues, Waits, Plain
  <2> QED BY <1>1, <1>8, <2>1, <2>3, StepLeaves, MovesGoOn
<1>9. CASE Answer(j)
  <2>1. jobs' = jobs \ {j} /\ ~Waits(j)
    BY <1>9 DEF Answer, Waits
  <2> QED BY <1>9, <2>1, StepLeaves, MovesAnswered
<1> QED BY <1>3, <1>4, <1>5, <1>6, <1>7, <1>8, <1>9

\* A request that adds or deletes a task goes on alone, and is answered.
LEMMA AloneGoesOn ==
  ASSUME NEW j \in jobs, Alone(j), NEW k, To(j, k),
         Adding(k, stored', asked') \/ Dropping(k, stored', asked')
  PROVE  OrderInv'
<1>1. k \in jobs' /\ \A h \in jobs' : h.kind # "hello" => h = k
  BY DEF To, Alone
<1>2. Alone(k)'
  BY <1>1 DEF Alone
<1>3. OneAlone'
  BY <1>1, <1>2, Zenon DEF OneAlone
<1> QED BY <1>3, Zenon DEF OrderInv

\* Once it is answered, what is stored is settled.
LEMMA AloneAnswered ==
  ASSUME TableTypes, NEW j \in jobs, Alone(j), Answer(j), Settled(stored, asked)
  PROVE  OrderInv'
<1>1. stored' = stored /\ nextId' = nextId /\ asked' = asked
  BY StepLeaves
<1>2. jobs' = jobs \ {j}
  BY DEF Answer
<1>3. \A h \in jobs' : h.kind = "hello"
  BY <1>2 DEF Alone
<1>4. PICK g : g = stored
  OBVIOUS
<1>5. g \in Tables(nextId')
  BY <1>1, <1>4 DEF TableTypes, RowTypes
<1>6. MovedTo(g)'
  BY <1>1, <1>3, <1>4 DEF MovedTo, Waits
<1>7. \A h \in jobs' : Plain(h)
  BY <1>3 DEF Plain
<1>8. Moves'
  BY <1>5, <1>6, <1>7, Zenon DEF Moves
<1> QED BY <1>8, Zenon DEF OrderInv

\* A new task is the last one, whatever index it is stored with first ...
LEMMA InsertedIsLast ==
  ASSUME TableTypes, NEW j \in jobs, InsertRow(j), Settled(stored, asked), ~doubt'
  PROVE  \E k : To(j, k) /\ k.kind = "post" /\ k.stage = "inserted" /\ IsLast(k.task, stored', asked')
<1> DEFINE n == nextId
           i == j.index
           k == [At(j, "inserted") EXCEPT !.task = n]
           g == With(stored, n, i)
<1>1. /\ j.kind = "post" /\ stored' = g /\ To(j, k)
      /\ asked' = (IF doubt THEN <<>> ELSE Append(asked, n)) /\ doubt' = doubt
  BY DEF InsertRow, Inserted
<1>2. asked' = Append(asked, n)
  BY <1>1
<1>3. j \in Jobs(n) /\ n \in Nat \ {0} /\ i \in Int /\ stored \in Tables(n)
  BY JobTypesSay DEF TableTypes, RowTypes
<1>4. k.kind = "post" /\ k.stage = "inserted" /\ k.task = n
  BY <1>1, <1>3 DEF At, Jobs
<1>5. DOMAIN stored \subseteq 1..(n - 1) /\ stored = [u \in DOMAIN stored |-> stored[u]]
  BY <1>3, TablesAre
<1>6. n \notin DOMAIN stored
  BY <1>3, <1>5
<1>7. Without(g, n) = stored
  <2>1. /\ DOMAIN g = DOMAIN stored \cup {n}
        /\ \A u \in DOMAIN stored : u # n => g[u] = stored[u]
    BY DEF With
  <2> HIDE DEF g, n
  <2>2. DOMAIN g \ {n} = DOMAIN stored
    BY <1>6, <2>1
  <2>3. [u \in DOMAIN stored |-> g[u]] = [u \in DOMAIN stored |-> stored[u]]
    BY <1>6, <2>1
  <2> QED BY <1>5, <2>2, <2>3 DEF Without
<1>8. n \in DOMAIN g
  BY DEF With
<1> HIDE DEF g, k, n
<1>9. IsLast(n, g, asked')
  BY <1>2, <1>7, <1>8 DEF IsLast
<1> QED BY <1>1, <1>4, <1>9

\* ... and is counted as the last.
LEMMA CountedIsLast ==
  ASSUME TableTypes, NEW j \in jobs, CountTasks(j), j.task \in DOMAIN stored
  PROVE  \E k : /\ To(j, k) /\ k.kind = j.kind /\ k.stage = "counted" /\ k.task = j.task
                /\ \A u \in DOMAIN stored : stored[u] < k.index
<1> DEFINE i == NewIndex(stored)
           k == [At(j, "counted") EXCEPT !.index = i]
<1>1. j \in Jobs(nextId) /\ nextId \in Nat /\ stored \in Tables(nextId)
  BY JobTypesSay DEF TableTypes, RowTypes
<1>2. \A u \in DOMAIN stored : stored[u] < i
  BY <1>1, NewIndexIs
<1>3. stored # <<>>
  OBVIOUS
<1>4. To(j, k)
  BY <1>3 DEF CountTasks
<1> HIDE DEF i
<1>5. k.kind = j.kind /\ k.stage = "counted" /\ k.task = j.task /\ k.index = i
  BY <1>1 DEF At, Jobs
<1> HIDE DEF k
<1>6. \A u \in DOMAIN stored : stored[u] < k.index
  BY <1>2, <1>5
<1> QED BY <1>4, <1>5, <1>6

\* Its number makes it the last one.
LEMMA NumberedIsLast ==
  ASSUME TableTypes, NEW j \in jobs, NumberRow(j), IsLast(j.task, stored, asked),
         \A u \in DOMAIN stored \ {j.task} : stored[u] < j.index
  PROVE  Settled(stored', asked')
<1> DEFINE n == nextId
           t == j.task
           i == j.index
           f == Without(stored, t)
           g == With(stored, t, i)
<1>1. stored' = g /\ asked' = asked
  BY DEF NumberRow, Saved, history
<1>2. n \in Nat /\ i \in Int /\ stored \in Tables(n) /\ t \in DOMAIN stored
  BY JobTypesSay DEF TableTypes, RowTypes, IsLast
<1>3. DOMAIN stored \subseteq 1..(n - 1)
  BY <1>2, TablesAre
<1>4. t \in 1..(n - 1)
  BY <1>2, <1>3
<1>5. PICK r : asked = Append(r, t) /\ Settled(f, r)
  BY DEF IsLast
<1> HIDE DEF n, t, i
<1>6. f \in Tables(n) /\ Removes(f, stored, t)
  BY <1>2, WithoutIs
<1>7. g \in Tables(n) /\ Stores(g, stored, t, i)
  BY <1>2, <1>4, WithIs
<1> HIDE DEF f, g
<1>8. t \notin DOMAIN f /\ Stores(g, f, t, i)
  BY <1>2, <1>6, <1>7 DEF Removes, Stores
<1>9. \A v \in DOMAIN f : f[v] < i
  BY <1>6 DEF Removes, t, i
<1>10. Settled(g, Append(r, t))
  BY <1>2, <1>5, <1>6, <1>7, <1>8, <1>9, SettledAppended
<1> QED BY <1>1, <1>5, <1>10

\* While one task is added ...
LEMMA AddingJobs ==
  ASSUME TableTypes, NEW j \in jobs, Alone(j), Adding(j, stored, asked), ~doubt',
        \/ Fail(j) \/ FindRow(j) \/ UpdateRow(j) \/ InsertRow(j) \/ DeleteRow(j) \/ CommitDelete(j)
        \/ Read(j) \/ TransmitTasks(j) \/ CountTasks(j) \/ NumberRow(j) \/ Answer(j)
  PROVE  OrderInv'
<1>1. JobFits(j) /\ j.kind = "post"
  BY JobTypesSay DEF Adding
<1>2. ~Fail(j) /\ ~FindRow(j) /\ ~UpdateRow(j) /\ ~DeleteRow(j) /\ ~CommitDelete(j)
  BY <1>1 DEF Fail, FindRow, UpdateRow, DeleteRow, CommitDelete, JobFits
<1>3. CASE InsertRow(j)
  <2>1. Settled(stored, asked)
    BY <1>3 DEF InsertRow, Inserted, Adding
  <2>2. PICK k : /\ To(j, k) /\ k.kind = "post" /\ k.stage = "inserted"
                 /\ IsLast(k.task, stored', asked')
    BY <1>3, <2>1, InsertedIsLast
  <2>3. Adding(k, stored', asked')
    BY <2>2 DEF Adding
  <2> QED BY <2>2, <2>3, AloneGoesOn
<1>4. CASE Read(j)
  <2> DEFINE s == IF j.stage = "stored" THEN "read" ELSE "listed"
  <2>1. PICK k : To(j, k) /\ Continues(k, j, s)
    BY <1>4, ReadContinues
  <2>2. j.stage \in {"stored", "inserted"} /\ stored' = stored /\ asked' = asked
    BY <1>4, StepLeaves DEF Read
  <2>3. Adding(k, stored', asked')
    BY <1>1, <2>1, <2>2 DEF Adding, Continues
  <2> QED BY <2>1, <2>3, AloneGoesOn
<1>5. CASE TransmitTasks(j)
  <2> DEFINE s == AfterTransmit(j)
  <2>1. PICK k : To(j, k) /\ Continues(k, j, s)
    BY <1>1, <1>5, TransmitContinues
  <2>2. j.stage \in {"read", "listed"} /\ stored' = stored /\ asked' = asked
    BY <1>5, StepLeaves DEF TransmitTasks
  <2>3. s = IF j.stage = "listed" THEN "numbering" ELSE "done"
    BY <1>1, <2>2 DEF AfterTransmit
  <2> HIDE DEF s
  <2>4. Adding(k, stored', asked')
    BY <1>1, <2>1, <2>2, <2>3 DEF Adding, Continues
  <2> QED BY <2>1, <2>4, AloneGoesOn
<1>6. CASE CountTasks(j)
  <2>1. IsLast(j.task, stored, asked) /\ stored' = stored /\ asked' = asked
    BY <1>6, StepLeaves DEF CountTasks, Adding
  <2>2. PICK k : /\ To(j, k) /\ k.kind = j.kind /\ k.stage = "counted" /\ k.task = j.task
                 /\ \A u \in DOMAIN stored : stored[u] < k.index
    BY <1>6, <2>1, CountedIsLast DEF IsLast
  <2>3. Adding(k, stored', asked')
    BY <1>1, <2>1, <2>2 DEF Adding
  <2> QED BY <2>2, <2>3, AloneGoesOn
<1>7. CASE NumberRow(j)
  <2>1. j.stage = "counted"
    BY <1>7 DEF NumberRow
  <2>2. IsLast(j.task, stored, asked) /\ \A u \in DOMAIN stored \ {j.task} : stored[u] < j.index
    BY <2>1 DEF Adding
  <2>3. Settled(stored', asked')
    BY <1>7, <2>2, NumberedIsLast
  <2> DEFINE k == At(j, "stored")
  <2>4. Continues(k, j, "stored") /\ To(j, k)
    BY <1>7, <2>2, AtContinues DEF Stages, NumberRow, Saved, IsLast
  <2> HIDE DEF k
  <2>5. Adding(k, stored', asked')
    BY <1>1, <2>3, <2>4 DEF Adding, Continues
  <2> QED BY <2>4, <2>5, AloneGoesOn
<1>8. CASE Answer(j)
  <2>1. Settled(stored, asked)
    BY <1>8 DEF Answer, Adding
  <2> QED BY <1>8, <2>1, AloneAnswered
<1> QED BY <1>2, <1>3, <1>4, <1>5, <1>6, <1>7, <1>8

\* ... or one is deleted, nothing else is under way.
LEMMA DroppingJobs ==
  ASSUME TableTypes, NEW j \in jobs, Alone(j), Dropping(j, stored, asked), ~doubt',
        \/ Fail(j) \/ FindRow(j) \/ UpdateRow(j) \/ InsertRow(j) \/ DeleteRow(j) \/ CommitDelete(j)
        \/ Read(j) \/ TransmitTasks(j) \/ CountTasks(j) \/ NumberRow(j) \/ Answer(j)
  PROVE  OrderInv'
<1>1. JobFits(j) /\ j.kind = "delete"
  BY JobTypesSay DEF Dropping
<1>2. ~Fail(j) /\ ~UpdateRow(j) /\ ~InsertRow(j) /\ ~CountTasks(j) /\ ~NumberRow(j)
  BY <1>1 DEF Fail, UpdateRow, InsertRow, Inserted, CountTasks, NumberRow, JobFits
<1>3. ASSUME NEW k, NEW s, To(j, k), Continues(k, j, s), s # "done", j.stage # "done",
             stored' = stored, asked' = asked
      PROVE  OrderInv'
  <2>1. Dropping(k, stored', asked')
    BY <1>1, <1>3 DEF Dropping, Continues
  <2> QED BY <1>3, <2>1, AloneGoesOn
<1>4. CASE FindRow(j)
  <2>1. j.stage = "sent"
    BY <1>4 DEF FindRow
  <2>2. j.task \in DOMAIN stored
    BY <2>1 DEF Dropping
  <2> DEFINE k == At(j, "found")
  <2>3. To(j, k)
    BY <1>4, <2>2, Zenon DEF FindRow
  <2>4. Continues(k, j, "found")
    BY AtContinues DEF Stages
  <2> HIDE DEF k
  <2> QED BY <1>3, <1>4, <2>1, <2>3, <2>4, StepLeaves
<1>5. CASE DeleteRow(j)
  <2> DEFINE k == At(j, "stored")
  <2>1. j.stage = "found" /\ To(j, k)
    BY <1>5 DEF DeleteRow
  <2>2. Continues(k, j, "stored")
    BY AtContinues DEF Stages
  <2> HIDE DEF k
  <2> QED BY <1>3, <1>5, <2>1, <2>2, StepLeaves
<1>6. CASE Read(j)
  <2> DEFINE s == IF j.stage = "stored" THEN "read" ELSE "listed"
  <2>1. PICK k : To(j, k) /\ Continues(k, j, s)
    BY <1>6, ReadContinues
  <2>2. j.stage \in {"stored", "inserted"} /\ s # "done" /\ stored' = stored /\ asked' = asked
    BY <1>6, StepLeaves DEF Read
  <2> HIDE DEF s
  <2> QED BY <1>3, <2>1, <2>2
<1>7. CASE TransmitTasks(j)
  <2> DEFINE s == AfterTransmit(j)
  <2>1. PICK k : To(j, k) /\ Continues(k, j, s)
    BY <1>1, <1>7, TransmitContinues
  <2>2. j.stage \in {"read", "listed"} /\ stored' = stored /\ asked' = asked
    BY <1>7, StepLeaves DEF TransmitTasks
  <2>3. j.stage = "read" /\ s = "deleting"
    BY <1>1, <2>2 DEF AfterTransmit, JobFits
  <2> HIDE DEF s
  <2> QED BY <1>3, <2>1, <2>2, <2>3
<1>8. CASE CommitDelete(j)
  <2> DEFINE k == At(j, "done")
  <2>1. j.stage = "deleting" /\ stored' = Without(stored, j.task) /\ To(j, k) /\ asked' = asked
    BY <1>8 DEF CommitDelete, history
  <2>2. Settled(stored', asked')
    BY <2>1 DEF Dropping
  <2>3. Continues(k, j, "done")
    BY AtContinues DEF Stages
  <2> HIDE DEF k
  <2>4. Dropping(k, stored', asked')
    BY <1>1, <2>2, <2>3 DEF Dropping, Continues
  <2> QED BY <2>1, <2>4, AloneGoesOn
<1>9. CASE Answer(j)
  <2>1. Settled(stored, asked)
    BY <1>9 DEF Answer, Dropping
  <2> QED BY <1>9, <2>1, AloneAnswered
<1> QED BY <1>2, <1>4, <1>5, <1>6, <1>7, <1>8, <1>9

\* The consumer of a new socket reads the list and sends it, and no more.
LEMMA HelloOrders ==
  ASSUME OrderInv, TableTypes, NEW j \in jobs, j.kind = "hello",
        \/ Fail(j) \/ FindRow(j) \/ UpdateRow(j) \/ InsertRow(j) \/ DeleteRow(j) \/ CommitDelete(j)
        \/ Read(j) \/ TransmitTasks(j) \/ CountTasks(j) \/ NumberRow(j) \/ Answer(j)
  PROVE  OrderInv'
<1>1. JobFits(j)
  BY JobTypesSay
<1>2. j.stage \in {"stored", "read"}
  BY <1>1 DEF JobFits
<1>3. ~Fail(j) /\ ~FindRow(j) /\ ~UpdateRow(j) /\ ~InsertRow(j) /\ ~DeleteRow(j) /\ ~CommitDelete(j)
  BY <1>2 DEF Fail, FindRow, UpdateRow, InsertRow, Inserted, DeleteRow, CommitDelete
<1>4. ~CountTasks(j) /\ ~NumberRow(j) /\ ~Answer(j)
  BY <1>2 DEF CountTasks, NumberRow, Answer
<1>5. CASE Read(j)
  <2>1. PICK k : To(j, k) /\ Continues(k, j, IF j.stage = "stored" THEN "read" ELSE "listed")
    BY <1>5, ReadContinues
  <2>2. jobs' = (jobs \ {j}) \cup {k} /\ k.kind = "hello"
    BY <2>1 DEF To, Continues
  <2>3. UNCHANGED <<stored, nextId, asked, doubt>>
    BY <1>5, StepLeaves
  <2>4. /\ \A h \in jobs : h.kind # "hello" => h \in jobs'
        /\ \A h \in jobs' : h.kind # "hello" => h \in jobs
    BY <2>2
  <2> QED BY <2>3, <2>4, OrderSame
<1>6. CASE TransmitTasks(j)
  <2>1. jobs' = jobs \ {j}
    BY <1>6 DEF TransmitTasks
  <2>2. UNCHANGED <<stored, nextId, asked, doubt>>
    BY <1>6, StepLeaves
  <2>3. /\ \A h \in jobs : h.kind # "hello" => h \in jobs'
        /\ \A h \in jobs' : h.kind # "hello" => h \in jobs
    BY <2>1
  <2> QED BY <2>2, <2>3, OrderSame
<1> QED BY <1>3, <1>4, <1>5, <1>6

\* The pages that move no column, and the sockets, leave the order as it is.
LEMMA QuietOrders ==
  ASSUME OrderInv,
         MoveRaises \/ OpenForm \/ Receive \/ Cut \/ Connect \/ UNCHANGED vars
  PROVE  OrderInv'
<1>1. CASE MoveRaises \/ OpenForm \/ Receive \/ Cut \/ UNCHANGED vars
  <2>1. jobs' = jobs /\ UNCHANGED <<stored, nextId, asked, doubt>>
    BY <1>1 DEF MoveRaises, OpenForm, Receive, Cut, vars, server, history
  <2> QED BY <2>1, OrderSame
<1>2. CASE Connect
  <2>1. PICK p \in Pages :
          /\ jobs' = jobs \cup {At(Job(p, "hello", 0, 0, -upsets), "stored")}
          /\ UNCHANGED <<server, history>>
    BY <1>2 DEF Connect, Connected
  <2> DEFINE k == At(Job(p, "hello", 0, 0, -upsets), "stored")
  <2>2. k.kind = "hello"
    BY DEF At, Job
  <2>3. jobs' = jobs \cup {k}
    BY <2>1
  <2> HIDE DEF k
  <2>4. /\ \A h \in jobs : h.kind # "hello" => h \in jobs'
        /\ \A h \in jobs' : h.kind # "hello" => h \in jobs
    BY <2>2, <2>3
  <2>5. UNCHANGED <<stored, nextId, asked, doubt>>
    BY <2>1 DEF server, history
  <2> QED BY <2>4, <2>5, OrderSame
<1> QED BY <1>1, <1>2

\* Every step keeps the order.
LEMMA OrderStays == OrderInv /\ TableTypes /\ [Next]_vars => OrderInv'
<1> SUFFICES ASSUME OrderInv, TableTypes, [Next]_vars PROVE OrderInv'
  OBVIOUS
<1>1. CASE doubt'
  BY <1>1, Zenon DEF OrderInv
<1>2. CASE ~doubt'
  <2>1. Moves \/ OneAlone
    BY <1>2, DoubtStays, Zenon DEF OrderInv
  <2>2. CASE MoveRaises \/ OpenForm \/ Receive \/ Cut \/ Connect \/ UNCHANGED vars
    BY <2>2, QuietOrders
  <2>3. CASE Move \/ SubmitForm \/ CreateTask \/ DeleteTask
    BY <1>2, <2>3, MoveOrders, SubmitFormOrders, CreateTaskOrders, DeleteTaskOrders, Zenon
  <2>4. ASSUME NEW j \in jobs,
          \/ Fail(j) \/ FindRow(j) \/ UpdateRow(j) \/ InsertRow(j) \/ DeleteRow(j) \/ CommitDelete(j)
          \/ Read(j) \/ TransmitTasks(j) \/ CountTasks(j) \/ NumberRow(j) \/ Answer(j)
        PROVE OrderInv'
    <3>1. CASE j.kind = "hello"
      BY <2>4, <3>1, HelloOrders, Zenon
    <3>2. CASE j.kind # "hello" /\ Moves
      <4>1. Moves'
        BY <1>2, <2>4, <3>2, MovesJobs, Zenon
      <4> QED BY <4>1, Zenon DEF OrderInv
    <3>3. CASE j.kind # "hello" /\ OneAlone
      <4>1. PICK k \in jobs : Alone(k) /\ (Adding(k, stored, asked) \/ Dropping(k, stored, asked))
        BY <3>3 DEF OneAlone
      <4>2. k = j
        BY <3>3, <4>1 DEF Alone
      <4>3. Alone(j) /\ (Adding(j, stored, asked) \/ Dropping(j, stored, asked))
        BY <4>1, <4>2
      <4> QED BY <1>2, <2>4, <4>3, AddingJobs, DroppingJobs, Zenon
    <3> QED BY <2>1, <3>1, <3>2, <3>3, Zenon
  <2> QED BY <2>2, <2>3, <2>4, Zenon DEF Next
<1> QED BY <1>1, <1>2, Zenon

\* It holds at first.
LEMMA OrderFirst == ResultsAssumption /\ Init => OrderInv
<1> SUFFICES ASSUME ResultsAssumption, Init PROVE OrderInv
  OBVIOUS
<1>1. TableTypes
  BY TableTypesFirst
<1>2. nextId \in Nat /\ stored \in Tables(nextId)
  BY <1>1 DEF TableTypes, RowTypes
<1>3. stored \in Starts /\ jobs = {} /\ asked = Columns(stored)
  BY DEF Init
<1>4. IsInjective(stored)
  BY <1>3 DEF ResultsAssumption
<1>5. Distinct(stored)
  BY <1>4 DEF IsInjective, Distinct
<1>6. Settled(stored, asked)
  BY <1>2, <1>3, <1>5, ColumnsAre DEF Settled
<1>7. PICK g : g = stored
  OBVIOUS
<1>8. MovedTo(g) /\ g \in Tables(nextId)
  BY <1>2, <1>3, <1>6, <1>7 DEF MovedTo
<1>9. Moves
  BY <1>3, <1>8 DEF Moves
<1> QED BY <1>9, Zenon DEF OrderInv

\* What it says when all requests have been answered.
LEMMA OrderSays == OrderInv /\ TableTypes => OrderIsAsAsked
<1> SUFFICES ASSUME OrderInv, TableTypes, Quiet, ~doubt
             PROVE  IsInjective(stored) /\ Columns(stored) = asked
  BY Zenon DEF OrderIsAsAsked
<1>1. Settled(stored, asked)
  BY QuietIsSettled DEF Quiet
<1>2. nextId \in Nat /\ stored \in Tables(nextId)
  BY DEF TableTypes, RowTypes
<1>3. Distinct(stored)
  BY <1>1 DEF Settled
<1>4. IsInjective(stored)
  BY <1>3 DEF IsInjective, Distinct
<1>5. Columns(stored) = asked
  BY <1>1, <1>2, <1>3, ColumnsAre
<1> QED BY <1>4, <1>5

\* OrderIsAsAsked: however the halves of a move, the steps of the server and the
\* lists cross, the order that is stored in the end is the one the users asked for.
THEOREM OrderComesAsAsked == Spec => []OrderIsAsAsked
<1>1. Init => TableTypes /\ OrderInv
  BY ResultsAssumption, TableTypesFirst, OrderFirst
<1>2. TableTypes /\ OrderInv /\ [Next]_vars => (TableTypes /\ OrderInv)'
  BY TableTypesStay, OrderStays, Zenon
<1>3. TableTypes /\ OrderInv => OrderIsAsAsked
  BY OrderSays
<1> QED BY <1>1, <1>2, <1>3, PTL DEF Spec
=============================================================================
