------------------------------ MODULE GuiProofs ------------------------------
(***************************************************************************)
(* The requests of the window, for any components, any size of the update    *)
(* channel and any failures: one fetch of each component, no report lost, no *)
(* arrival without a frame.  The first rests on each command in the worker's *)
(* queue standing for a task that waits for its reply; the last on the latch *)
(* being down whenever no frame has been requested.                          *)
(*                                                                         *)
(* Then that the surface on screen is polled, for any components, rows and   *)
(* changes of the surface.  What is paused depends on what the coordinator   *)
(* has read; that it comes right rests on the last command in its channel    *)
(* being that of the set sent last, and on the registrations being read      *)
(* before any set has paused something.                                     *)
(*                                                                         *)
(* Then that the pages of the profiles, the file and the tray's menu agree,  *)
(* for any profiles and any edits.  An edit's frame has done its tray part,  *)
(* so that only the number of profiles can give the menu away (MenuFollows); *)
(* the mark waits for the last click (MarkFollows).                          *)
(*                                                                         *)
(* Last the tuning page.  What is in the worker's queue is read as what it   *)
(* will have given each part of the hardware when it is done (ComesTo): of   *)
(* two commands for a part the last counts, and Save puts one there for each *)
(* part that the profile speaks of.  A curve is sorted by insertion, point  *)
(* by point (CurveSorted), so that a largest gap and the two points about a  *)
(* temperature can be named (GapIs, InterpolatedFits).                      *)
(***************************************************************************)
EXTENDS GuiParts, PageParts, FiniteSetTheorems, SequenceTheorems, DataLemmas, TLAPS

\* Only the gpu component takes reports; the user's calls are no component's.
Bounds ==
  /\ "gpu" \in Fetched /\ "user" \notin Fetched
  /\ Capacity \in Nat /\ Limit \in Nat /\ MaxOrders \in Nat /\ MaxReports \in Nat

\* A command in the queue is of the task that waits for it.
OfTask(m) ==
  /\ m.kind = "read" => Req!IsAt(m.component, "asked")
  /\ m.kind = "take" => m.component = "gpu" /\ Req!IsAt("gpu", "taking")
CommandsOfTasks == \A i \in 1..Len(queue) : OfTask(queue[i])

FetchInv ==
  /\ active \subseteq Fetched /\ tasks \in [Req!Task -> Nat] /\ queue \in Seq(Req!Command)
  /\ Req!OneFetchEach /\ CommandsOfTasks

ReportInv ==
  /\ made \in 0..MaxReports /\ held \in {0, made} /\ shown \subseteq 1..MaxReports
  /\ mislaid \subseteq 1..MaxReports
  /\ updates \in Seq(0..MaxReports) /\ Len(updates) <= Capacity
  /\ Req!TakenReportKept

\* The latch holds a request back only when one has been made.
ScreenInv ==
  /\ {latch, due, visible} \subseteq BOOLEAN /\ frame \in {"off", "reading", "drawing"}
  /\ latch => due
  /\ Req!ArrivalsAreDrawn

OtherTypes ==
  /\ awaited \in 0..MaxOrders /\ replies \subseteq 1..MaxOrders /\ ordered \in 0..MaxOrders
  /\ worker \in {"connecting", "ready"} /\ fails \in 0..Limit /\ {alive, service} \subseteq BOOLEAN

RequestInv == FetchInv /\ ReportInv /\ ScreenInv /\ OtherTypes

-----------------------------------------------------------------------------
(* Tasks.                                                                   *)

LEMMA TaskIs ==
  ASSUME NEW c \in Fetched, NEW s \in Req!Stages
  PROVE  Req!At(c, s) \in Req!Task
BY DEF Req!At, Req!Task

LEMMA AtDiffer ==
  ASSUME NEW c, NEW d, NEW s, NEW r, Req!At(c, s) = Req!At(d, r)
  PROVE  c = d /\ s = r
<1>1. Req!At(c, s).component = c /\ Req!At(c, s).stage = s /\ Req!At(d, r).component = d /\ Req!At(d, r).stage = r
  BY DEF Req!At
<1> QED  BY <1>1

\* A task that is found at a stage is its component's one task.
LEMMA Located ==
  ASSUME FetchInv, NEW c \in Fetched, NEW s \in Req!Stages, tasks[Req!At(c, s)] > 0
  PROVE  Req!IsAt(c, s) /\ c \in active
<1>1. tasks[Req!At(c, s)] # 0
  BY TaskIs DEF FetchInv
<1>2. c \in active
  BY <1>1 DEF FetchInv, Req!OneFetchEach
<1>3. PICK r \in Req!Stages : Req!IsAt(c, r)
  BY <1>2 DEF FetchInv, Req!OneFetchEach
<1>4. r = s
  BY <1>1, <1>3 DEF Req!IsAt
<1> QED  BY <1>2, <1>3, <1>4

\* At one stage, at no other.
LEMMA Elsewhere ==
  ASSUME NEW c, NEW s \in Req!Stages, NEW r \in Req!Stages, Req!IsAt(c, s), r # s
  PROVE  tasks[Req!At(c, r)] = 0 /\ tasks[Req!At(c, s)] = 1 /\ ~Req!IsAt(c, r)
BY DEF Req!IsAt

Others(c) == \A d \in Fetched \ {c}, s \in Req!Stages : tasks'[Req!At(d, s)] = tasks[Req!At(d, s)]

LEMMA SetType ==
  ASSUME tasks \in [Req!Task -> Nat], NEW t, NEW k \in Nat
  PROVE  [tasks EXCEPT ![t] = k] \in [Req!Task -> Nat]
OBVIOUS

LEMMA Moved ==
  ASSUME tasks \in [Req!Task -> Nat], NEW c \in Fetched, NEW from \in Req!Stages, NEW to \in Req!Stages,
         from # to, Req!IsAt(c, from), tasks' = Req!Move(c, from, to)
  PROVE  tasks' \in [Req!Task -> Nat] /\ Req!IsAt(c, to)' /\ Others(c)
<1>1. Req!At(c, from) \in Req!Task /\ Req!At(c, to) \in Req!Task /\ Req!At(c, from) # Req!At(c, to)
  BY TaskIs, AtDiffer
<1>2. tasks[Req!At(c, from)] = 1 /\ tasks[Req!At(c, to)] = 0
  BY DEF Req!IsAt
<1>3. tasks' = [tasks EXCEPT ![Req!At(c, from)] = 0, ![Req!At(c, to)] = 1]
  BY <1>1, <1>2 DEF Req!Move
<1>4. tasks' \in [Req!Task -> Nat]
  <2> DEFINE T == Req!Task
  <2>1. tasks \in [T -> Nat] /\ 0 \in Nat /\ 1 \in Nat
    OBVIOUS
  <2> HIDE DEF T
  <2>2. tasks' \in [T -> Nat]
    BY <1>3, <2>1
  <2> QED  BY <2>2 DEF T
<1>5. ASSUME NEW r \in Req!Stages  PROVE tasks'[Req!At(c, r)] = IF r = to THEN 1 ELSE 0
  <2>1. Req!At(c, r) \in Req!Task
    BY TaskIs
  <2>2. CASE r = to
    BY <1>1, <1>3, <2>2
  <2>3. CASE r = from
    BY <1>1, <1>3, <2>3
  <2>4. CASE r # from /\ r # to
    BY <1>3, <2>1, <2>4, AtDiffer DEF Req!IsAt
  <2> QED  BY <2>2, <2>3, <2>4
<1>6. ASSUME NEW d \in Fetched \ {c}, NEW s \in Req!Stages  PROVE tasks'[Req!At(d, s)] = tasks[Req!At(d, s)]
  BY <1>3, TaskIs, AtDiffer
<1> QED  BY <1>4, <1>5, <1>6 DEF Req!IsAt, Others

LEMMA Ended ==
  ASSUME tasks \in [Req!Task -> Nat], NEW c \in Fetched, NEW from \in Req!Stages, Req!IsAt(c, from),
         tasks' = [tasks EXCEPT ![Req!At(c, from)] = @ - 1]
  PROVE  tasks' \in [Req!Task -> Nat] /\ Others(c) /\ \A r \in Req!Stages : tasks'[Req!At(c, r)] = 0
<1>1. Req!At(c, from) \in Req!Task /\ tasks[Req!At(c, from)] = 1
  BY TaskIs DEF Req!IsAt
<1>2. tasks' = [tasks EXCEPT ![Req!At(c, from)] = 0]
  BY <1>1
<1>3. ASSUME NEW r \in Req!Stages  PROVE tasks'[Req!At(c, r)] = 0
  <2>1. Req!At(c, r) \in Req!Task
    BY TaskIs
  <2>2. CASE r = from
    BY <1>1, <1>2, <2>2
  <2>3. CASE r # from
    BY <1>2, <2>1, <2>3, AtDiffer DEF Req!IsAt
  <2> QED  BY <2>2, <2>3
<1>4. ASSUME NEW d \in Fetched \ {c}, NEW s \in Req!Stages  PROVE tasks'[Req!At(d, s)] = tasks[Req!At(d, s)]
  BY <1>2, TaskIs, AtDiffer
<1>5. tasks' \in [Req!Task -> Nat]
  BY <1>2, SetType
<1> QED  BY <1>3, <1>4, <1>5 DEF Others

-----------------------------------------------------------------------------
(* The queue.                                                               *)

LEMMA CommandIs ==
  ASSUME NEW m \in Req!Command, m.component \in Fetched, Bounds
  PROVE  m.kind \in {"read", "take"}
BY DEF Req!Command, Bounds

\* Nothing in the queue is of a component whose task waits for no reply.
LEMMA NotAsked ==
  ASSUME Bounds, FetchInv, NEW c \in Fetched,
         c \notin active \/ \E s \in Req!Stages \ {"asked", "taking"} : Req!IsAt(c, s)
  PROVE  \A i \in 1..Len(queue) : queue[i].component # c
<1> SUFFICES ASSUME NEW i \in 1..Len(queue), queue[i].component = c  PROVE FALSE
  OBVIOUS
<1>1. queue[i] \in Req!Command
  BY DEF FetchInv
<1>2. queue[i].kind \in {"read", "take"}
  BY <1>1, CommandIs
<1>3. Req!IsAt(c, "asked") \/ Req!IsAt(c, "taking")
  BY <1>2 DEF FetchInv, CommandsOfTasks, OfTask
<1>4. {"asked", "taking"} \subseteq Req!Stages
  BY DEF Req!Stages
<1>5. CASE c \notin active
  BY <1>3, <1>4, <1>5 DEF FetchInv, Req!OneFetchEach, Req!IsAt
<1>6. ASSUME NEW s \in Req!Stages \ {"asked", "taking"}, Req!IsAt(c, s)  PROVE FALSE
  BY <1>3, <1>4, <1>6, Elsewhere
<1> QED  BY <1>5, <1>6

\* A step of one component's task.
LEMMA FetchStep ==
  ASSUME FetchInv, NEW c \in Fetched, tasks' \in [Req!Task -> Nat], Others(c),
         \/ active' = active \cup {c} /\ \E s \in Req!Stages : Req!IsAt(c, s)'
         \/ active' = active \ {c} /\ \A s \in Req!Stages : tasks'[Req!At(c, s)] = 0,
         queue' \in Seq(Req!Command),
         \A i, j \in 1..Len(queue') :
           queue'[i].component \in Fetched /\ queue'[j].component = queue'[i].component => i = j,
         \A m \in Req!Command : (\E i \in 1..Len(queue') : queue'[i] = m) =>
           \/ m.component = c /\ OfTask(m)'
           \/ m.component # c /\ \E j \in 1..Len(queue) : queue[j] = m
  PROVE  FetchInv'
<1>1. active' \subseteq Fetched
  BY DEF FetchInv
<1>2. ASSUME NEW d \in Fetched \ {c}, NEW s \in Req!Stages  PROVE Req!IsAt(d, s) => Req!IsAt(d, s)'
  BY DEF Others, Req!IsAt
<1>3. ASSUME NEW d \in Fetched
      PROVE  IF d \in active' THEN \E s \in Req!Stages : Req!IsAt(d, s)'
             ELSE \A s \in Req!Stages : tasks'[Req!At(d, s)] = 0
  <2>1. CASE d = c
    BY <2>1
  <2>2. CASE d # c
    <3>1. d \in active' <=> d \in active
      BY <2>2
    <3> QED  BY <1>2, <2>2, <3>1 DEF FetchInv, Req!OneFetchEach, Others
  <2> QED  BY <2>1, <2>2
<1>4. ASSUME NEW i \in 1..Len(queue'), NEW m \in Req!Command, queue'[i] = m  PROVE OfTask(m)'
  <2>1. CASE m.component # c
    <3>1. PICK j \in 1..Len(queue) : queue[j] = m
      BY <1>4, <2>1
    <3>2. OfTask(m)
      BY <3>1 DEF FetchInv, CommandsOfTasks
    <3>3. m.kind \in {"read", "take"} => m.component \in Fetched
      BY DEF Req!Command
    <3>4. "asked" \in Req!Stages /\ "taking" \in Req!Stages
      BY DEF Req!Stages
    <3>5. m.kind = "read" => Req!IsAt(m.component, "asked")'
      BY <1>2, <2>1, <3>2, <3>3, <3>4 DEF OfTask
    <3>6. m.kind = "take" => m.component = "gpu" /\ Req!IsAt("gpu", "taking")'
      BY <1>2, <2>1, <3>2, <3>3, <3>4 DEF OfTask
    <3> QED  BY <3>5, <3>6 DEF OfTask
  <2> QED  BY <1>4, <2>1
<1>5. Req!OneFetchEach'
  BY <1>3 DEF Req!OneFetchEach
<1>6. CommandsOfTasks'
  BY <1>4 DEF CommandsOfTasks
<1> QED  BY <1>1, <1>5, <1>6 DEF FetchInv

\* A task that waits for no reply goes on, or ends.
LEMMA TaskGoes ==
  ASSUME Bounds, FetchInv, NEW c \in Fetched, NEW from \in Req!Stages \ {"asked", "taking"},
         tasks[Req!At(c, from)] > 0, queue' = queue,
         \/ Req!End(c, from)
         \/ \E to \in Req!Stages \ {from} : tasks' = Req!Move(c, from, to) /\ active' = active
  PROVE  FetchInv'
<1>1. Req!IsAt(c, from) /\ c \in active
  BY Located
<1>2. \A i \in 1..Len(queue) : queue[i].component # c
  BY <1>1, NotAsked
<1>3. /\ tasks' \in [Req!Task -> Nat] /\ Others(c)
      /\ \/ active' = active \cup {c} /\ \E s \in Req!Stages : Req!IsAt(c, s)'
         \/ active' = active \ {c} /\ \A s \in Req!Stages : tasks'[Req!At(c, s)] = 0
  <2>1. CASE Req!End(c, from)
    BY <1>1, <2>1, Ended DEF Req!End, FetchInv
  <2>2. ASSUME NEW to \in Req!Stages \ {from}, tasks' = Req!Move(c, from, to), active' = active
        PROVE  tasks' \in [Req!Task -> Nat] /\ Others(c) /\ active' = active \cup {c} /\ Req!IsAt(c, to)'
    BY <1>1, <2>2, Moved DEF FetchInv
  <2> QED  BY <2>1, <2>2
<1>4. /\ queue' \in Seq(Req!Command)
      /\ \A i, j \in 1..Len(queue') :
           queue'[i].component \in Fetched /\ queue'[j].component = queue'[i].component => i = j
      /\ \A m \in Req!Command : (\E i \in 1..Len(queue') : queue'[i] = m) =>
           m.component # c /\ \E j \in 1..Len(queue) : queue[j] = m
  BY <1>2 DEF FetchInv, Req!OneFetchEach
<1> QED  BY <1>3, <1>4, FetchStep

\* A command is put behind the others, of a component that has none there.
LEMMA Asked ==
  ASSUME Bounds, FetchInv, NEW c \in Fetched, NEW m \in Req!Command, m.component = c,
         \A i \in 1..Len(queue) : queue[i].component # c,
         queue' = Append(queue, m), OfTask(m)', tasks' \in [Req!Task -> Nat], Others(c),
         active' = active \cup {c}, \E s \in Req!Stages : Req!IsAt(c, s)'
  PROVE  FetchInv'
<1>1. queue \in Seq(Req!Command)
  BY DEF FetchInv
<1>2. /\ queue' \in Seq(Req!Command) /\ Len(queue) \in Nat /\ Len(queue') = Len(queue) + 1
      /\ queue'[Len(queue) + 1] = m /\ \A i \in 1..Len(queue) : queue'[i] = queue[i]
  BY <1>1
<1>3. \A i \in 1..Len(queue') : i = Len(queue) + 1 \/ i \in 1..Len(queue)
  BY <1>2
<1>4. ASSUME NEW i \in 1..Len(queue'), NEW j \in 1..Len(queue'),
             queue'[i].component \in Fetched, queue'[j].component = queue'[i].component
      PROVE  i = j
  <2>1. CASE i \in 1..Len(queue) /\ j \in 1..Len(queue)
    BY <1>2, <1>4, <2>1, <1>1 DEF FetchInv, Req!OneFetchEach
  <2>2. CASE ~(i \in 1..Len(queue) /\ j \in 1..Len(queue))
    BY <1>2, <1>3, <1>4, <2>2
  <2> QED  BY <2>1, <2>2
<1>5. ASSUME NEW x \in Req!Command, NEW i \in 1..Len(queue'), queue'[i] = x
      PROVE  \/ x.component = c /\ OfTask(x)'
             \/ x.component # c /\ \E j \in 1..Len(queue) : queue[j] = x
  <2>1. CASE i = Len(queue) + 1
    BY <1>2, <1>5, <2>1
  <2>2. CASE i \in 1..Len(queue)
    BY <1>2, <1>5, <2>2
  <2> QED  BY <1>3, <2>1, <2>2
<1>6. \A x \in Req!Command : (\E i \in 1..Len(queue') : queue'[i] = x) =>
        \/ x.component = c /\ OfTask(x)'
        \/ x.component # c /\ \E j \in 1..Len(queue) : queue[j] = x
  BY <1>5
<1>7. queue' \in Seq(Req!Command)
  BY <1>2
<1> QED  BY <1>4, <1>6, <1>7, FetchStep

LEMMA TickFetch ==
  ASSUME Bounds, FetchInv, NEW c \in Fetched, Req!Tick(c)  PROVE FetchInv'
<1> DEFINE m == [kind |-> "read", component |-> c, order |-> 0]
<1>1. /\ c \notin active /\ active' = active \cup {c} /\ queue' = Append(queue, m)
      /\ tasks' = [tasks EXCEPT ![Req!At(c, "asked")] = @ + 1]
  BY DEF Req!Tick, Req!MayBegin, Req!Ask
<1>2. /\ \A i \in 1..Len(queue) : queue[i].component # c
      /\ \A s \in Req!Stages : tasks[Req!At(c, s)] = 0
  BY <1>1, NotAsked DEF FetchInv, Req!OneFetchEach
<1>3. "asked" \in Req!Stages /\ Req!At(c, "asked") \in Req!Task /\ tasks[Req!At(c, "asked")] = 0
  BY <1>2, TaskIs DEF Req!Stages
<1>4. tasks' = [tasks EXCEPT ![Req!At(c, "asked")] = 1]
  BY <1>1, <1>3
<1>5. tasks' \in [Req!Task -> Nat]
  BY <1>4, SetType DEF FetchInv
<1>6. ASSUME NEW s \in Req!Stages  PROVE tasks'[Req!At(c, s)] = IF s = "asked" THEN 1 ELSE 0
  BY <1>2, <1>3, <1>4, TaskIs, AtDiffer DEF FetchInv
<1>7. Req!IsAt(c, "asked")'
  BY <1>6 DEF Req!IsAt
<1>8. ASSUME NEW d \in Fetched \ {c}, NEW s \in Req!Stages  PROVE tasks'[Req!At(d, s)] = tasks[Req!At(d, s)]
  BY <1>4, TaskIs, AtDiffer DEF FetchInv
<1>9. m \in Req!Command /\ m.component = c /\ OfTask(m)'
  BY <1>7 DEF Req!Command, OfTask
<1> HIDE DEF m
<1> QED  BY <1>1, <1>2, <1>3, <1>5, <1>7, <1>8, <1>9, Asked DEF Others

LEMMA TaskFetch ==
  ASSUME Bounds, FetchInv, NEW c \in Fetched, Req!TaskStep(c)  PROVE FetchInv'
<1> USE DEF Req!Stages
<1>1. CASE Req!Answered(c)
  BY <1>1, TaskGoes DEF Req!Answered, Req!AfterReading
<1>2. CASE Req!Requested(c)
  BY <1>2, TaskGoes DEF Req!Requested, Req!AfterReading
<1>3. CASE Req!SendReport(c)
  BY <1>3, TaskGoes DEF Req!SendReport
<1>4. CASE Req!Finish(c)
  BY <1>4, TaskGoes DEF Req!Finish
<1>5. CASE Req!AskReport(c) /\ c # "gpu"
  BY <1>5, TaskGoes DEF Req!AskReport
<1>6. CASE Req!AskReport(c) /\ c = "gpu"
  <2> DEFINE m == [kind |-> "take", component |-> c, order |-> 0]
  <2>1. /\ tasks[Req!At(c, "failed")] > 0 /\ queue' = Append(queue, m) /\ active' = active
        /\ tasks' = Req!Move(c, "failed", "taking")
    BY <1>6 DEF Req!AskReport, Req!Ask
  <2>2. Req!IsAt(c, "failed") /\ c \in active
    BY <2>1, Located
  <2>3. \A i \in 1..Len(queue) : queue[i].component # c
    BY <2>2, NotAsked
  <2>4. tasks' \in [Req!Task -> Nat] /\ Req!IsAt(c, "taking")' /\ Others(c)
    BY <2>1, <2>2, Moved DEF FetchInv
  <2>5. m \in Req!Command /\ m.component = c /\ OfTask(m)'
    BY <1>6, <2>4 DEF Req!Command, OfTask
  <2> HIDE DEF m
  <2> QED  BY <2>1, <2>2, <2>3, <2>4, <2>5, Asked
<1> QED  BY <1>1, <1>2, <1>3, <1>4, <1>5, <1>6 DEF Req!TaskStep

\* The tasks are left alone.
LEMMA OrderFetch ==
  ASSUME Bounds, FetchInv, ordered \in 0..MaxOrders, Req!Order  PROVE FetchInv'
<1> DEFINE m == [kind |-> "order", component |-> "user", order |-> ordered + 1]
<1>1. queue' = Append(queue, m) /\ UNCHANGED <<active, tasks>> /\ ordered + 1 \in 1..MaxOrders
  BY DEF Req!Order, Req!fetches, Bounds
<1>2. m \in Req!Command /\ m.component \notin Fetched /\ m.kind = "order" /\ queue \in Seq(Req!Command)
  BY <1>1 DEF Req!Command, Bounds, FetchInv
<1> HIDE DEF m
<1>3. /\ queue' \in Seq(Req!Command) /\ Len(queue) \in Nat /\ Len(queue') = Len(queue) + 1
      /\ queue'[Len(queue) + 1] = m /\ \A i \in 1..Len(queue) : queue'[i] = queue[i]
      /\ \A i \in 1..Len(queue') : i = Len(queue) + 1 \/ i \in 1..Len(queue)
  BY <1>1, <1>2
<1>4. Req!OneFetchEach'
  <2>1. ASSUME NEW i \in 1..Len(queue'), NEW j \in 1..Len(queue'),
               queue'[i].component \in Fetched, queue'[j].component = queue'[i].component
        PROVE  i = j
    <3>1. i \in 1..Len(queue) /\ j \in 1..Len(queue)
      BY <1>2, <1>3, <2>1
    <3> QED  BY <1>3, <2>1, <3>1 DEF FetchInv, Req!OneFetchEach
  <2> QED  BY <1>1, <1>3, <2>1 DEF FetchInv, Req!OneFetchEach, Req!IsAt
<1>5. ASSUME NEW x \in Req!Command  PROVE OfTask(x) => OfTask(x)'
  BY <1>1 DEF OfTask, Req!IsAt
<1>6. CommandsOfTasks'
  <2>1. ASSUME NEW i \in 1..Len(queue'), NEW x \in Req!Command, queue'[i] = x  PROVE OfTask(x)'
    <3>1. CASE i \in 1..Len(queue)
      BY <1>3, <1>5, <2>1, <3>1 DEF FetchInv, CommandsOfTasks
    <3>2. CASE i = Len(queue) + 1
      BY <1>2, <1>3, <2>1, <3>2 DEF OfTask
    <3> QED  BY <1>3, <3>1, <3>2
  <2> QED  BY <1>3, <2>1 DEF CommandsOfTasks
<1> QED  BY <1>1, <1>3, <1>4, <1>6 DEF FetchInv

\* The reply of the first command in the queue.
LEMMA CallFetch ==
  ASSUME Bounds, FetchInv, Req!Call  PROVE FetchInv'
<1>1. /\ queue # <<>> /\ queue' = Tail(queue) /\ queue \in Seq(Req!Command)
      /\ \E ok \in BOOLEAN : Req!Reply(Head(queue), ok)
  BY DEF Req!Call, FetchInv, Req!Works
<1>2. PICK m \in Req!Command : m = Head(queue) /\ m = queue[1] /\ 1 \in 1..Len(queue)
  BY <1>1
<1>3. PICK ok : Req!Reply(m, ok)
  BY <1>1, <1>2
<1>4. /\ queue' \in Seq(Req!Command) /\ Len(queue') = Len(queue) - 1 /\ Len(queue) \in Nat
      /\ \A i \in 1..Len(queue') : i + 1 \in 1..Len(queue) /\ queue'[i] = queue[i + 1]
  BY <1>1
<1>5. \A i, j \in 1..Len(queue') :
        queue'[i].component \in Fetched /\ queue'[j].component = queue'[i].component => i = j
  <2>1. ASSUME NEW i \in 1..Len(queue'), NEW j \in 1..Len(queue'),
               queue'[i].component \in Fetched, queue'[j].component = queue'[i].component
        PROVE  i = j
    <3>1. i + 1 = j + 1
      BY <1>1, <1>4, <2>1 DEF FetchInv, Req!OneFetchEach
    <3> QED  BY <3>1
  <2> QED  BY <2>1
<1>6. \A i \in 1..Len(queue') : \E j \in 1..Len(queue) : queue[j] = queue'[i]
  BY <1>4
<1>7. OfTask(m)
  BY <1>2 DEF FetchInv, CommandsOfTasks
<1>8. CASE m.kind = "order"
  <2>1. UNCHANGED <<tasks, active>>
    BY <1>3, <1>8 DEF Req!Reply, Req!fetches
  <2>2. Req!OneFetchEach'
    BY <1>4, <1>5, <2>1 DEF FetchInv, Req!OneFetchEach, Req!IsAt
  <2>3. ASSUME NEW x \in Req!Command  PROVE OfTask(x) => OfTask(x)'
    BY <2>1 DEF OfTask, Req!IsAt
  <2>4. CommandsOfTasks'
    <3>1. ASSUME NEW i \in 1..Len(queue'), NEW x \in Req!Command, queue'[i] = x  PROVE OfTask(x)'
      BY <1>6, <2>3, <3>1 DEF FetchInv, CommandsOfTasks
    <3> QED  BY <1>4, <3>1 DEF CommandsOfTasks
  <2> QED  BY <1>4, <2>1, <2>2, <2>4 DEF FetchInv
<1>9. CASE m.kind \in {"read", "take"}
  <2>1. PICK c \in Fetched : c = m.component
    BY <1>9 DEF Req!Command
  <2>2. \A i \in 1..Len(queue') : queue'[i].component # c
    <3>1. ASSUME NEW i \in 1..Len(queue'), queue'[i].component = c  PROVE FALSE
      <4>1. i + 1 \in 1..Len(queue) /\ queue[i + 1].component = c /\ queue[1].component = c
        BY <1>2, <1>4, <2>1, <3>1
      <4>2. i + 1 = 1
        BY <1>1, <1>2, <4>1 DEF FetchInv, Req!OneFetchEach
      <4> QED  BY <4>2
    <3> QED  BY <3>1
  <2>3. PICK from \in {"asked", "taking"} : Req!IsAt(c, from) /\ (m.kind = "read" <=> from = "asked")
    BY <1>7, <1>9, <2>1 DEF OfTask
  <2>4. from \in Req!Stages /\ tasks[Req!At(c, from)] = 1 /\ c \in active
    <3>1. from \in Req!Stages
      BY DEF Req!Stages
    <3>2. tasks[Req!At(c, from)] = 1
      BY <2>3, <3>1 DEF Req!IsAt
    <3> QED  BY <3>1, <3>2, Located
  <2>5. \/ Req!End(c, from)
        \/ \E to \in {"answered", "failed", "taken"} : tasks' = Req!Move(c, from, to) /\ active' = active
    BY <1>3, <1>9, <2>1, <2>3 DEF Req!Reply
  <2>6. /\ tasks' \in [Req!Task -> Nat] /\ Others(c)
        /\ \/ active' = active \cup {c} /\ \E s \in Req!Stages : Req!IsAt(c, s)'
           \/ active' = active \ {c} /\ \A s \in Req!Stages : tasks'[Req!At(c, s)] = 0
    <3>1. CASE Req!End(c, from)
      BY <2>3, <2>4, <3>1, Ended DEF Req!End, FetchInv
    <3>2. ASSUME NEW to \in {"answered", "failed", "taken"}, tasks' = Req!Move(c, from, to), active' = active
          PROVE  /\ tasks' \in [Req!Task -> Nat] /\ Others(c) /\ active' = active \cup {c}
                 /\ to \in Req!Stages /\ Req!IsAt(c, to)'
      <4>1. to \in Req!Stages /\ from # to
        BY <3>2 DEF Req!Stages
      <4> QED  BY <2>3, <2>4, <3>2, <4>1, Moved DEF FetchInv
    <3> QED  BY <2>5, <3>1, <3>2
  <2>7. \A x \in Req!Command : (\E i \in 1..Len(queue') : queue'[i] = x) =>
          x.component # c /\ \E j \in 1..Len(queue) : queue[j] = x
    BY <1>6, <2>2
  <2> QED  BY <1>4, <1>5, <2>6, <2>7, FetchStep
<1> QED  BY <1>8, <1>9 DEF Req!Command

LEMMA FetchKept ==
  ASSUME FetchInv, UNCHANGED <<Req!fetches, queue>>  PROVE FetchInv'
<1>1. ASSUME NEW x  PROVE OfTask(x) => OfTask(x)'
  BY DEF Req!fetches, OfTask, Req!IsAt
<1>2. CommandsOfTasks'
  <2>1. ASSUME NEW i \in 1..Len(queue'), NEW x, queue'[i] = x  PROVE OfTask(x)'
    BY <1>1, <2>1 DEF FetchInv, CommandsOfTasks
  <2> QED  BY <2>1 DEF CommandsOfTasks
<1> QED  BY <1>2 DEF Req!fetches, FetchInv, Req!OneFetchEach, Req!IsAt

LEMMA FetchNext ==
  ASSUME Bounds, RequestInv, [Req!Next]_(Req!requestVars)  PROVE FetchInv'
<1> USE DEF RequestInv
<1>1. CASE Req!WorkerStep
  BY <1>1, CallFetch, FetchKept DEF Req!WorkerStep, Req!Connect
<1>2. CASE Req!FrameStep
  BY <1>2, FetchKept DEF Req!FrameStep, Req!BeginFrame, Req!ReadUpdate, Req!EndReading, Req!EndFrame
<1>3. CASE Req!Order
  BY <1>3, OrderFetch DEF OtherTypes
<1>4. CASE Req!Hide \/ Req!MakeReport \/ Req!Service \/ Req!Die \/ UNCHANGED Req!requestVars
  BY <1>4, FetchKept DEF Req!Hide, Req!MakeReport, Req!Service, Req!Die, Req!requestVars
<1> QED  BY <1>1, <1>2, <1>3, <1>4, TickFetch, TaskFetch DEF Req!Next

-----------------------------------------------------------------------------
(* Reports.                                                                 *)

Keep(S) == \A d \in Fetched, r \in S : tasks'[Req!At(d, r)] = tasks[Req!At(d, r)]

\* A step of a task between other stages.
LEMMA StagesKept ==
  ASSUME FetchInv, NEW c, NEW from, NEW S \in SUBSET Req!Stages, from \notin S,
         \/ Req!End(c, from)
         \/ \E to \in Req!Stages \ S : tasks' = Req!Move(c, from, to)
  PROVE  Keep(S)
<1> SUFFICES ASSUME NEW d \in Fetched, NEW r \in S  PROVE tasks'[Req!At(d, r)] = tasks[Req!At(d, r)]
  BY DEF Keep
<1>1. Req!At(d, r) \in Req!Task /\ Req!At(d, r) # Req!At(c, from) /\ tasks \in [Req!Task -> Nat]
  BY TaskIs, AtDiffer DEF FetchInv
<1>2. CASE Req!End(c, from)
  BY <1>1, <1>2 DEF Req!End
<1>3. ASSUME NEW to \in Req!Stages \ S, tasks' = Req!Move(c, from, to)  PROVE tasks'[Req!At(d, r)] = tasks[Req!At(d, r)]
  <2>1. Req!At(d, r) # Req!At(c, to)
    BY AtDiffer
  <2> QED  BY <1>1, <1>3, <2>1 DEF Req!Move
<1> QED  BY <1>2, <1>3

LEMMA TakenKept ==
  ASSUME FetchInv, NEW c, NEW from \in Req!Stages \ {"taken"},
         \/ Req!End(c, from)
         \/ \E to \in Req!Stages \ {"taken"} : tasks' = Req!Move(c, from, to)
  PROVE  Keep({"taken"})
<1> DEFINE S == {"taken"}
<1>1. S \in SUBSET Req!Stages
  BY DEF Req!Stages
<1> QED  BY <1>1, StagesKept

LEMMA ReportKept ==
  ASSUME Bounds, ReportInv, UNCHANGED <<Req!reports, updates, shown>>, Keep({"taken"})
  PROVE  ReportInv'
BY DEF Bounds, ReportInv, Req!TakenReportKept, Req!reports, Keep

LEMMA Pushed ==
  ASSUME Bounds, ReportInv, NEW m \in 0..MaxReports, Req!Push(m)
  PROVE  /\ updates' \in Seq(0..MaxReports) /\ Len(updates') <= Capacity
         /\ \A i \in DOMAIN updates : i \in DOMAIN updates' /\ updates'[i] = updates[i]
         /\ Len(updates) < Capacity => \E i \in DOMAIN updates' : updates'[i] = m
<1>1. updates \in Seq(0..MaxReports) /\ Len(updates) \in Nat /\ Capacity \in Nat /\ Len(updates) <= Capacity
  BY DEF ReportInv, Bounds
<1>2. CASE Len(updates) < Capacity
  <2>1. updates' = Append(updates, m)
    BY <1>2 DEF Req!Push
  <2>2. /\ updates' \in Seq(0..MaxReports) /\ Len(updates') = Len(updates) + 1 /\ updates'[Len(updates) + 1] = m
        /\ \A i \in DOMAIN updates : i \in DOMAIN updates' /\ updates'[i] = updates[i]
        /\ Len(updates) + 1 \in DOMAIN updates'
    BY <1>1, <2>1
  <2> QED  BY <1>1, <1>2, <2>2
<1>3. CASE ~(Len(updates) < Capacity)
  BY <1>1, <1>3 DEF Req!Push
<1> QED  BY <1>2, <1>3

LEMMA TaskReports ==
  ASSUME Bounds, FetchInv, ReportInv, NEW c \in Fetched, Req!TaskStep(c)  PROVE ReportInv'
<1> USE DEF Req!Stages
<1>0. MaxReports \in Nat /\ made \in 0..MaxReports
  BY DEF Bounds, ReportInv
<1>1. CASE Req!Answered(c)
  <2>0. \/ Req!End(c, "answered")
        \/ \E to \in {"sent", "failed"} : tasks' = Req!Move(c, "answered", to)
    BY <1>1 DEF Req!Answered, Req!AfterReading
  <2>1. Keep({"taken"})
    BY <2>0, TakenKept
  <2>2. Req!Push(0) /\ UNCHANGED <<Req!reports, shown>> /\ 0 \in 0..MaxReports
    BY <1>0, <1>1 DEF Req!Answered
  <2> QED  BY <2>1, <2>2, Pushed DEF Bounds, ReportInv, Req!TakenReportKept, Req!reports, Keep
<1>2. CASE Req!Requested(c)
  <2>0. PICK from \in Req!Stages \ {"taken"} : from = "sent"
    OBVIOUS
  <2>2. Req!End(c, from) \/ \E to \in {"failed"} : tasks' = Req!Move(c, from, to)
    BY <1>2, <2>0 DEF Req!Requested, Req!AfterReading
  <2>1. Keep({"taken"})
    BY <2>2, TakenKept
  <2> QED  BY <1>2, <2>1, ReportKept DEF Req!Requested, Req!Repaint
<1>3. CASE Req!AskReport(c)
  <2>0. PICK from \in Req!Stages \ {"taken"} : from = "failed"
    OBVIOUS
  <2>1. \/ Req!End(c, from)
        \/ \E to \in {"taking"} : tasks' = Req!Move(c, from, to)
    BY <1>3, <2>0 DEF Req!AskReport
  <2>2. Keep({"taken"})
    BY <2>1, TakenKept
  <2> QED  BY <1>3, <2>2, ReportKept DEF Req!AskReport, Req!screen
<1>4. CASE Req!SendReport(c)
  <2>1. Req!Push(made) /\ Len(updates) < Capacity /\ UNCHANGED <<held, made, mislaid, shown>>
    BY <1>4 DEF Req!SendReport, Req!Lossless, Req!reports
  <2> QED  BY <1>0, <2>1, Pushed DEF ReportInv, Req!TakenReportKept
<1>5. CASE Req!Finish(c)
  <2>1. Keep({"taken"})
    BY <1>5, TakenKept DEF Req!Finish
  <2> QED  BY <1>5, <2>1, ReportKept DEF Req!Finish, Req!Repaint
<1> QED  BY <1>1, <1>2, <1>3, <1>4, <1>5 DEF Req!TaskStep

\* The reply is of a command whose task waits for it.
LEMMA Replied ==
  ASSUME Bounds, FetchInv, Req!Call
  PROVE  \E m \in Req!Command, ok \in {FALSE, Req!Works} : Req!Reply(m, ok) /\ OfTask(m)
<1>1. queue # <<>> /\ queue \in Seq(Req!Command) /\ \E ok \in {FALSE, Req!Works} : Req!Reply(Head(queue), ok)
  BY DEF Req!Call, FetchInv
<1>2. Head(queue) \in Req!Command /\ Head(queue) = queue[1] /\ 1 \in 1..Len(queue)
  BY <1>1
<1> QED  BY <1>1, <1>2 DEF FetchInv, CommandsOfTasks

\* The report that the daemon hands out is the newest one, and its task has it.
LEMMA CallReports ==
  ASSUME Bounds, FetchInv, ReportInv, Req!Call  PROVE ReportInv'
<1> USE DEF Req!Stages
<1>1. PICK m \in Req!Command, ok \in {FALSE, Req!Works} : Req!Reply(m, ok) /\ OfTask(m)
  BY Replied
<1>2. UNCHANGED <<updates, shown>>
  BY DEF Req!Call, Req!screen
<1>3. CASE m.kind = "read"
  <2>0. PICK c : c = m.component
    OBVIOUS
  <2>1. PICK from \in Req!Stages \ {"taken"} : from = "asked"
    OBVIOUS
  <2>2. UNCHANGED Req!reports /\ \E to \in {"answered", "failed"} : tasks' = Req!Move(c, from, to)
    BY <1>1, <1>3, <2>0, <2>1 DEF Req!Reply
  <2>3. Keep({"taken"})
    BY <2>2, TakenKept
  <2> QED  BY <1>2, <2>2, <2>3, ReportKept
<1>4. CASE m.kind = "order"
  <2>1. UNCHANGED <<Req!reports, tasks>>
    BY <1>1, <1>4 DEF Req!Reply, Req!fetches
  <2> QED  BY <1>2, <2>1, ReportKept DEF Keep
<1>5. CASE m.kind = "take"
  <2>1. m.component = "gpu" /\ Req!IsAt("gpu", "taking") /\ made' = made
    BY <1>1, <1>5 DEF OfTask, Req!Reply
  <2>2. CASE ok /\ held # 0
    <3>1. held' = 0 /\ tasks' = Req!Move("gpu", "taking", "taken")
      BY <1>1, <1>5, <2>1, <2>2 DEF Req!Reply
    <3>2. Req!IsAt("gpu", "taken")'
      BY <2>1, <3>1, Moved DEF Bounds, FetchInv
    <3>3. tasks'[Req!At("gpu", "taken")] = 1
      BY <3>2 DEF Req!IsAt
    <3>4. mislaid' = mislaid
      BY <1>1, <1>5, <2>1, <2>2, Req!Works \in BOOLEAN DEF Req!Reply
    <3> QED  BY <1>2, <2>1, <3>1, <3>3, <3>4 DEF ReportInv, Req!TakenReportKept
  <2>3. CASE ~(ok /\ held # 0)
    <3>1. /\ Req!End("gpu", "taking")
          /\ \/ held' = held /\ mislaid' = mislaid
             \/ held # 0 /\ held' = 0 /\ mislaid' = mislaid \cup {held}
      BY <1>1, <1>5, <2>1, <2>3 DEF Req!Reply
    <3>2. Keep({"taken"})
      BY <3>1, TakenKept
    <3>3. CASE held' = held /\ mislaid' = mislaid
      BY <1>2, <2>1, <3>2, <3>3, ReportKept DEF Req!reports
    <3>4. CASE held # 0 /\ held' = 0 /\ mislaid' = mislaid \cup {held}
      <4>1. held \in 1..MaxReports /\ mislaid' \subseteq 1..MaxReports
        BY <3>4 DEF Bounds, ReportInv
      <4>2. tasks'[Req!At("gpu", "taken")] = tasks[Req!At("gpu", "taken")]
        BY <3>2 DEF Keep, Bounds
      <4>3. Req!TakenReportKept'
        BY <1>2, <2>1, <3>4, <4>2 DEF ReportInv, Req!TakenReportKept
      <4> QED  BY <1>2, <2>1, <3>4, <4>1, <4>3 DEF ReportInv
    <3> QED  BY <3>1, <3>3, <3>4
  <2> QED  BY <2>2, <2>3
<1> QED  BY <1>3, <1>4, <1>5 DEF Req!Command

LEMMA ReadReports ==
  ASSUME Bounds, ReportInv, Req!ReadUpdate  PROVE ReportInv'
<1>1. /\ updates # <<>> /\ updates' = Tail(updates) /\ shown' = shown \cup ({Head(updates)} \cap 1..MaxReports)
      /\ UNCHANGED <<made, held, mislaid, tasks>>
  BY DEF Req!ReadUpdate, Req!reports, Req!fetches
<1>2. updates \in Seq(0..MaxReports) /\ Len(updates) <= Capacity /\ Capacity \in Nat /\ made \in 0..MaxReports
  BY DEF ReportInv, Bounds
<1>3. updates' \in Seq(0..MaxReports) /\ Len(updates') = Len(updates) - 1 /\ Len(updates) \in Nat /\ Head(updates) = updates[1]
  BY <1>1, <1>2
<1>4. ASSUME NEW i \in DOMAIN updates  PROVE updates[i] \in {Head(updates)} \cup {updates'[j] : j \in DOMAIN updates'}
  <2>1. CASE i = 1
    BY <1>3, <2>1
  <2>2. CASE i # 1
    <3>1. i - 1 \in DOMAIN updates' /\ updates'[i - 1] = updates[i]
      BY <1>1, <1>2, <1>3, <2>2
    <3> QED  BY <3>1
  <2> QED  BY <2>1, <2>2
<1>5. ASSUME NEW n \in 1..made
      PROVE  \/ held = n \/ n \in shown' \/ n \in mislaid \/ (\E i \in DOMAIN updates' : updates'[i] = n)
             \/ n = made /\ tasks[Req!At("gpu", "taken")] = 1
  <2>1. n \in 1..MaxReports
    BY <1>2 DEF Bounds
  <2>2. ASSUME NEW i \in DOMAIN updates, updates[i] = n
        PROVE  n \in shown' \/ \E j \in DOMAIN updates' : updates'[j] = n
    BY <1>1, <1>4, <2>1, <2>2
  <2> QED  BY <1>1, <2>2 DEF ReportInv, Req!TakenReportKept
<1>6. shown' \subseteq 1..MaxReports /\ Len(updates') <= Capacity /\ made' \in 0..MaxReports /\ held' \in {0, made'}
  <2>1. shown' \subseteq 1..MaxReports
    BY <1>1 DEF ReportInv
  <2>2. Len(updates') <= Capacity
    BY <1>2, <1>3
  <2>3. made' \in 0..MaxReports /\ held' \in {0, made'}
    BY <1>1 DEF ReportInv
  <2> QED  BY <2>1, <2>2, <2>3
<1> QED  BY <1>1, <1>3, <1>5, <1>6 DEF ReportInv, Req!TakenReportKept

LEMMA ReportNext ==
  ASSUME Bounds, RequestInv, [Req!Next]_(Req!requestVars)  PROVE ReportInv'
<1> USE DEF RequestInv
<1>1. CASE UNCHANGED <<tasks, Req!reports, updates, shown>>
  BY <1>1, ReportKept DEF Keep
<1>2. ASSUME NEW c \in Fetched, Req!Tick(c)  PROVE ReportInv'
  <2>1. tasks' = [tasks EXCEPT ![Req!At(c, "asked")] = @ + 1] /\ UNCHANGED <<Req!reports, Req!screen>>
    BY <1>2 DEF Req!Tick
  <2>2. Req!At("gpu", "taken") \in Req!Task /\ Req!At("gpu", "taken") # Req!At(c, "asked") /\ tasks \in [Req!Task -> Nat]
    BY TaskIs, AtDiffer DEF Req!Stages, Bounds, FetchInv
  <2>3. tasks'[Req!At("gpu", "taken")] = tasks[Req!At("gpu", "taken")]
    BY <2>1, <2>2
  <2> QED  BY <2>1, <2>3 DEF ReportInv, Req!TakenReportKept, Req!reports, Req!screen
<1>3. CASE Req!MakeReport
  <2>1. /\ made < MaxReports /\ held = 0 /\ tasks[Req!At("gpu", "taken")] = 0
        /\ made' = made + 1 /\ held' = made + 1 /\ UNCHANGED <<mislaid, tasks, updates, shown>>
    BY <1>3 DEF Req!MakeReport, Req!fetches, Req!screen
  <2>2. made \in 0..MaxReports /\ MaxReports \in Nat
    BY DEF ReportInv, Bounds
  <2>3. ASSUME NEW n \in 1..made'
        PROVE  held' = n \/ n \in shown \/ n \in mislaid \/ \E i \in DOMAIN updates : updates[i] = n
    <3>1. n # 0 /\ (n = made + 1 \/ n \in 1..made)
      BY <2>1, <2>2
    <3> QED  BY <2>1, <3>1 DEF ReportInv, Req!TakenReportKept
  <2>4. made' \in 0..MaxReports /\ held' \in {0, made'}
    BY <2>1, <2>2
  <2> QED  BY <2>1, <2>3, <2>4 DEF ReportInv, Req!TakenReportKept
<1>4. CASE Req!WorkerStep
  BY <1>1, <1>4, CallReports DEF Req!WorkerStep, Req!Connect, Req!fetches, Req!screen
<1>5. CASE Req!FrameStep
  BY <1>1, <1>5, ReadReports DEF Req!FrameStep, Req!BeginFrame, Req!EndReading, Req!EndFrame, Req!fetches
<1>6. CASE Req!Order \/ Req!Hide \/ Req!Service \/ Req!Die \/ UNCHANGED Req!requestVars
  BY <1>1, <1>6 DEF Req!Order, Req!Hide, Req!Service, Req!Die, Req!requestVars, Req!fetches, Req!screen
<1> QED  BY <1>2, <1>3, <1>4, <1>5, <1>6, TaskReports DEF Req!Next

-----------------------------------------------------------------------------
(* The screen.                                                              *)

LEMMA SenderKept ==
  ASSUME FetchInv, NEW c, NEW from \in Req!Stages \ {"sent", "last"},
         \/ Req!End(c, from)
         \/ \E to \in Req!Stages \ {"sent", "last"} : tasks' = Req!Move(c, from, to)
  PROVE  Keep({"sent", "last"})
<1> DEFINE S == {"sent", "last"}
<1>1. S \in SUBSET Req!Stages
  BY DEF Req!Stages
<1> QED  BY <1>1, StagesKept

LEMMA ScreenKept ==
  ASSUME ScreenInv, UNCHANGED <<updates, latch, due, frame, visible>>, Keep({"sent", "last"})
  PROVE  ScreenInv'
BY DEF ScreenInv, Req!ArrivalsAreDrawn, Keep

\* A sender that has yet to ask for its frame.
LEMMA ScreenSent ==
  ASSUME ScreenInv, UNCHANGED <<latch, due, frame, visible>>,
         NEW c \in Fetched, NEW s \in {"sent", "last"}, tasks'[Req!At(c, s)] = 1
  PROVE  ScreenInv'
BY DEF ScreenInv, Req!ArrivalsAreDrawn

\* The latch is down unless a frame is due: asking leaves one due.
LEMMA ScreenRepainted ==
  ASSUME ScreenInv, Req!Repaint  PROVE ScreenInv'
<1>1. due' = TRUE
  BY DEF ScreenInv, Req!Repaint
<1> QED  BY <1>1 DEF ScreenInv, Req!ArrivalsAreDrawn, Req!Repaint

LEMMA TaskScreen ==
  ASSUME Bounds, FetchInv, ScreenInv, NEW c \in Fetched, Req!TaskStep(c)  PROVE ScreenInv'
<1> USE DEF Req!Stages
<1>1. CASE Req!Answered(c)
  <2>1. UNCHANGED <<latch, due, frame, visible>>
    BY <1>1 DEF Req!Answered
  <2>2. PICK from \in Req!Stages \ {"sent", "last"} : from = "answered"
    OBVIOUS
  <2>3. CASE Len(updates) < Capacity
    <3>1. Req!IsAt(c, "answered") /\ tasks' = Req!Move(c, "answered", "sent")
      BY <1>1, <2>3, Located DEF Req!Answered
    <3>2. Req!IsAt(c, "sent")'
      BY <3>1, Moved DEF FetchInv
    <3> QED  BY <2>1, <3>2, ScreenSent DEF Req!IsAt
  <2>4. CASE ~(Len(updates) < Capacity)
    <3>1. updates' = updates
      BY <1>1, <2>4 DEF Req!Answered, Req!Push
    <3>2. Req!End(c, from) \/ \E to \in {"failed"} : tasks' = Req!Move(c, from, to)
      BY <1>1, <2>2, <2>4 DEF Req!Answered, Req!AfterReading
    <3>3. Keep({"sent", "last"})
      BY <3>2, SenderKept
    <3> QED  BY <2>1, <3>1, <3>3, ScreenKept
  <2> QED  BY <2>3, <2>4
<1>2. CASE Req!Requested(c)
  BY <1>2, ScreenRepainted DEF Req!Requested
<1>3. CASE Req!AskReport(c)
  <2>1. PICK from \in Req!Stages \ {"sent", "last"} : from = "failed"
    OBVIOUS
  <2>2. Req!End(c, from) \/ \E to \in {"taking"} : tasks' = Req!Move(c, from, to)
    BY <1>3, <2>1 DEF Req!AskReport
  <2>3. Keep({"sent", "last"})
    BY <2>2, SenderKept
  <2> QED  BY <1>3, <2>3, ScreenKept DEF Req!AskReport, Req!screen
<1>4. CASE Req!SendReport(c)
  <2>1. Req!IsAt(c, "taken") /\ tasks' = Req!Move(c, "taken", "last") /\ UNCHANGED <<latch, due, frame, visible>>
    BY <1>4, Located DEF Req!SendReport
  <2>2. Req!IsAt(c, "last")'
    BY <2>1, Moved DEF FetchInv
  <2> QED  BY <2>1, <2>2, ScreenSent DEF Req!IsAt
<1>5. CASE Req!Finish(c)
  BY <1>5, ScreenRepainted DEF Req!Finish
<1> QED  BY <1>1, <1>2, <1>3, <1>4, <1>5 DEF Req!TaskStep

LEMMA CallScreen ==
  ASSUME Bounds, FetchInv, ScreenInv, Req!Call  PROVE ScreenInv'
<1> USE DEF Req!Stages
<1>1. PICK m \in Req!Command, ok \in {FALSE, Req!Works} : Req!Reply(m, ok) /\ OfTask(m)
  BY Replied
<1>2. PICK c : c = m.component
  OBVIOUS
<1>3. UNCHANGED Req!screen
  BY DEF Req!Call
<1>4. Keep({"sent", "last"})
  <2>1. CASE m.kind = "order"
    BY <1>1, <2>1 DEF Req!Reply, Req!fetches, Keep
  <2>2. CASE m.kind = "read"
    <3>1. PICK from \in Req!Stages \ {"sent", "last"} : from = "asked"
      OBVIOUS
    <3>2. \E to \in {"answered", "failed"} : tasks' = Req!Move(c, from, to)
      BY <1>1, <1>2, <2>2, <3>1 DEF Req!Reply
    <3> QED  BY <3>2, SenderKept
  <2>3. CASE m.kind = "take"
    <3>1. PICK from \in Req!Stages \ {"sent", "last"} : from = "taking"
      OBVIOUS
    <3>2. Req!End(c, from) \/ \E to \in {"taken"} : tasks' = Req!Move(c, from, to)
      BY <1>1, <1>2, <2>3, <3>1 DEF Req!Reply
    <3> QED  BY <3>2, SenderKept
  <2> QED  BY <2>1, <2>2, <2>3 DEF Req!Command
<1> QED  BY <1>3, <1>4, ScreenKept DEF Req!screen

LEMMA ScreenNext ==
  ASSUME Bounds, RequestInv, [Req!Next]_(Req!requestVars)  PROVE ScreenInv'
<1> USE DEF RequestInv
<1>1. CASE UNCHANGED <<tasks, updates, latch, due, frame, visible>>
  BY <1>1, ScreenKept DEF Keep
<1>2. ASSUME NEW c \in Fetched, Req!Tick(c)  PROVE ScreenInv'
  <2>1. tasks' = [tasks EXCEPT ![Req!At(c, "asked")] = @ + 1] /\ UNCHANGED Req!screen
    BY <1>2 DEF Req!Tick
  <2>2. ASSUME NEW d \in Fetched, NEW s \in {"sent", "last"}  PROVE tasks'[Req!At(d, s)] = tasks[Req!At(d, s)]
    <3>1. s \in Req!Stages /\ s # "asked"
      BY DEF Req!Stages
    <3>2. Req!At(d, s) \in Req!Task /\ Req!At(d, s) # Req!At(c, "asked") /\ tasks \in [Req!Task -> Nat]
      BY <3>1, TaskIs, AtDiffer DEF FetchInv
    <3> QED  BY <2>1, <3>2
  <2>3. Keep({"sent", "last"})
    BY <2>2 DEF Keep
  <2> QED  BY <2>1, <2>3, ScreenKept DEF Req!screen
<1>3. CASE Req!WorkerStep
  BY <1>1, <1>3, CallScreen DEF Req!WorkerStep, Req!Connect, Req!fetches, Req!screen
<1>4. CASE Req!FrameStep
  <2> USE DEF Req!fetches, ScreenInv, Req!ArrivalsAreDrawn
  <2>1. CASE Req!BeginFrame
    BY <2>1 DEF Req!BeginFrame, Req!ClearedAt
  <2>2. CASE Req!ReadUpdate
    BY <2>2 DEF Req!ReadUpdate
  <2>3. CASE Req!EndReading
    BY <2>3 DEF Req!EndReading
  <2>4. CASE Req!EndFrame
    BY <2>4 DEF Req!EndFrame, Req!ClearedAt
  <2> QED  BY <1>4, <2>1, <2>2, <2>3, <2>4 DEF Req!FrameStep
<1>5. CASE Req!Hide
  BY <1>5 DEF Req!Hide, Req!fetches, ScreenInv, Req!ArrivalsAreDrawn
<1>6. CASE Req!Order \/ Req!MakeReport \/ Req!Service \/ Req!Die \/ UNCHANGED Req!requestVars
  BY <1>1, <1>6 DEF Req!Order, Req!MakeReport, Req!Service, Req!Die, Req!requestVars, Req!fetches, Req!screen
<1> QED  BY <1>2, <1>3, <1>4, <1>5, <1>6, TaskScreen DEF Req!Next

-----------------------------------------------------------------------------
(* The rest, and the whole.                                                 *)

LEMMA TaskTypes ==
  ASSUME OtherTypes, NEW c \in Fetched, Req!TaskStep(c)  PROVE OtherTypes'
<1>1. UNCHANGED <<Req!orders, Req!link>>
  BY DEF Req!TaskStep, Req!Answered, Req!Requested, Req!AskReport, Req!SendReport, Req!Finish
<1> QED  BY <1>1 DEF Req!orders, Req!link, OtherTypes

LEMMA CallTypes ==
  ASSUME Bounds, FetchInv, OtherTypes, Req!Call  PROVE OtherTypes'
<1>1. PICK m \in Req!Command, ok \in {FALSE, Req!Works} : Req!Reply(m, ok) /\ OfTask(m)
  BY Replied
<1>2. UNCHANGED <<awaited, ordered>> /\ replies' \subseteq 1..MaxOrders
  <2>1. CASE m.kind = "order"
    <3>1. replies' = replies \cup ({m.order} \cap {awaited}) /\ UNCHANGED <<awaited, ordered>>
      BY <1>1, <2>1 DEF Req!Reply
    <3>2. m.order \in 1..MaxOrders
      BY <2>1 DEF Req!Command
    <3> QED  BY <3>1, <3>2 DEF OtherTypes
  <2>2. CASE m.kind \in {"read", "take"}
    <3>1. UNCHANGED Req!orders
      BY <1>1, <2>2 DEF Req!Reply
    <3> QED  BY <3>1 DEF Req!orders, OtherTypes
  <2> QED  BY <2>1, <2>2 DEF Req!Command
<1>3. UNCHANGED <<alive, service>> /\ worker' \in {"connecting", "ready"}
  BY DEF Req!Call, OtherTypes
<1>4. fails' \in 0..Limit
  <2>1. fails' \in {0, fails} \/ (fails < Limit /\ fails' = fails + 1)
    BY DEF Req!Call
  <2> QED  BY <2>1 DEF OtherTypes, Bounds
<1> QED  BY <1>2, <1>3, <1>4 DEF OtherTypes

LEMMA TypesNext ==
  ASSUME Bounds, RequestInv, [Req!Next]_(Req!requestVars)  PROVE OtherTypes'
<1> USE DEF RequestInv
<1>1. CASE UNCHANGED <<Req!orders, Req!link>>
  BY <1>1 DEF Req!orders, Req!link, OtherTypes
<1>2. CASE Req!Order
  BY <1>2 DEF Req!Order, Req!link, OtherTypes, Bounds
<1>3. CASE Req!EndFrame
  <2>1. UNCHANGED <<ordered, Req!link>>
    BY <1>3 DEF Req!EndFrame
  <2>2. awaited' \in {0, awaited} /\ replies' \in {{}, replies}
    BY <1>3 DEF Req!EndFrame
  <2>3. awaited' \in 0..MaxOrders
    BY <2>2 DEF OtherTypes, Bounds
  <2>4. replies' \subseteq 1..MaxOrders
    BY <2>2 DEF OtherTypes
  <2> QED  BY <2>1, <2>3, <2>4 DEF Req!link, OtherTypes
<1>4. CASE Req!Connect
  BY <1>4 DEF Req!Connect, Req!orders, OtherTypes, Bounds
<1>5. CASE Req!Service
  BY <1>5 DEF Req!Service, Req!orders, OtherTypes
<1>6. CASE Req!Die
  BY <1>6 DEF Req!Die, Req!orders, OtherTypes
<1>7. CASE Req!BeginFrame \/ Req!ReadUpdate \/ Req!EndReading \/ Req!Hide \/ Req!MakeReport \/ UNCHANGED Req!requestVars
  BY <1>1, <1>7 DEF Req!BeginFrame, Req!ReadUpdate, Req!EndReading, Req!Hide, Req!MakeReport, Req!requestVars
<1>8. ASSUME NEW c \in Fetched, Req!Tick(c)  PROVE OtherTypes'
  BY <1>1, <1>8 DEF Req!Tick
<1> QED  BY <1>2, <1>3, <1>4, <1>5, <1>6, <1>7, <1>8, TaskTypes, CallTypes DEF Req!Next, Req!WorkerStep, Req!FrameStep

LEMMA RequestInit ==
  ASSUME Bounds, Req!Init  PROVE RequestInv
<1>1. FetchInv
  <2>1. tasks \in [Req!Task -> Nat] /\ \A t \in Req!Task : tasks[t] = 0
    BY DEF Req!Init
  <2>2. active = {} /\ queue = <<>>
    BY DEF Req!Init
  <2>3. queue \in Seq(Req!Command) /\ CommandsOfTasks /\ DOMAIN queue = {}
    BY <2>2 DEF CommandsOfTasks
  <2>4. Req!OneFetchEach
    BY <2>1, <2>2, <2>3, TaskIs DEF Req!OneFetchEach
  <2> QED  BY <2>1, <2>2, <2>3, <2>4 DEF FetchInv
<1>2. ReportInv
  BY DEF Req!Init, Bounds, ReportInv, Req!TakenReportKept
<1>3. ScreenInv
  BY DEF Req!Init, ScreenInv, Req!ArrivalsAreDrawn
<1>4. OtherTypes
  BY DEF Req!Init, OtherTypes, Bounds
<1> QED  BY <1>1, <1>2, <1>3, <1>4 DEF RequestInv

LEMMA RequestsAgree ==
  ASSUME Bounds, RequestInv  PROVE Req!ReportsShown
<1>1. held \in 0..MaxReports
  BY DEF RequestInv, ReportInv, Bounds
<1>2. Req!TypeOK
  BY <1>1 DEF RequestInv, FetchInv, ReportInv, ScreenInv, OtherTypes, Req!TypeOK
<1> QED  BY <1>2 DEF RequestInv, FetchInv, ReportInv, ScreenInv, Req!ReportsShown

\* However long the window is hidden and whatever fails, a component has one
\* request under way, a report that the daemon has handed out reaches the screen
\* or is on its way there, and what has arrived has a frame requested.
THEOREM ReportsReachTheScreen ==
  ASSUME Bounds
  PROVE  Req!Spec => []ReportsShown
<1>1. Req!Init => RequestInv
  BY RequestInit
<1>2. RequestInv /\ [Req!Next]_(Req!requestVars) => RequestInv'
  BY FetchNext, ReportNext, ScreenNext, TypesNext DEF RequestInv
<1>3. RequestInv => ReportsShown
  BY RequestsAgree DEF ReportsShown
<1> QED  BY <1>1, <1>2, <1>3, PTL DEF Req!Spec

-----------------------------------------------------------------------------
(* Which components the coordinator ticks.                                  *)

\* The rows need registered components, never the log ring; no component is called "all".
RowBounds ==
  /\ Registry \in Seq(Poll!Components) /\ "all" \notin Poll!Components /\ FrameFresh \in Nat
  /\ \A r \in RowNeeds : r \subseteq Poll!Components \ {"logs"}

Sent == [type : {"Register", "SetPollSet", "ClearPollSet"}, set : SUBSET Poll!Components]
Registers(m) == m.type = "Register"

\* What was sent last is what the last frame needs.
SentIsNeeded == lastPollSet = IF drawn = {"all"} THEN {} ELSE drawn

\* The registrations come first, and find nothing paused.
RegistersFirst ==
  /\ \A i \in 1..Len(commands) : i > 1 /\ Registers(commands[i]) => Registers(commands[i - 1])
  /\ commands # <<>> /\ Registers(commands[1]) => paused = {}

PausedFor(set) == IF set = {} THEN {} ELSE registered \ set

\* The last command is that of the set sent last; behind it, the coordinator has followed.
LastIsSent ==
  IF commands = <<>> THEN paused = PausedFor(lastPollSet)
  ELSE LET m == commands[Len(commands)]
       IN  IF Registers(m) THEN lastPollSet = {} ELSE m = Poll!PollSetCommand(lastPollSet)

PollInv == Poll!TypeOK /\ SentIsNeeded /\ RegistersFirst /\ LastIsSent

LEMMA PollInit ==
  ASSUME RowBounds, Poll!Init  PROVE PollInv
<1>1. /\ commands \in Seq(Sent) /\ Len(commands) = Len(Registry)
      /\ \A i \in 1..Len(commands) : Registers(commands[i])
  <2>1. \A i \in 1..Len(Registry) : Poll!Register(Registry[i]) \in Sent
    <3>1. \A i \in 1..Len(Registry) : Registry[i] \in Poll!Components
      BY DEF RowBounds
    <3> QED  BY <3>1 DEF Poll!Register, Sent
  <2>2. commands = [i \in 1..Len(Registry) |-> Poll!Register(Registry[i])] /\ Len(Registry) \in Nat
    BY DEF Poll!Init, Poll!Registrations, RowBounds
  <2>3. commands \in Seq(Sent) /\ Len(commands) = Len(Registry)
    BY <2>1, <2>2
  <2> QED  BY <2>2, <2>3 DEF Poll!Register, Registers
<1>2. Poll!TypeOK
  <2>1. stamp \in [logs : BOOLEAN, age : 0..FrameFresh+1]
    BY DEF Poll!Init, RowBounds
  <2> QED  BY <1>1, <2>1 DEF Poll!Init, Poll!TypeOK, Sent
<1>3. SentIsNeeded /\ RegistersFirst
  BY <1>1 DEF Poll!Init, SentIsNeeded, RegistersFirst
<1>4. LastIsSent
  <2>1. commands # <<>> => Len(commands) \in 1..Len(commands)
    BY <1>1
  <2> QED  BY <1>1, <2>1 DEF Poll!Init, LastIsSent, PausedFor
<1> QED  BY <1>2, <1>3, <1>4 DEF PollInv

LEMMA ReceivePoll ==
  ASSUME RowBounds, PollInv, Poll!Receive  PROVE PollInv'
<1> DEFINE m == Head(commands)
<1>1. /\ commands \in Seq(Sent) /\ commands # <<>> /\ commands' = Tail(commands)
      /\ paused' = Poll!Paused(m) /\ UNCHANGED <<panel, needs, lastPollSet, drawn, logsTab, stamp>>
      /\ registered' = registered \cup (IF Registers(m) THEN m.set ELSE {})
  BY DEF Poll!Receive, PollInv, Poll!TypeOK, Sent, Registers
<1>2. /\ m \in Sent /\ m = commands[1] /\ Len(commands) \in Nat /\ Len(commands) >= 1
      /\ commands' \in Seq(Sent) /\ Len(commands') = Len(commands) - 1
      /\ \A i \in 1..Len(commands') : i + 1 \in 1..Len(commands) /\ commands'[i] = commands[i + 1]
  BY <1>1
<1>3. /\ m.type \in {"Register", "SetPollSet", "ClearPollSet"} /\ m.set \subseteq Poll!Components
      /\ paused \subseteq registered /\ registered \subseteq Poll!Components
  BY <1>2 DEF Sent, PollInv, Poll!TypeOK
<1> HIDE DEF m
<1>4. paused' \subseteq registered' /\ registered' \subseteq Poll!Components
  BY <1>1, <1>3 DEF Poll!Paused, Registers
<1>5. Poll!TypeOK'
  BY <1>1, <1>2, <1>4 DEF PollInv, Poll!TypeOK, Sent
<1>6. SentIsNeeded'
  BY <1>1 DEF PollInv, SentIsNeeded
<1>7. \A i \in 1..Len(commands') : i > 1 /\ Registers(commands'[i]) => Registers(commands'[i - 1])
  <2>1. ASSUME NEW i \in 1..Len(commands'), i > 1, Registers(commands'[i])
        PROVE  Registers(commands'[i - 1])
    <3>1. i + 1 \in 1..Len(commands) /\ commands'[i] = commands[i + 1] /\ i - 1 \in 1..Len(commands')
      BY <1>2, <2>1
    <3>2. commands'[i - 1] = commands[i] /\ (i + 1) - 1 = i
      BY <1>2, <3>1
    <3> QED  BY <2>1, <3>1, <3>2 DEF PollInv, RegistersFirst
  <2> QED  BY <2>1
<1>8. ASSUME commands' # <<>>, Registers(commands'[1])  PROVE paused' = {}
  <2>1. 1 \in 1..Len(commands')
    BY <1>2, <1>8
  <2>2. 2 \in 1..Len(commands) /\ commands'[1] = commands[2] /\ 2 - 1 = 1
    BY <1>2, <2>1
  <2>3. Registers(commands[1])
    BY <1>8, <2>2 DEF PollInv, RegistersFirst
  <2>4. paused = {}
    BY <1>1, <2>3 DEF PollInv, RegistersFirst
  <2> QED  BY <1>1, <1>2, <2>3, <2>4 DEF Registers, Poll!Paused
<1>9. CASE commands' = <<>>
  <2>1. Len(commands) = 1 /\ commands[Len(commands)] = m
    <3>1. Len(commands') = 0
      BY <1>9
    <3>2. Len(commands) = 1
      BY <1>2, <3>1
    <3> QED  BY <1>2, <3>2
  <2>2. CASE Registers(m)
    <3>1. lastPollSet = {} /\ paused = {}
      BY <1>1, <1>2, <2>1, <2>2 DEF PollInv, LastIsSent, RegistersFirst
    <3> QED  BY <1>1, <1>7, <1>8, <1>5, <1>6, <1>9, <2>2, <3>1
             DEF PollInv, LastIsSent, RegistersFirst, Poll!Paused, PausedFor, Registers
  <2>3. CASE ~Registers(m)
    <3>1. m = Poll!PollSetCommand(lastPollSet)
      BY <1>1, <2>1, <2>3 DEF PollInv, LastIsSent
    <3>2. paused' = PausedFor(lastPollSet) /\ registered' = registered
      BY <1>1, <2>3, <3>1 DEF Poll!PollSetCommand, Poll!Paused, PausedFor
    <3> QED  BY <1>1, <1>5, <1>6, <1>7, <1>8, <1>9, <3>2
             DEF PollInv, LastIsSent, RegistersFirst, PausedFor
  <2> QED  BY <2>2, <2>3
<1>10. CASE commands' # <<>>
  <2>1. Len(commands') \in 1..Len(commands') /\ commands'[Len(commands')] = commands[Len(commands)]
    BY <1>2, <1>10
  <2>2. LastIsSent'
    BY <1>1, <1>10, <2>1 DEF PollInv, LastIsSent
  <2> QED  BY <1>5, <1>6, <1>7, <1>8, <2>2 DEF PollInv, RegistersFirst
<1> QED  BY <1>9, <1>10

LEMMA FramePoll ==
  ASSUME RowBounds, PollInv, Poll!Frame  PROVE PollInv'
<1> DEFINE wanted == IF panel THEN needs ELSE {}
<1>1. /\ UNCHANGED <<panel, needs, registered, paused, logsTab>>
      /\ drawn' = (IF panel THEN needs ELSE {"all"}) /\ stamp' = [logs |-> logsTab, age |-> 0]
      /\ needs \in RowNeeds /\ needs \subseteq Poll!Components /\ needs # {"all"} /\ wanted \subseteq Poll!Components
  BY DEF Poll!Frame, PollInv, Poll!TypeOK, RowBounds
<1>2. drawn' \in RowNeeds \cup {{"all"}} /\ stamp' \in [logs : BOOLEAN, age : 0..FrameFresh+1]
  BY <1>1 DEF PollInv, Poll!TypeOK, RowBounds
<1>3. \/ wanted = lastPollSet /\ UNCHANGED <<lastPollSet, commands>>
      \/ lastPollSet' = wanted /\ commands' = Append(commands, Poll!PollSetCommand(wanted))
  BY DEF Poll!Frame
<1>4. lastPollSet' = wanted
  BY <1>3
<1>5. SentIsNeeded'
  BY <1>1, <1>4 DEF SentIsNeeded
<1> HIDE DEF wanted
<1>6. CASE UNCHANGED <<lastPollSet, commands>>
  <2>1. Poll!TypeOK' /\ RegistersFirst' /\ LastIsSent'
    BY <1>1, <1>2, <1>6 DEF PollInv, Poll!TypeOK, RegistersFirst, LastIsSent, PausedFor
  <2> QED  BY <1>5, <2>1 DEF PollInv
<1>7. CASE commands' = Append(commands, Poll!PollSetCommand(wanted))
  <2>1. Poll!PollSetCommand(wanted) \in Sent /\ ~Registers(Poll!PollSetCommand(wanted))
    BY <1>1 DEF Poll!PollSetCommand, Sent, Registers
  <2>2. commands \in Seq(Sent)
    BY DEF PollInv, Poll!TypeOK, Sent
  <2>3. /\ commands' \in Seq(Sent) /\ Len(commands) \in Nat /\ Len(commands') = Len(commands) + 1
        /\ commands'[Len(commands')] = Poll!PollSetCommand(wanted) /\ commands' # <<>>
        /\ \A i \in 1..Len(commands) : commands'[i] = commands[i]
    BY <1>7, <2>1, <2>2
  <2>4. Poll!TypeOK'
    BY <1>1, <1>2, <1>4, <2>3 DEF PollInv, Poll!TypeOK, Sent
  <2>5. LastIsSent'
    BY <1>4, <2>1, <2>3 DEF LastIsSent
  <2>6. ASSUME NEW i \in 1..Len(commands'), i > 1, Registers(commands'[i])
        PROVE  Registers(commands'[i - 1])
    <3>1. i \in 1..Len(commands) /\ i - 1 \in 1..Len(commands)
      BY <2>1, <2>3, <2>6
    <3> QED  BY <2>3, <2>6, <3>1 DEF PollInv, RegistersFirst
  <2>7. Registers(commands'[1]) => paused' = {}
    <3>1. CASE commands = <<>>
      BY <2>1, <2>3, <3>1
    <3>2. CASE commands # <<>>
      <4>1. 1 \in 1..Len(commands)
        BY <2>2, <3>2
      <4> QED  BY <1>1, <2>3, <3>2, <4>1 DEF PollInv, RegistersFirst
    <3> QED  BY <3>1, <3>2
  <2> QED  BY <1>5, <2>4, <2>5, <2>6, <2>7 DEF PollInv, RegistersFirst
<1> QED  BY <1>3, <1>6, <1>7

LEMMA PollNext ==
  ASSUME RowBounds, PollInv, [Poll!Next]_(Poll!pollSetVars)  PROVE PollInv'
<1>1. CASE Poll!Change \/ Poll!Tick \/ UNCHANGED Poll!pollSetVars
  <2>1. UNCHANGED <<lastPollSet, commands, registered, paused, drawn>>
    BY <1>1 DEF Poll!Change, Poll!Tick, Poll!pollSetVars
  <2>2. panel' \in BOOLEAN /\ needs' \in RowNeeds /\ logsTab' \in BOOLEAN
    BY <1>1 DEF Poll!Change, Poll!Tick, Poll!pollSetVars, PollInv, Poll!TypeOK
  <2>3. stamp' \in [logs : BOOLEAN, age : 0..FrameFresh+1]
    BY <1>1 DEF Poll!Change, Poll!Tick, Poll!pollSetVars, PollInv, Poll!TypeOK, RowBounds
  <2>4. Poll!TypeOK'
    BY <2>1, <2>2, <2>3 DEF PollInv, Poll!TypeOK
  <2> QED
    BY <2>1, <2>4 DEF PollInv, SentIsNeeded, RegistersFirst, LastIsSent, PausedFor
<1> QED  BY <1>1, ReceivePoll, FramePoll DEF Poll!Next

LEMMA PollGives ==
  ASSUME RowBounds, PollInv  PROVE Poll!SurfaceIsPolled /\ Poll!LogsOnlyWhenSeen /\ Poll!TypeOK
<1>1. ASSUME commands = <<>>
      PROVE  /\ drawn = {"all"} => Poll!Ticked = registered
             /\ drawn \notin {{}, {"all"}} => Poll!Ticked = drawn \cap registered
  BY <1>1 DEF PollInv, LastIsSent, PausedFor, SentIsNeeded, Poll!Ticked
<1>2. Poll!LogsOnlyWhenSeen
  <2>1. drawn \notin {{}, {"all"}} => "logs" \notin drawn
    BY DEF PollInv, Poll!TypeOK, RowBounds
  <2> QED  BY <1>1, <2>1 DEF Poll!LogsOnlyWhenSeen, Poll!FetchLogs
<1> QED  BY <1>1, <1>2 DEF Poll!SurfaceIsPolled, PollInv

\* However often the user goes between the window, the panel and its rows, and however late
\* the coordinator reads what it was sent: once it has, it ticks all that the last frame needs,
\* and the log ring is asked for only by a window that is painted.
THEOREM PollSetFollows ==
  ASSUME RowBounds  PROVE Poll!Spec => []SurfaceIsPolled
<1>1. Poll!Init => PollInv
  BY PollInit
<1>2. PollInv /\ [Poll!Next]_(Poll!pollSetVars) => PollInv'
  BY PollNext
<1>3. PollInv => SurfaceIsPolled
  BY PollGives DEF SurfaceIsPolled
<1> QED  BY <1>1, <1>2, <1>3, PTL DEF Poll!Spec

-----------------------------------------------------------------------------
(* The gamepads.  The lists are built in folds: what each of them has turn   *)
(* by turn comes first.                                                     *)

\* get_gamepad_info goes pad by pad.
AddTurns(h, n, s, p) == h[0] = <<>> /\ \A i \in 1..n : h[i] = Pad!Add(h[i-1], s[i], p)

LEMMA AddedInTurn ==
  ASSUME NEW X, <<>> \in X, NEW n \in Nat, NEW s, DOMAIN s = 1..n, NEW p,
         \A acc \in X, i \in 1..n : Pad!Add(acc, s[i], p) \in X
  PROVE  \E h : AddTurns(h, n, s, p) /\ Pad!Listed(s, p) = h[n]
<1> DEFINE Step(f, r) == IF r = {} THEN <<>> ELSE Pad!Add(f[r \ {Greatest(r)}], s[Greatest(r)], p)
<1>1. PICK D : D = [z \in X \X (1..n) |-> Pad!Add(z[1], s[z[2]], p)]
  OBVIOUS
<1>2. D \in [X \X (1..n) -> X] /\ \A x \in X, i \in 1..n : D[<<x, i>>] = Pad!Add(x, s[i], p)
  BY <1>1
<1>3. PICK g \in [SUBSET (1..n) -> X] : FoldsTo(g, n, <<>>, D)
  BY <1>2, FoldExists
<1>4. g = [r \in SUBSET (1..n) |-> Step(g, r)]
  <2>1. ASSUME NEW r \in SUBSET (1..n), r # {}  PROVE g[r] = Step(g, r)
    <3>1. Greatest(r) \in r /\ r \ {Greatest(r)} \in SUBSET (1..n) /\ Greatest(r) \in 1..n
      BY <2>1, MaxIn
    <3> QED  BY <3>1, <2>1, <1>2, <1>3 DEF FoldsTo
  <2>2. g[{}] = <<>>
    BY <1>3 DEF FoldsTo
  <2> QED  BY <2>1, <2>2, <1>3, Zenon
<1>5. Pad!Listed(s, p)
        = (CHOOSE f : f = [r \in SUBSET (1..n) |-> Step(f, r)])[1..n]
  BY Zenon DEF Pad!Listed, Pad!FoldLeft, Pad!MapThenFoldSet, Pad!Max, Greatest
<1>6. PICK f : f = CHOOSE e : e = [r \in SUBSET (1..n) |-> Step(e, r)]
  OBVIOUS
<1>7. f = [r \in SUBSET (1..n) |-> Step(f, r)]
  BY <1>4, <1>6, Zenon
<1>8. Pad!Listed(s, p) = f[1..n]
  BY <1>5, <1>6, Zenon
<1>9. ASSUME NEW i \in 1..n  PROVE f[1..i] = Pad!Add(f[1..(i-1)], s[i], p)
  <2>1. PICK r : r = 1..i
    OBVIOUS
  <2>2. r \in SUBSET (1..n) /\ r # {} /\ Greatest(r) = i /\ r \ {i} = 1..(i-1)
    BY <2>1, UpTo
  <2>3. f[r] = Pad!Add(f[r \ {Greatest(r)}], s[Greatest(r)], p)
    BY <1>7, <2>2
  <2> QED  BY <2>1, <2>2, <2>3
<1>10. f[1..0] = <<>>
  <2>1. 1..0 = {}
    OBVIOUS
  <2> QED  BY <1>7, <2>1
<1>11. PICK h : h = [i \in 0..n |-> f[1..i]]
  OBVIOUS
<1>12. h[0] = <<>> /\ h[n] = f[1..n] /\ \A i \in 1..n : h[i] = Pad!Add(h[i-1], s[i], p)
  BY <1>9, <1>10, <1>11
<1>13. AddTurns(h, n, s, p)
  BY <1>12 DEF AddTurns
<1> QED  BY <1>8, <1>12, <1>13, Zenon

\* retain_mut goes row by row.
RetainTurns(h, n, s, q) == h[0] = <<>> /\ \A i \in 1..n : h[i] = Pad!Retain(h[i-1], s[i], q)

LEMMA RetainedInTurn ==
  ASSUME NEW X, <<>> \in X, NEW n \in Nat, NEW s, DOMAIN s = 1..n, NEW q,
         \A acc \in X, i \in 1..n : Pad!Retain(acc, s[i], q) \in X
  PROVE  \E h : RetainTurns(h, n, s, q) /\ Pad!Retained(s, q) = h[n]
<1> DEFINE Step(f, r) == IF r = {} THEN <<>> ELSE Pad!Retain(f[r \ {Greatest(r)}], s[Greatest(r)], q)
<1>1. PICK D : D = [z \in X \X (1..n) |-> Pad!Retain(z[1], s[z[2]], q)]
  OBVIOUS
<1>2. D \in [X \X (1..n) -> X] /\ \A x \in X, i \in 1..n : D[<<x, i>>] = Pad!Retain(x, s[i], q)
  BY <1>1
<1>3. PICK g \in [SUBSET (1..n) -> X] : FoldsTo(g, n, <<>>, D)
  BY <1>2, FoldExists
<1>4. g = [r \in SUBSET (1..n) |-> Step(g, r)]
  <2>1. ASSUME NEW r \in SUBSET (1..n), r # {}  PROVE g[r] = Step(g, r)
    <3>1. Greatest(r) \in r /\ r \ {Greatest(r)} \in SUBSET (1..n) /\ Greatest(r) \in 1..n
      BY <2>1, MaxIn
    <3> QED  BY <3>1, <2>1, <1>2, <1>3 DEF FoldsTo
  <2>2. g[{}] = <<>>
    BY <1>3 DEF FoldsTo
  <2> QED  BY <2>1, <2>2, <1>3, Zenon
<1>5. Pad!Retained(s, q)
        = (CHOOSE f : f = [r \in SUBSET (1..n) |-> Step(f, r)])[1..n]
  BY Zenon DEF Pad!Retained, Pad!FoldLeft, Pad!MapThenFoldSet, Pad!Max, Greatest
<1>6. PICK f : f = CHOOSE e : e = [r \in SUBSET (1..n) |-> Step(e, r)]
  OBVIOUS
<1>7. f = [r \in SUBSET (1..n) |-> Step(f, r)]
  BY <1>4, <1>6, Zenon
<1>8. Pad!Retained(s, q) = f[1..n]
  BY <1>5, <1>6, Zenon
<1>9. ASSUME NEW i \in 1..n  PROVE f[1..i] = Pad!Retain(f[1..(i-1)], s[i], q)
  <2>1. PICK r : r = 1..i
    OBVIOUS
  <2>2. r \in SUBSET (1..n) /\ r # {} /\ Greatest(r) = i /\ r \ {i} = 1..(i-1)
    BY <2>1, UpTo
  <2>3. f[r] = Pad!Retain(f[r \ {Greatest(r)}], s[Greatest(r)], q)
    BY <1>7, <2>2
  <2> QED  BY <2>1, <2>2, <2>3
<1>10. f[1..0] = <<>>
  <2>1. 1..0 = {}
    OBVIOUS
  <2> QED  BY <1>7, <2>1
<1>11. PICK h : h = [i \in 0..n |-> f[1..i]]
  OBVIOUS
<1>12. h[0] = <<>> /\ h[n] = f[1..n] /\ \A i \in 1..n : h[i] = Pad!Retain(h[i-1], s[i], q)
  BY <1>9, <1>10, <1>11
<1>13. RetainTurns(h, n, s, q)
  BY <1>12 DEF RetainTurns
<1> QED  BY <1>8, <1>12, <1>13, Zenon

\* The last loop of reconcile goes pad by pad.
AdoptTurns(h, b, n, s) == h[0] = b /\ \A i \in 1..n : h[i] = Pad!Adopted(h[i-1], s[i])

LEMMA AdoptedInTurn ==
  ASSUME NEW X, NEW b \in X, NEW n \in Nat, NEW s, DOMAIN s = 1..n,
         \A acc \in X, i \in 1..n : Pad!Adopted(acc, s[i]) \in X
  PROVE  \E h : AdoptTurns(h, b, n, s) /\ Pad!AllAdopted(b, s) = h[n]
<1> DEFINE Step(f, r) == IF r = {} THEN b ELSE Pad!Adopted(f[r \ {Greatest(r)}], s[Greatest(r)])
<1>1. PICK D : D = [z \in X \X (1..n) |-> Pad!Adopted(z[1], s[z[2]])]
  OBVIOUS
<1>2. D \in [X \X (1..n) -> X] /\ \A x \in X, i \in 1..n : D[<<x, i>>] = Pad!Adopted(x, s[i])
  BY <1>1
<1>3. PICK g \in [SUBSET (1..n) -> X] : FoldsTo(g, n, b, D)
  BY <1>2, FoldExists
<1>4. g = [r \in SUBSET (1..n) |-> Step(g, r)]
  <2>1. ASSUME NEW r \in SUBSET (1..n), r # {}  PROVE g[r] = Step(g, r)
    <3>1. Greatest(r) \in r /\ r \ {Greatest(r)} \in SUBSET (1..n) /\ Greatest(r) \in 1..n
      BY <2>1, MaxIn
    <3> QED  BY <3>1, <2>1, <1>2, <1>3 DEF FoldsTo
  <2>2. g[{}] = b
    BY <1>3 DEF FoldsTo
  <2> QED  BY <2>1, <2>2, <1>3, Zenon
<1>5. Pad!AllAdopted(b, s)
        = (CHOOSE f : f = [r \in SUBSET (1..n) |-> Step(f, r)])[1..n]
  BY Zenon DEF Pad!AllAdopted, Pad!FoldLeft, Pad!MapThenFoldSet, Pad!Max, Greatest
<1>6. PICK f : f = CHOOSE e : e = [r \in SUBSET (1..n) |-> Step(e, r)]
  OBVIOUS
<1>7. f = [r \in SUBSET (1..n) |-> Step(f, r)]
  BY <1>4, <1>6, Zenon
<1>8. Pad!AllAdopted(b, s) = f[1..n]
  BY <1>5, <1>6, Zenon
<1>9. ASSUME NEW i \in 1..n  PROVE f[1..i] = Pad!Adopted(f[1..(i-1)], s[i])
  <2>1. PICK r : r = 1..i
    OBVIOUS
  <2>2. r \in SUBSET (1..n) /\ r # {} /\ Greatest(r) = i /\ r \ {i} = 1..(i-1)
    BY <2>1, UpTo
  <2>3. f[r] = Pad!Adopted(f[r \ {Greatest(r)}], s[Greatest(r)])
    BY <1>7, <2>2
  <2> QED  BY <2>1, <2>2, <2>3
<1>10. f[1..0] = b
  <2>1. 1..0 = {}
    OBVIOUS
  <2> QED  BY <1>7, <2>1
<1>11. PICK h : h = [i \in 0..n |-> f[1..i]]
  OBVIOUS
<1>12. h[0] = b /\ h[n] = f[1..n] /\ \A i \in 1..n : h[i] = Pad!Adopted(h[i-1], s[i])
  BY <1>9, <1>10, <1>11
<1>13. AdoptTurns(h, b, n, s)
  BY <1>12 DEF AdoptTurns
<1> QED  BY <1>8, <1>12, <1>13, Zenon

\* Pads are finitely many, and each has one of the four identities.
PadBounds ==
  /\ IsFiniteSet(Pads) /\ MaxNodes \in Nat
  /\ Identities \subseteq [Pads -> {"mac", "serial", "model", "none"}]

Items == [uid : Pad!Uids, wire : Pad!Wires]
RowType == [uid : Pad!Uids, wire : Pad!Wires, on : BOOLEAN]

\* No identity twice.
Once(s) == \A i, j \in 1..Len(s) : s[i].uid = s[j].uid => i = j

\* Rows of which none is shown as connected, or of a session, that is not listed.
RealRows(seen) ==
  {a \in Seq(RowType) :
     Once(a) /\ \A i \in 1..Len(a) : a[i].on \/ a[i].uid \in Pad!Volatile
                                       => \E j \in DOMAIN seen : seen[j].uid = a[i].uid}

PadsInv == Pad!TypeOK /\ remembered \in RealRows(listed)

\* What get_gamepad_info lists has each identity once.
LEMMA ListedOnce ==
  ASSUME PadBounds, Pad!TypeOK, NEW published, NEW order \in Pad!SetToSeqs(Pad!Connected)
  PROVE  Pad!Listed(order, published) \in Seq(Items) /\ Once(Pad!Listed(order, published))
<1> DEFINE X == {a \in Seq(Items) : Once(a)}
<1>1. PICK n : n = Cardinality(Pad!Connected)
  OBVIOUS
<1>2. n \in Nat
  BY <1>1, FS_Subset, FS_CardinalityType DEF PadBounds, Pad!Connected
<1>3. DOMAIN order = 1..n /\ \A i \in 1..n : order[i] \in Pads /\ node[order[i]] \in 1..MaxNodes
  <2>1. Pad!Cardinality(Pad!Connected) = n
    BY <1>1 DEF Pad!Cardinality, Cardinality
  <2>2. order \in [1..n -> Pad!Connected]
    BY <2>1, Zenon DEF Pad!SetToSeqs
  <2>3. \A p \in Pad!Connected : p \in Pads /\ node[p] \in 1..MaxNodes
    BY DEF Pad!Connected, Pad!TypeOK, PadBounds
  <2> QED  BY <2>2, <2>3
<1>4. <<>> \in X
  BY DEF Once
<1>5. ASSUME NEW a \in X, NEW i \in 1..n  PROVE Pad!Add(a, order[i], published) \in X
  <2>1. PICK u : u = Pad!Uid(order[i], published)
    OBVIOUS
  <2>2. u \in Pad!Uids
    BY <1>3, <2>1 DEF Pad!Uid, Pad!Uids, Pad!Stable, Pad!Volatile
  <2>3. CASE \E j \in DOMAIN a : a[j].uid = u
    BY <2>1, <2>3 DEF Pad!Add
  <2>4. CASE ~\E j \in DOMAIN a : a[j].uid = u
    <3>1. PICK c : c = [uid |-> u, wire |-> wire[order[i]]]
      OBVIOUS
    <3>2. c \in Items /\ c.uid = u
      BY <1>3, <2>2, <3>1 DEF Items, Pad!TypeOK
    <3>3. Pad!Add(a, order[i], published) = Append(a, c)
      BY <2>1, <2>4, <3>1 DEF Pad!Add
    <3>4. Append(a, c) \in Seq(Items) /\ Len(Append(a, c)) = Len(a) + 1 /\ DOMAIN a = 1..Len(a)
          /\ Append(a, c)[Len(a) + 1] = c /\ \A j \in 1..Len(a) : Append(a, c)[j] = a[j]
      BY <3>2, AppendProperties, LenProperties
    <3>5. Once(Append(a, c))
      BY <2>4, <3>2, <3>4 DEF Once
    <3> QED  BY <3>3, <3>4, <3>5
  <2> QED  BY <2>3, <2>4
<1>6. PICK h : AddTurns(h, n, order, published) /\ Pad!Listed(order, published) = h[n]
  <2> HIDE DEF X
  <2>1. DOMAIN order = 1..n /\ \A a \in X, i \in 1..n : Pad!Add(a, order[i], published) \in X
    BY <1>3, <1>5
  <2> QED  BY <1>2, <1>4, <2>1, AddedInTurn
<1>7. h[n] \in X
  <2> HIDE DEF X
  <2>1. h[0] \in X /\ \A i \in 1..n : h[i-1] \in X => h[i] \in X
    BY <1>4, <1>5, <1>6 DEF AddTurns
  <2> QED  BY <1>2, <2>1, InTurn
<1> QED  BY <1>6, <1>7

\* What is left of the rows is real.
LEMMA RetainedReal ==
  ASSUME NEW seen \in Seq(Items), NEW u \in Seq(RowType), Once(u),
         \A i \in 1..Len(u) : u[i].on => \E j \in DOMAIN seen : seen[j].uid = u[i].uid
  PROVE  Pad!Retained(u, seen) \in RealRows(seen)
<1>1. PICK n : n = Len(u)
  OBVIOUS
<1>2. n \in Nat /\ DOMAIN u = 1..n /\ \A i \in 1..n : u[i] \in RowType
  BY <1>1, LenProperties, ElementOfSeq
<1>3. <<>> \in Seq(RowType)
  OBVIOUS
<1>4. \A a \in Seq(RowType), i \in 1..n : Pad!Retain(a, u[i], seen) \in Seq(RowType)
  BY <1>2, AppendProperties DEF Pad!Retain
<1>5. PICK h : RetainTurns(h, n, u, seen) /\ Pad!Retained(u, seen) = h[n]
  <2>1. PICK X : X = Seq(RowType)
    OBVIOUS
  <2>2. <<>> \in X /\ DOMAIN u = 1..n /\ \A a \in X, i \in 1..n : Pad!Retain(a, u[i], seen) \in X
    BY <1>2, <1>3, <1>4, <2>1
  <2> QED  BY <1>2, <2>2, RetainedInTurn
<1> DEFINE FromRows(a, i) ==
             /\ a \in Seq(RowType) /\ Once(a)
             /\ \A k \in 1..Len(a) : \E j \in 1..i : a[k] = u[j] /\ Pad!Kept(u[j], seen)
           U == {i \in 0..n : FromRows(h[i], i)}
<1>6. FromRows(h[0], 0)
  <2>1. FromRows(<<>>, 0)
    BY <1>3 DEF Once
  <2> QED  BY <1>5, <2>1 DEF RetainTurns
<1>7. ASSUME NEW i \in 1..n, FromRows(h[i-1], i-1)  PROVE FromRows(h[i], i)
  <2>1. PICK a : a = h[i-1]
    OBVIOUS
  <2>2. FromRows(a, i-1)
    BY <1>7, <2>1
  <2>0. h[i] = Pad!Retain(a, u[i], seen)
    BY <1>5, <2>1 DEF RetainTurns
  <2>3. CASE ~Pad!Kept(u[i], seen)
    <3>1. h[i] = a
      BY <2>0, <2>3 DEF Pad!Retain
    <3>2. \A j \in 1..(i-1) : j \in 1..i
      OBVIOUS
    <3> QED  BY <2>2, <3>1, <3>2
  <2>4. CASE Pad!Kept(u[i], seen)
    <3>1. PICK b : b = Append(a, u[i])
      OBVIOUS
    <3>2. h[i] = b
      BY <2>0, <2>4, <3>1 DEF Pad!Retain
    <3>3. /\ b \in Seq(RowType) /\ Len(b) = Len(a) + 1 /\ Len(a) \in Nat
          /\ b[Len(a) + 1] = u[i] /\ \A j \in 1..Len(a) : b[j] = a[j]
      BY <1>2, <2>2, <3>1, AppendProperties, LenProperties
    <3>4. ASSUME NEW k \in 1..Len(b)  PROVE \E j \in 1..i : b[k] = u[j] /\ Pad!Kept(u[j], seen)
      <4>1. CASE k \in 1..Len(a)
        <5>1. PICK j \in 1..(i-1) : a[k] = u[j] /\ Pad!Kept(u[j], seen)
          BY <2>2, <4>1
        <5>2. j \in 1..i /\ b[k] = a[k]
          BY <3>3, <4>1
        <5> QED  BY <5>1, <5>2
      <4>2. CASE k = Len(a) + 1
        <5>1. i \in 1..i
          BY <1>2
        <5> QED  BY <2>4, <3>3, <4>2, <5>1
      <4>3. k \in 1..Len(a) \/ k = Len(a) + 1
        BY <3>3
      <4> QED  BY <4>1, <4>2, <4>3
    <3>5. \A k \in 1..Len(a) : a[k].uid # u[i].uid
      <4>1. ASSUME NEW k \in 1..Len(a), a[k].uid = u[i].uid  PROVE FALSE
        <5>1. PICK j \in 1..(i-1) : a[k] = u[j]
          BY <2>2
        <5>2. j \in 1..n /\ j # i
          BY <1>2
        <5> QED  BY <1>1, <4>1, <5>1, <5>2 DEF Once
      <4> QED  BY <4>1
    <3>6. Once(b)
      <4>1. ASSUME NEW k \in 1..Len(b), NEW l \in 1..Len(b), k < l  PROVE b[k].uid # b[l].uid
        <5>1. k \in 1..Len(a) /\ b[k] = a[k]
          BY <3>3, <4>1
        <5>2. CASE l = Len(a) + 1
          BY <3>3, <3>5, <5>1, <5>2
        <5>3. CASE l # Len(a) + 1
          <6>1. l \in 1..Len(a) /\ b[l] = a[l]
            BY <3>3, <5>3
          <6> QED  BY <2>2, <4>1, <5>1, <6>1 DEF Once
        <5> QED  BY <5>2, <5>3
      <4> QED  BY <4>1 DEF Once
    <3> QED  BY <3>2, <3>3, <3>4, <3>6
  <2> QED  BY <2>3, <2>4
<1>8. FromRows(h[n], n)
  <2> HIDE DEF FromRows
  <2>1. 0 \in U /\ \A i \in 1..n : i - 1 \in U => i \in U
    BY <1>2, <1>6, <1>7
  <2>2. 0..n \subseteq U
    <3> HIDE DEF U
    <3> QED  BY <1>2, <2>1, Climb
  <2> QED  BY <1>2, <2>2
<1>9. ASSUME NEW k \in 1..Len(h[n]), h[n][k].on \/ h[n][k].uid \in Pad!Volatile
      PROVE  \E j \in DOMAIN seen : seen[j].uid = h[n][k].uid
  <2>1. PICK j \in 1..n : h[n][k] = u[j] /\ Pad!Kept(u[j], seen)
    BY <1>8
  <2>2. Pad!Volatile \cap Pad!Stable = {}
    BY DEF Pad!Volatile, Pad!Stable
  <2> QED  BY <1>1, <1>9, <2>1, <2>2 DEF Pad!Kept
<1> QED  BY <1>5, <1>8, <1>9 DEF RealRows

\* A pad that takes over a row, or gets one, leaves the rows real.
LEMMA AdoptedReal ==
  ASSUME NEW seen \in Seq(Items), NEW a \in RealRows(seen), NEW i \in 1..Len(seen)
  PROVE  Pad!Adopted(a, seen[i]) \in RealRows(seen)
<1>1. PICK c : c = seen[i]
  OBVIOUS
<1>2. /\ c \in Items /\ i \in DOMAIN seen /\ a \in Seq(RowType) /\ Once(a)
      /\ Len(a) \in Nat /\ DOMAIN a = 1..Len(a)
      /\ \A k \in 1..Len(a) : a[k].on \/ a[k].uid \in Pad!Volatile
                                => \E j \in DOMAIN seen : seen[j].uid = a[k].uid
  BY <1>1, ElementOfSeq, LenProperties DEF RealRows
<1>3. PICK new : new = [uid |-> c.uid, wire |-> c.wire, on |-> TRUE]
  OBVIOUS
<1>4. new \in RowType /\ new.uid = c.uid
  BY <1>2, <1>3 DEF Items, RowType
<1>5. CASE \E k \in DOMAIN a : a[k].uid = c.uid
  BY <1>1, <1>5 DEF Pad!Adopted
<1>6. CASE ~\E k \in DOMAIN a : a[k].uid = c.uid
  <2>1. CASE c.uid \in Pad!Stable /\ {k \in DOMAIN a : a[k].wire = c.wire} # {}
    <3>1. PICK slots : slots = {k \in DOMAIN a : a[k].wire = c.wire}
      OBVIOUS
    <3>2. PICK m : m = CHOOSE k \in slots : \A j \in slots : k <= j
      OBVIOUS
    <3>3. Pad!Adopted(a, c) = [a EXCEPT ![m] = new]
      BY <1>3, <1>6, <2>1, <3>1, <3>2, Zenon DEF Pad!Adopted
    <3>4. m \in 1..Len(a)
      <4>1. slots \in SUBSET (1..Len(a)) /\ slots # {}
        BY <1>2, <2>1, <3>1
      <4>2. \E k \in slots : \A j \in slots : k <= j
        BY <1>2, <4>1, MinIn
      <4> QED  BY <3>2, <4>1, <4>2, Zenon
    <3>5. PICK b : b = [a EXCEPT ![m] = new]
      OBVIOUS
    <3>6. b \in Seq(RowType) /\ Len(b) = Len(a) /\ b[m] = new
          /\ \A k \in 1..Len(a) : k # m => b[k] = a[k]
      BY <1>2, <1>4, <3>4, <3>5, ExceptSeq
    <3>7. Once(b)
      BY <1>2, <1>4, <1>6, <3>4, <3>6 DEF Once
    <3>8. \A k \in 1..Len(b) : b[k].on \/ b[k].uid \in Pad!Volatile
                                => \E j \in DOMAIN seen : seen[j].uid = b[k].uid
      BY <1>1, <1>2, <1>4, <3>4, <3>6
    <3> QED  BY <1>1, <3>3, <3>5, <3>6, <3>7, <3>8 DEF RealRows
  <2>2. CASE ~(c.uid \in Pad!Stable /\ {k \in DOMAIN a : a[k].wire = c.wire} # {})
    <3>1. PICK b : b = Append(a, new)
      OBVIOUS
    <3>2. Pad!Adopted(a, c) = b
      BY <1>3, <1>6, <2>2, <3>1, Zenon DEF Pad!Adopted
    <3>3. b \in Seq(RowType) /\ Len(b) = Len(a) + 1 /\ b[Len(a) + 1] = new
          /\ \A k \in 1..Len(a) : b[k] = a[k]
      BY <1>2, <1>4, <3>1, AppendProperties
    <3>4. Once(b)
      BY <1>2, <1>4, <1>6, <3>3 DEF Once
    <3>5. \A k \in 1..Len(b) : b[k].on \/ b[k].uid \in Pad!Volatile
                                => \E j \in DOMAIN seen : seen[j].uid = b[k].uid
      BY <1>1, <1>2, <1>4, <3>3
    <3> QED  BY <1>1, <3>2, <3>3, <3>4, <3>5 DEF RealRows
  <2> QED  BY <2>1, <2>2
<1> QED  BY <1>5, <1>6

\* reconcile makes real rows of real rows.
LEMMA ReconciledReal ==
  ASSUME PadsInv, NEW seen \in Seq(Items)
  PROVE  Pad!Reconciled(seen) \in RealRows(seen)
<1>1. PICK u : u = [i \in DOMAIN remembered |-> Pad!On(remembered[i], seen)]
  OBVIOUS
<1>2. remembered \in Seq(RowType) /\ Once(remembered) /\ Len(remembered) \in Nat /\ DOMAIN remembered = 1..Len(remembered)
      /\ \A i \in 1..Len(remembered) : remembered[i] \in RowType
  BY LenProperties, ElementOfSeq DEF PadsInv, RealRows
<1>3. ASSUME NEW r \in RowType
      PROVE  /\ Pad!On(r, seen) \in RowType /\ Pad!On(r, seen).uid = r.uid
             /\ Pad!On(r, seen).on => \E j \in DOMAIN seen : seen[j].uid = r.uid
  <2>1. CASE \E j \in DOMAIN seen : seen[j].uid = r.uid
    <3>1. PICK k \in DOMAIN seen : k = CHOOSE j \in DOMAIN seen : seen[j].uid = r.uid
      BY <2>1
    <3>2. Pad!On(r, seen) = [r EXCEPT !.on = TRUE, !.wire = seen[k].wire]
      BY <2>1, <3>1, Zenon DEF Pad!On
    <3>3. seen[k].wire \in Pad!Wires
      <4>1. k \in 1..Len(seen)
        BY LenProperties
      <4>2. seen[k] \in Items
        BY <4>1, ElementOfSeq
      <4> QED  BY <4>2 DEF Items
    <3> QED  BY <2>1, <3>2, <3>3 DEF RowType
  <2>2. CASE ~\E j \in DOMAIN seen : seen[j].uid = r.uid
    BY <2>2 DEF Pad!On, RowType
  <2> QED  BY <2>1, <2>2
<1>4. u \in Seq(RowType) /\ Len(u) = Len(remembered) /\ \A i \in 1..Len(remembered) : u[i] = Pad!On(remembered[i], seen)
  <2>1. DOMAIN u = 1..Len(remembered) /\ \A i \in 1..Len(remembered) : u[i] = Pad!On(remembered[i], seen) /\ u[i] \in RowType
    BY <1>1, <1>2, <1>3
  <2>2. u = [i \in 1..Len(remembered) |-> u[i]]
    BY <1>1, <1>2
  <2> QED  BY <1>2, <2>1, <2>2, IsASeq, LenProperties
<1>5. Once(u) /\ \A i \in 1..Len(u) : u[i].on => \E j \in DOMAIN seen : seen[j].uid = u[i].uid
  <2>1. ASSUME NEW i \in 1..Len(remembered)
        PROVE  u[i].uid = remembered[i].uid /\ (u[i].on => \E j \in DOMAIN seen : seen[j].uid = u[i].uid)
    <3>1. remembered[i] \in RowType /\ u[i] = Pad!On(remembered[i], seen)
      BY <1>2, <1>4
    <3> QED  BY <1>3, <3>1
  <2> QED  BY <1>2, <1>4, <2>1 DEF Once
<1>6. PICK old : old = Pad!Retained(u, seen)
  OBVIOUS
<1>7. old \in RealRows(seen)
  BY <1>4, <1>5, <1>6, RetainedReal
<1>8. PICK n : n = Len(seen)
  OBVIOUS
<1>9. n \in Nat /\ DOMAIN seen = 1..n
  BY <1>8, LenProperties
<1>10. \A a \in RealRows(seen), i \in 1..n : Pad!Adopted(a, seen[i]) \in RealRows(seen)
  BY <1>8, AdoptedReal
<1>11. PICK h : AdoptTurns(h, old, n, seen) /\ Pad!AllAdopted(old, seen) = h[n]
  BY <1>7, <1>9, <1>10, AdoptedInTurn
<1>12. h[n] \in RealRows(seen)
  <2>1. h[0] \in RealRows(seen) /\ \A i \in 1..n : h[i-1] \in RealRows(seen) => h[i] \in RealRows(seen)
    BY <1>7, <1>10, <1>11 DEF AdoptTurns
  <2> QED  BY <1>9, <2>1, InTurn
<1> QED  BY <1>1, <1>6, <1>11, <1>12, Zenon DEF Pad!Reconciled

LEMMA PadsInit == ASSUME PadBounds, Pad!Init  PROVE PadsInv
<1>1. remembered \in RealRows(listed)
  BY DEF Pad!Init, RealRows, Once
<1>2. Pad!TypeOK
  BY DEF Pad!Init, Pad!TypeOK, PadBounds, Pad!Wires
<1> QED  BY <1>1, <1>2 DEF PadsInv

LEMMA PadsNext == ASSUME PadBounds, PadsInv, [Pad!Next]_(Pad!padVars)  PROVE PadsInv'
<1>1. ASSUME NEW p \in Pads, NEW w \in Pad!Wires, Pad!Connect(p, w)  PROVE PadsInv'
  <2>1. Pad!TypeOK'
    BY <1>1 DEF PadsInv, Pad!TypeOK, Pad!Connect, PadBounds
  <2> QED  BY <1>1, <2>1 DEF PadsInv, Pad!Connect
<1>2. ASSUME NEW p \in Pads, Pad!Disconnect(p)  PROVE PadsInv'
  <2>1. Pad!TypeOK'
    BY <1>2 DEF PadsInv, Pad!TypeOK, Pad!Disconnect, PadBounds
  <2> QED  BY <1>2, <2>1 DEF PadsInv, Pad!Disconnect
<1>3. ASSUME NEW published \in SUBSET Pads, Pad!Poll(published)  PROVE PadsInv'
  <2>1. PICK order \in Pad!SetToSeqs(Pad!Connected) : listed' = Pad!Listed(order, published) /\ remembered' = Pad!Reconciled(listed')
    BY <1>3 DEF Pad!Poll
  <2>2. listed' \in Seq(Items)
    BY <2>1, ListedOnce DEF PadsInv
  <2>3. remembered' \in RealRows(listed')
    BY <2>1, <2>2, ReconciledReal
  <2>4. UNCHANGED <<identity, node, wire, nodes>>
    BY <1>3 DEF Pad!Poll
  <2>5. Pad!TypeOK'
    BY <2>2, <2>3, <2>4 DEF PadsInv, Pad!TypeOK, RealRows, RowType, Items
  <2> QED  BY <2>3, <2>5 DEF PadsInv, RealRows
<1>4. CASE UNCHANGED Pad!padVars
  <2>1. Pad!TypeOK'
    BY <1>4 DEF PadsInv, Pad!TypeOK, Pad!padVars
  <2> QED  BY <1>4, <2>1 DEF PadsInv, Pad!padVars
<1> QED  BY <1>1, <1>2, <1>3, <1>4 DEF Pad!Next

\* However often pads are connected and taken off, whatever udev has published when they are
\* listed: one row for an identity, none for a session that has ended, none shown as
\* connected that is not listed (gamepad_registry).
THEOREM GamepadRowsDoNotPile ==
  ASSUME PadBounds  PROVE Pad!Spec => []RowsDoNotPile
<1>1. Pad!Init => PadsInv
  BY PadsInit
<1>2. PadsInv /\ [Pad!Next]_(Pad!padVars) => PadsInv'
  BY PadsNext
<1>3. PadsInv => RowsDoNotPile
  <2>1. PadsInv => DOMAIN remembered = 1..Len(remembered)
    BY LenProperties DEF PadsInv, RealRows
  <2> QED  BY <2>1 DEF PadsInv, RealRows, Once, RowsDoNotPile, Pad!RowsDoNotPile
<1> QED  BY <1>1, <1>2, <1>3, PTL DEF Pad!Spec

-----------------------------------------------------------------------------
(* The list of profiles.                                                    *)

\* Profiles are finitely many, and Standard is a name of its own.
NameBounds == IsFiniteSet(Names) /\ BuiltIn \notin Names

AllNames == Names \cup {BuiltIn}
Row == [name : AllNames, says : Contents \cup {Built}]

Distinct(l) == \A i, j \in 1..Len(l) : l[i].name = l[j].name => i = j
Has(l, n) == \E i \in 1..Len(l) : l[i].name = n

\* A list of which every name stands for one profile, Standard and c among them.
Stands(l, c) == l \in Seq(Row) /\ Distinct(l) /\ Has(l, BuiltIn) /\ Has(l, c)

\* The menu is that of the list unless the number of profiles shows that it is not, which only
\* an edit after the frame's tray part can do.
MenuFollows ==
  /\ menu \in Seq(AllNames)
  /\ synced[1] = Len(list) => menu = Prof!NamesOf(list)
  /\ drawing => synced[1] = Len(list)

\* The mark is where the last update put it, or at the last click; that click taken, it is
\* right as it stands.
MarkFollows ==
  /\ marked \in 1..Len(menu) /\ \A i \in 1..Len(clicks) : clicks[i] \in Nat \ {0}
  /\ clicks \in Seq(Nat) /\ drawing \in BOOLEAN
  /\ ~crossed => \/ menu[marked] = synced[2]
                 \/ clicks # <<>> /\ marked = clicks[Len(clicks)]
                 \/ menu[marked] = current

WhatIsApplied == asks.name = current /\ (~unapplied => \E i \in 1..Len(list) : list[i] = asks)

NamedInv ==
  /\ Stands(list, current) /\ Stands(written.list, written.current)
  /\ WhatIsApplied /\ MenuFollows /\ MarkFollows
FileIsWhole == written = [list |-> written.list, current |-> written.current]
ListInv == FileIsWhole /\ Prof!NextStartAgrees /\ (~renamed => NamedInv)

LEMMA NamesType ==
  ASSUME NEW l \in Seq(Row)
  PROVE  /\ Prof!NamesOf(l) \in Seq(AllNames) /\ Len(Prof!NamesOf(l)) = Len(l)
         /\ \A i \in 1..Len(l) : Prof!NamesOf(l)[i] = l[i].name /\ l[i] \in Row
<1>1. \A i \in 1..Len(l) : l[i] \in Row
  OBVIOUS
<1>2. \A i \in 1..Len(l) : l[i].name \in AllNames
  BY <1>1 DEF Row
<1> QED  BY <1>1, <1>2 DEF Prof!NamesOf

\* Of names that are distinct, current_profile_index gives the place.
LEMMA IndexOfName ==
  ASSUME NEW l \in Seq(Row), Distinct(l), NEW n
  PROVE  /\ \A i \in 1..Len(l) : l[i].name = n => Prof!IndexIn(Prof!NamesOf(l), n) = i
         /\ Prof!IndexIn(Prof!NamesOf(l), n) = 0 <=> ~Has(l, n)
         /\ Prof!IndexIn(Prof!NamesOf(l), n) \in 0..Len(l)
<1> DEFINE at == {i \in 1..Len(Prof!NamesOf(l)) : Prof!NamesOf(l)[i] = n}
<1>1. at = {i \in 1..Len(l) : l[i].name = n}
  BY NamesType
<1>2. ASSUME NEW i \in 1..Len(l), l[i].name = n  PROVE Prof!IndexIn(Prof!NamesOf(l), n) = i
  <2>1. at = {i}
    BY <1>1, <1>2 DEF Distinct
  <2>2. (CHOOSE k \in at : \A j \in at : k <= j) = i
    BY <2>1
  <2> QED  BY <2>1, <2>2 DEF Prof!IndexIn
<1>3. ASSUME ~Has(l, n)  PROVE Prof!IndexIn(Prof!NamesOf(l), n) = 0
  <2>1. at = {}
    BY <1>1, <1>3 DEF Has
  <2> QED  BY <2>1 DEF Prof!IndexIn
<1> QED  BY <1>2, <1>3 DEF Has

LEMMA RowRemoved ==
  ASSUME NEW l \in Seq(Row), Distinct(l), NEW i \in 1..Len(l)
  PROVE  /\ Prof!RemoveAt(l, i) \in Seq(Row) /\ Len(Prof!RemoveAt(l, i)) = Len(l) - 1
         /\ Distinct(Prof!RemoveAt(l, i))
         /\ \A j \in 1..Len(l) : j # i => \E k \in 1..Len(l) - 1 : Prof!RemoveAt(l, i)[k] = l[j]
<1>1. PICK n \in Nat : n = Len(l) /\ i \in 1..n /\ i \in Nat
  OBVIOUS
<1>2. PICK a : a = SubSeq(l, 1, i - 1)
  OBVIOUS
<1>3. PICK b : b = SubSeq(l, i + 1, Len(l))
  OBVIOUS
<1>4. a \in Seq(Row) /\ Len(a) = i - 1 /\ \A k \in 1..i - 1 : a[k] = l[k]
  BY <1>1, <1>2
<1>5. b \in Seq(Row) /\ Len(b) = n - i /\ \A k \in 1..n - i : b[k] = l[k + i]
  BY <1>1, <1>3
<1>6. PICK r : r = a \o b /\ r = Prof!RemoveAt(l, i)
  BY <1>2, <1>3 DEF Prof!RemoveAt
<1>7. r \in Seq(Row) /\ Len(r) = n - 1
      /\ \A m \in 1..Len(a) + Len(b) : r[m] = IF m <= Len(a) THEN a[m] ELSE b[m - Len(a)]
  <2>0. /\ a \o b \in Seq(Row) /\ Len(a \o b) = Len(a) + Len(b)
        /\ \A m \in 1..Len(a) + Len(b) : (a \o b)[m] = IF m <= Len(a) THEN a[m] ELSE b[m - Len(a)]
    BY <1>4, <1>5, ConcatProperties
  <2>1. /\ r \in Seq(Row) /\ Len(r) = Len(a) + Len(b)
        /\ \A m \in 1..Len(a) + Len(b) : r[m] = IF m <= Len(a) THEN a[m] ELSE b[m - Len(a)]
    BY <1>6, <2>0, Zenon
  <2> QED  BY <1>1, <1>4, <1>5, <2>1
<1>8. ASSUME NEW k \in 1..n - 1, k < i  PROVE r[k] = l[k]
  <2>1. k \in 1..Len(a) + Len(b) /\ k <= Len(a) /\ k \in 1..i - 1
    BY <1>1, <1>4, <1>5, <1>8
  <2>2. r[k] = a[k]
    BY <1>7, <2>1
  <2> QED  BY <1>4, <2>1, <2>2
<1>9. ASSUME NEW k \in 1..n - 1, ~(k < i)  PROVE r[k] = l[k + 1]
  <2>1. k \in 1..Len(a) + Len(b) /\ ~(k <= Len(a)) /\ Len(a) = i - 1
    BY <1>1, <1>4, <1>5, <1>9
  <2>2. r[k] = b[k - Len(a)]
    BY <1>7, <2>1
  <2>3. k - (i - 1) \in 1..n - i /\ (k - (i - 1)) + i = k + 1
    BY <1>1, <1>9
  <2>4. b[k - (i - 1)] = l[(k - (i - 1)) + i]
    BY <1>5, <2>3
  <2> QED  BY <2>1, <2>2, <2>3, <2>4
<1>10. Distinct(r)
  <2> SUFFICES ASSUME NEW j \in 1..n - 1, NEW k \in 1..n - 1, r[j].name = r[k].name
               PROVE  j = k
    BY <1>7 DEF Distinct
  <2>1. ASSUME NEW m \in 1..n - 1
        PROVE  \E p \in 1..n : r[m] = l[p] /\ p = IF m < i THEN m ELSE m + 1
    <3>1. m \in 1..n /\ m + 1 \in 1..n
      BY <1>1
    <3> QED  BY <1>8, <1>9, <3>1
  <2>2. PICK p \in 1..n : r[j] = l[p] /\ p = IF j < i THEN j ELSE j + 1
    BY <2>1
  <2>3. PICK q \in 1..n : r[k] = l[q] /\ q = IF k < i THEN k ELSE k + 1
    BY <2>1
  <2>4. p = q
    BY <1>1, <2>2, <2>3 DEF Distinct
  <2> QED  BY <1>1, <2>2, <2>3, <2>4
<1>11. ASSUME NEW j \in 1..n, j # i  PROVE \E k \in 1..n - 1 : r[k] = l[j]
  <2>1. CASE j < i
    <3>1. j \in 1..n - 1
      BY <1>1, <2>1
    <3> QED  BY <1>8, <2>1, <3>1
  <2>2. CASE ~(j < i)
    <3>1. j - 1 \in 1..n - 1 /\ ~(j - 1 < i) /\ (j - 1) + 1 = j
      BY <1>1, <1>11, <2>2
    <3> QED  BY <1>9, <3>1
  <2> QED  BY <2>1, <2>2
<1> QED  BY <1>1, <1>6, <1>7, <1>10, <1>11

LEMMA RowAdded ==
  ASSUME NEW l \in Seq(Row), Distinct(l), NEW row \in Row, ~Has(l, row.name)
  PROVE  /\ Append(l, row) \in Seq(Row) /\ Len(Append(l, row)) = Len(l) + 1
         /\ Distinct(Append(l, row)) /\ \A i \in 1..Len(l) : Append(l, row)[i] = l[i]
<1>1. /\ Append(l, row) \in Seq(Row) /\ Len(Append(l, row)) = Len(l) + 1 /\ Len(l) \in Nat
      /\ Append(l, row)[Len(l) + 1] = row /\ \A i \in 1..Len(l) : Append(l, row)[i] = l[i]
  OBVIOUS
<1>2. Distinct(Append(l, row))
  BY <1>1 DEF Distinct, Has
<1> QED  BY <1>1, <1>2

\* A profile replaced by another of its name.
LEMMA RowReplaced ==
  ASSUME NEW l \in Seq(Row), Distinct(l), NEW i \in 1..Len(l),
         NEW r \in Seq(Row), Len(r) = Len(l), r[i].name = l[i].name,
         \A j \in 1..Len(l) : j # i => r[j] = l[j]
  PROVE  Distinct(r) /\ Prof!NamesOf(r) = Prof!NamesOf(l)
<1>1. \A j \in 1..Len(l) : r[j].name = l[j].name
  OBVIOUS
<1>2. Distinct(r)
  BY <1>1 DEF Distinct
<1>3. Prof!NamesOf(r) = Prof!NamesOf(l)
  BY <1>1 DEF Prof!NamesOf
<1> QED  BY <1>2, <1>3

-----------------------------------------------------------------------------

\* The list that a first start makes.
LEMMA FirstList ==
  ASSUME NameBounds, NEW says \in Contents, NEW c \in AllNames,
         NEW l, l = <<[name |-> BuiltIn, says |-> Built]>> \o
                      Prof!SetToSeq({[name |-> n, says |-> says] : n \in Names})
  PROVE  Stands(l, c)
<1> DEFINE S == {[name |-> n, says |-> says] : n \in Names}
           f == [n \in Names |-> [name |-> n, says |-> says]]
<1>1. IsFiniteSet(S)
  <2>1. f \in Surjection(Names, S)
    BY DEF Surjection
  <2> QED  BY <2>1, FS_Surjection DEF NameBounds
<1>2. Cardinality(S) \in Nat /\ \E q \in [1..Cardinality(S) -> S] : Prof!IsInjective(q)
  <2>1. Cardinality(S) \in Nat /\ ExistsBijection(1..Cardinality(S), S)
    BY <1>1, FS_CardinalityType
  <2>2. PICK q \in Bijection(1..Cardinality(S), S) : TRUE
    BY <2>1 DEF ExistsBijection
  <2>3. q \in [1..Cardinality(S) -> S] /\ Prof!IsInjective(q)
    BY <2>2 DEF Bijection, Injection, IsInjective, Prof!IsInjective
  <2> QED  BY <2>1, <2>3
<1>3. PICK q : q = Prof!SetToSeq(S)
  OBVIOUS
<1>4. Prof!Cardinality(S) = Cardinality(S)
  BY DEF Prof!Cardinality, Cardinality
<1>5. q \in [1..Cardinality(S) -> S] /\ Prof!IsInjective(q)
  <2>1. q = CHOOSE g \in [1..Cardinality(S) -> S] : Prof!IsInjective(g)
    BY <1>3, <1>4 DEF Prof!SetToSeq
  <2> HIDE DEF S
  <2> QED  BY <1>2, <2>1
<1>6. \A s \in S : \E i \in 1..Cardinality(S) : q[i] = s
  <2>1. q \in Injection(1..Cardinality(S), S)
    BY <1>5 DEF Injection, IsInjective, Prof!IsInjective
  <2>2. Cardinality(1..Cardinality(S)) = Cardinality(S)
    BY <1>2, FS_Interval
  <2>3. q \in Surjection(1..Cardinality(S), S)
    BY <1>1, <2>1, <2>2, FS_Injection
  <2> QED  BY <2>3 DEF Surjection
<1>7. q \in Seq(Row) /\ Len(q) = Cardinality(S)
  <2>1. S \subseteq Row
    BY DEF Row, AllNames
  <2> HIDE DEF S
  <2>2. q \in [1..Cardinality(S) -> Row]
    BY <1>5, <2>1
  <2>3. PICK m \in Nat : m = Cardinality(S)
    BY <1>2
  <2>4. q \in [1..m -> Row]
    BY <2>2, <2>3
  <2>5. q \in Seq(Row) /\ Len(q) = m
    BY <2>4
  <2> QED  BY <2>3, <2>5
<1> DEFINE first == [name |-> BuiltIn, says |-> Built]
<1>8. first \in Row /\ first.name = BuiltIn
  BY DEF Row, AllNames
<1>9. /\ l \in Seq(Row) /\ Len(l) = 1 + Cardinality(S) /\ l[1] = first
      /\ \A i \in 1..Cardinality(S) : l[i + 1] = q[i]
  <2> HIDE DEF first, S
  <2>1. PICK h : h = <<first>>
    OBVIOUS
  <2>2. h \in Seq(Row) /\ Len(h) = 1 /\ h[1] = first
    BY <1>8, <2>1
  <2>3. l = h \o q
    BY <1>3, <2>1 DEF S, first
  <2>4. PICK m \in Nat : m = Cardinality(S) /\ Len(q) = m
    BY <1>2, <1>7
  <2>5. /\ h \o q \in Seq(Row) /\ Len(h \o q) = Len(h) + Len(q)
        /\ \A i \in 1..Len(h) + Len(q) : (h \o q)[i] = IF i <= Len(h) THEN h[i] ELSE q[i - Len(h)]
    BY <1>7, <2>2, ConcatProperties
  <2>6. /\ l \in Seq(Row) /\ Len(l) = 1 + m
        /\ \A i \in 1..1 + m : l[i] = IF i <= 1 THEN h[i] ELSE q[i - 1]
    BY <2>2, <2>3, <2>4, <2>5
  <2>7. l[1] = first
    <3>1. 1 \in 1..1 + m /\ 1 <= 1
      BY <2>4
    <3>2. l[1] = h[1]
      BY <2>6, <3>1
    <3> QED  BY <2>2, <3>2
  <2>8. ASSUME NEW i \in 1..m  PROVE l[i + 1] = q[i]
    <3>1. i + 1 \in 1..1 + m /\ ~(i + 1 <= 1) /\ (i + 1) - 1 = i
      BY <2>4
    <3> QED  BY <2>6, <3>1
  <2> QED  BY <2>4, <2>6, <2>7, <2>8
<1>10. \A i \in 1..Cardinality(S) : q[i] \in S /\ q[i].name \in Names /\ q[i].says = says
  BY <1>5
<1>11. \A i, j \in 1..Cardinality(S) : q[i].name = q[j].name => i = j
  <2>1. \A i \in 1..Cardinality(S) : q[i] = [name |-> q[i].name, says |-> says]
    BY <1>5
  <2>2. \A i, j \in 1..Cardinality(S) : q[i].name = q[j].name => q[i] = q[j]
    BY <2>1
  <2> QED  BY <1>5, <2>2 DEF Prof!IsInjective
<1> HIDE DEF first, S
<1>12. \A i \in 1..Len(l) : i = 1 \/ \E k \in 1..Cardinality(S) : i = k + 1
  <2> SUFFICES ASSUME NEW i \in 1..Len(l), i # 1  PROVE \E k \in 1..Cardinality(S) : i = k + 1
    OBVIOUS
  <2>1. i - 1 \in 1..Cardinality(S) /\ i = (i - 1) + 1
    BY <1>2, <1>9
  <2> QED  BY <2>1
<1>13. Distinct(l)
  <2> SUFFICES ASSUME NEW i \in 1..Len(l), NEW j \in 1..Len(l), l[i].name = l[j].name
               PROVE  i = j
    BY DEF Distinct
  <2>1. \A k \in 1..Cardinality(S) : l[k + 1].name # l[1].name
    BY <1>8, <1>9, <1>10 DEF NameBounds
  <2>2. \A k, m \in 1..Cardinality(S) : l[k + 1].name = l[m + 1].name => k = m
    BY <1>9, <1>11
  <2> QED  BY <1>12, <2>1, <2>2
<1>14. Has(l, BuiltIn)
  <2>1. 1 \in 1..Len(l)
    BY <1>2, <1>9
  <2> QED  BY <1>8, <1>9, <2>1 DEF Has
<1>15. Has(l, c)
  <2>1. CASE c = BuiltIn
    BY <1>14, <2>1
  <2>2. CASE c \in Names
    <3>1. PICK i \in 1..Cardinality(S) : q[i] = [name |-> c, says |-> says]
      BY <1>6, <2>2 DEF S
    <3>2. i + 1 \in 1..Len(l)
      BY <1>2, <1>9
    <3>3. l[i + 1] = q[i]
      BY <1>9
    <3>4. [name |-> c, says |-> says].name = c
      OBVIOUS
    <3>5. l[i + 1].name = c
      BY <3>1, <3>3, <3>4, Zenon
    <3> QED  BY <3>2, <3>5 DEF Has
  <2> QED  BY <2>1, <2>2 DEF AllNames
<1> QED  BY <1>9, <1>13, <1>14, <1>15 DEF Stands

\* The profile of that name in a list.
LEMMA FoundIn ==
  ASSUME NEW l, NEW c, NEW n, Stands(l, c), Has(l, n)
  PROVE  /\ Prof!IndexIn(Prof!NamesOf(l), n) \in 1..Len(l)
         /\ l[Prof!IndexIn(Prof!NamesOf(l), n)] \in Row
         /\ l[Prof!IndexIn(Prof!NamesOf(l), n)].name = n
         /\ Prof!NamesOf(l)[Prof!IndexIn(Prof!NamesOf(l), n)] = n
         /\ Prof!NamesOf(l) \in Seq(AllNames) /\ Len(Prof!NamesOf(l)) = Len(l)
<1>1. l \in Seq(Row) /\ Distinct(l)
  BY DEF Stands
<1>2. PICK i \in 1..Len(l) : l[i].name = n
  BY DEF Has
<1>3. Prof!IndexIn(Prof!NamesOf(l), n) = i
  BY <1>1, <1>2, IndexOfName
<1> QED  BY <1>1, <1>2, <1>3, NamesType

LEMMA ListInit ==
  ASSUME NameBounds, Prof!Init  PROVE ListInv
<1>1. PICK says \in Contents, c \in Names \cup {BuiltIn} :
        Prof!Load(<<[name |-> BuiltIn, says |-> Built]>> \o
                 Prof!SetToSeq({[name |-> n, says |-> says] : n \in Names}), c)
  BY DEF Prof!Init
<1>2. /\ current = c /\ written = [list |-> list, current |-> current]
      /\ list = <<[name |-> BuiltIn, says |-> Built]>> \o
                  Prof!SetToSeq({[name |-> n, says |-> says] : n \in Names})
      /\ asks = list[Prof!IndexIn(Prof!NamesOf(list), current)] /\ menu = Prof!NamesOf(list)
      /\ marked = Prof!IndexIn(menu, current) /\ synced = <<Len(list), current>> /\ clicks = <<>>
  BY <1>1 DEF Prof!Load
<1>3. Stands(list, current)
  BY <1>1, <1>2, FirstList DEF AllNames
<1>4. Has(list, current)
  BY <1>3 DEF Stands
<1>5. /\ marked \in 1..Len(list) /\ asks = list[marked] /\ asks.name = current
      /\ menu[marked] = current /\ menu \in Seq(AllNames) /\ Len(menu) = Len(list)
  <2> DEFINE k == Prof!IndexIn(Prof!NamesOf(list), current)
  <2>1. /\ k \in 1..Len(list) /\ list[k].name = current /\ Prof!NamesOf(list)[k] = current
        /\ Prof!NamesOf(list) \in Seq(AllNames) /\ Len(Prof!NamesOf(list)) = Len(list)
    BY <1>3, <1>4, FoundIn
  <2>2. marked = k /\ asks = list[k] /\ menu = Prof!NamesOf(list)
    BY <1>2
  <2> HIDE DEF k
  <2> QED  BY <2>1, <2>2
<1>6. MenuFollows
  BY <1>2, <1>5 DEF Prof!Init, MenuFollows
<1>7. MarkFollows
  <2>1. clicks \in Seq(Nat) /\ Len(clicks) = 0 /\ drawing = FALSE
    BY <1>2 DEF Prof!Init
  <2>2. marked \in 1..Len(menu) /\ menu[marked] = synced[2]
    BY <1>2, <1>5
  <2>3. \A i \in 1..Len(clicks) : clicks[i] \in Nat \ {0}
    BY <2>1
  <2> QED  BY <2>1, <2>2, <2>3, Zenon DEF MarkFollows
<1>8. WhatIsApplied
  BY <1>5 DEF WhatIsApplied
<1> QED  BY <1>2, <1>3, <1>6, <1>7, <1>8 DEF ListInv, FileIsWhole, NamedInv, Prof!NextStartAgrees

\* The tray's part of an edit on a page, which is the last thing that its frame does: it changes
\* the number of profiles or none of the names.
LEMMA EditTray ==
  ASSUME NamedInv, Prof!EditOf, UNCHANGED <<menu, marked, synced, clicks>>,
         Len(list') = Len(list) => Prof!NamesOf(list') = Prof!NamesOf(list)
  PROVE  MenuFollows' /\ MarkFollows'
<1>1. MenuFollows'
  BY DEF NamedInv, MenuFollows, Prof!EditOf
<1>2. MarkFollows'
  BY DEF NamedInv, MarkFollows, Prof!EditOf
<1> QED  BY <1>1, <1>2

LEMMA SavedStands ==
  ASSUME Stands(list', current'), Stands(written.list, written.current), Prof!SaveProfiles
  PROVE  Stands(written'.list, written'.current)
BY DEF Prof!SaveProfiles

LEMMA SwitchInv ==
  ASSUME NamedInv, Prof!Switch  PROVE NamedInv'
<1>1. PICK i \in 1..Len(list) :
        /\ current' = list[i].name /\ list' = list /\ Prof!SaveProfiles /\ asks' = list[i]
        /\ UNCHANGED <<menu, marked, synced, clicks>> /\ Prof!EditOf
  BY DEF Prof!Switch, Prof!ApplyProfile, Prof!trayVars
<1>2. Stands(list', current')
  BY <1>1 DEF NamedInv, Stands, Has
<1>3. Stands(written'.list, written'.current)
  BY <1>1, <1>2, SavedStands DEF NamedInv
<1>4. MenuFollows' /\ MarkFollows'
  BY <1>1, EditTray
<1>5. WhatIsApplied'
  BY <1>1 DEF WhatIsApplied
<1> QED  BY <1>2, <1>3, <1>4, <1>5 DEF NamedInv

LEMMA ResetStandardInv ==
  ASSUME NamedInv, Prof!ResetStandard  PROVE NamedInv'
<1> DEFINE row == [name |-> BuiltIn, says |-> Built]
<1>1. PICK i \in 1..Len(list) :
        /\ list[i].name = BuiltIn /\ list' = [list EXCEPT ![i] = row]
        /\ current' = current /\ Prof!SaveProfiles
        /\ \/ current = BuiltIn /\ asks' = list'[i] /\ unapplied' = FALSE
           \/ current # BuiltIn /\ UNCHANGED <<asks, unapplied>>
        /\ UNCHANGED <<menu, marked, synced, clicks>> /\ Prof!EditOf
  BY DEF Prof!ResetStandard, Prof!ApplyProfile, Prof!ApplyNothing, Prof!trayVars
<1>2. row \in Row /\ row.name = BuiltIn /\ list \in Seq(Row) /\ Distinct(list)
  BY DEF Row, AllNames, NamedInv, Stands
<1> HIDE DEF row
<1>3. /\ list' \in Seq(Row) /\ Len(list') = Len(list) /\ Distinct(list') /\ list'[i] = row
      /\ Prof!NamesOf(list') = Prof!NamesOf(list) /\ \A j \in 1..Len(list) : j # i => list'[j] = list[j]
  <2>1. i \in 1..Len(list) /\ row.name = list[i].name /\ list' = [list EXCEPT ![i] = row]
    BY <1>1, <1>2
  <2>2. /\ list' \in Seq(Row) /\ Len(list') = Len(list) /\ list'[i] = row
        /\ \A j \in 1..Len(list) : j # i => list'[j] = list[j]
    BY <1>2, <2>1
  <2> QED  BY <1>2, <2>1, <2>2, RowReplaced
<1>4. \A n : Has(list, n) => Has(list', n)
  BY <1>1, <1>2, <1>3 DEF Has
<1>5. Stands(list', current')
  BY <1>1, <1>3, <1>4 DEF NamedInv, Stands
<1>6. Stands(written'.list, written'.current)
  BY <1>1, <1>5, SavedStands DEF NamedInv
<1>7. MenuFollows' /\ MarkFollows'
  BY <1>1, <1>3, EditTray
<1>8. WhatIsApplied'
  <2>1. CASE current = BuiltIn
    BY <1>1, <1>2, <1>3, <2>1 DEF WhatIsApplied
  <2>2. CASE current # BuiltIn
    <3>1. \A j \in 1..Len(list) : list[j] = asks => j # i
      BY <1>1, <2>2 DEF NamedInv, WhatIsApplied
    <3> QED  BY <1>1, <1>3, <2>2, <3>1 DEF NamedInv, WhatIsApplied
  <2> QED  BY <2>1, <2>2
<1> QED  BY <1>5, <1>6, <1>7, <1>8 DEF NamedInv

LEMMA DeleteInv ==
  ASSUME NamedInv, Prof!Delete  PROVE NamedInv'
<1>1. PICK i \in 1..Len(list) :
        /\ list[i].name # BuiltIn /\ Prof!DeleteApplies(list[i].name)
        /\ current' = IF list[i].name = current THEN BuiltIn ELSE current
        /\ list' = Prof!RemoveAt(list, i) /\ Prof!SaveProfiles
        /\ UNCHANGED <<menu, marked, synced, clicks>> /\ Prof!EditOf
  BY DEF Prof!Delete, Prof!trayVars
<1>2. list \in Seq(Row) /\ Distinct(list) /\ Has(list, BuiltIn) /\ Has(list, current)
  BY DEF NamedInv, Stands
<1>3. /\ list' \in Seq(Row) /\ Len(list') = Len(list) - 1 /\ Distinct(list')
      /\ \A j \in 1..Len(list) : j # i => \E k \in 1..Len(list') : list'[k] = list[j]
  BY <1>1, <1>2, RowRemoved
<1>4. \A n : Has(list, n) /\ n # list[i].name => Has(list', n)
  BY <1>3 DEF Has
<1>5. Stands(list', current')
  BY <1>1, <1>2, <1>3, <1>4 DEF Stands
<1>6. Stands(written'.list, written'.current)
  BY <1>1, <1>5, SavedStands DEF NamedInv
<1>7. MenuFollows' /\ MarkFollows'
  <2>1. Len(list') # Len(list)
    BY <1>2, <1>3
  <2> QED  BY <1>1, <2>1, EditTray
<1>8. WhatIsApplied'
  <2> DEFINE s == Prof!IndexIn(Prof!NamesOf(list), BuiltIn)
  <2>1. s \in 1..Len(list) /\ list[s].name = BuiltIn
    BY <1>2, FoundIn DEF NamedInv
  <2>2. CASE list[i].name = current
    <3>1. asks' = list[s]
      BY <1>1, <2>1, <2>2 DEF Prof!DeleteApplies, Prof!ApplyProfile
    <3>2. s # i
      BY <1>1, <2>1
    <3> QED  BY <1>1, <1>3, <2>1, <2>2, <3>1, <3>2 DEF WhatIsApplied
  <2>3. CASE list[i].name # current
    <3>1. UNCHANGED <<asks, unapplied>> /\ current' = current
      BY <1>1, <2>3 DEF Prof!DeleteApplies, Prof!ApplyNothing
    <3>2. \A j \in 1..Len(list) : list[j] = asks => j # i
      BY <2>3 DEF NamedInv, WhatIsApplied
    <3> QED  BY <1>3, <3>1, <3>2 DEF NamedInv, WhatIsApplied
  <2> QED  BY <2>2, <2>3
<1> QED  BY <1>5, <1>6, <1>7, <1>8 DEF NamedInv

LEMMA CreateInv ==
  ASSUME NamedInv, Prof!Create  PROVE NamedInv'
<1> DEFINE at == Prof!IndexIn(Prof!NamesOf(list), current)
<1>1. PICK n \in AllNames :
        /\ Prof!MayCreate(n)
        /\ list' = Append(list, [name |-> n, says |-> IF at = 0 THEN Built ELSE list[at].says])
        /\ UNCHANGED <<current, asks, unapplied>> /\ Prof!SaveProfiles
        /\ UNCHANGED <<menu, marked, synced, clicks>> /\ Prof!EditOf
  BY DEF Prof!Create, Prof!trayVars, Prof!ApplyNothing, AllNames
<1>2. list \in Seq(Row) /\ Distinct(list) /\ Has(list, BuiltIn) /\ Has(list, current)
  BY DEF NamedInv, Stands
<1>3. PICK row \in Row : row.name = n /\ list' = Append(list, row)
  <2>1. at \in 1..Len(list) /\ list[at] \in Row
    BY <1>2, FoundIn DEF NamedInv
  <2>2. [name |-> n, says |-> list[at].says] \in Row
    BY <2>1 DEF Row
  <2> QED  BY <1>1, <2>1, <2>2
<1>4. ~Has(list, n)
  BY <1>1, <1>2, IndexOfName DEF Prof!MayCreate
<1>5. /\ list' \in Seq(Row) /\ Len(list') = Len(list) + 1 /\ Distinct(list')
      /\ Len(list) \in Nat /\ \A i \in 1..Len(list) : i \in 1..Len(list') /\ list'[i] = list[i]
  BY <1>2, <1>3, <1>4, RowAdded
<1>6. Stands(list', current')
  BY <1>1, <1>2, <1>5 DEF Stands, Has
<1>7. Stands(written'.list, written'.current)
  BY <1>1, <1>6, SavedStands DEF NamedInv
<1>8. MenuFollows' /\ MarkFollows'
  BY <1>1, <1>5, EditTray
<1>9. WhatIsApplied'
  BY <1>1, <1>5 DEF NamedInv, WhatIsApplied
<1> QED  BY <1>6, <1>7, <1>8, <1>9 DEF NamedInv

LEMMA TuneInv ==
  ASSUME NamedInv, Prof!Tune, ~renamed'  PROVE NamedInv'
<1> DEFINE i == Prof!IndexIn(Prof!NamesOf(list), current)
<1>1. /\ list \in Seq(Row) /\ Distinct(list) /\ Has(list, BuiltIn) /\ Has(list, current)
      /\ i \in 1..Len(list) /\ list[i] \in Row /\ list[i].name = current
  BY FoundIn DEF NamedInv, Stands
<1>2. current' = current /\ UNCHANGED <<menu, marked, synced, clicks>> /\ Prof!EditOf
  BY DEF Prof!Tune, Prof!trayVars
<1>3. CASE list' = list /\ Prof!SaveProfiles /\ asks' = list[i]
  <2>1. Stands(list', current') /\ Stands(written'.list, written'.current)
    BY <1>2, <1>3, SavedStands DEF NamedInv
  <2>2. MenuFollows' /\ MarkFollows'
    BY <1>2, <1>3, EditTray
  <2>3. WhatIsApplied'
    BY <1>1, <1>2, <1>3 DEF WhatIsApplied
  <2> QED  BY <2>1, <2>2, <2>3 DEF NamedInv
<1>4. ASSUME NEW row \in Row, row.name = current, list' = [list EXCEPT ![i] = row],
             unapplied' = TRUE, UNCHANGED <<written, asks>>
      PROVE  NamedInv'
  <2>1. /\ list' \in Seq(Row) /\ Len(list') = Len(list) /\ Distinct(list') /\ list'[i] = row
        /\ Prof!NamesOf(list') = Prof!NamesOf(list) /\ \A j \in 1..Len(list) : j # i => list'[j] = list[j]
    <3> HIDE DEF i
    <3>1. /\ i \in 1..Len(list) /\ row \in Row /\ row.name = list[i].name
          /\ list' = [list EXCEPT ![i] = row] /\ list \in Seq(Row) /\ Distinct(list)
      BY <1>1, <1>4
    <3>2. /\ list' \in Seq(Row) /\ Len(list') = Len(list) /\ list'[i] = row
          /\ \A j \in 1..Len(list) : j # i => list'[j] = list[j]
      BY <3>1
    <3> QED  BY <3>1, <3>2, RowReplaced
  <2>2. \A n : Has(list, n) => Has(list', n)
    BY <1>1, <1>4, <2>1 DEF Has
  <2>3. Stands(list', current') /\ Stands(written'.list, written'.current)
    BY <1>1, <1>2, <1>4, <2>1, <2>2 DEF NamedInv, Stands
  <2>4. MenuFollows' /\ MarkFollows'
    BY <1>2, <2>1, EditTray
  <2>5. WhatIsApplied'
    BY <1>2, <1>4 DEF NamedInv, WhatIsApplied
  <2> QED  BY <2>3, <2>4, <2>5 DEF NamedInv
<1>5. CASE \E says \in Contents \ {list[i].says} :
             list' = [list EXCEPT ![i].says = says] /\ unapplied' = TRUE /\ UNCHANGED <<written, asks>>
  <2>1. PICK says \in Contents :
          list' = [list EXCEPT ![i].says = says] /\ unapplied' = TRUE /\ UNCHANGED <<written, asks>>
    BY <1>5
  <2>2. PICK row \in Row : row = [list[i] EXCEPT !.says = says] /\ row.name = current
    <3>1. PICK old \in Row : old = list[i] /\ old.name = current
      BY <1>1
    <3>2. [old EXCEPT !.says = says] \in Row /\ [old EXCEPT !.says = says].name = current
      BY <3>1 DEF Row
    <3> QED  BY <3>1, <3>2
  <2>3. list' = [list EXCEPT ![i] = row]
    BY <2>1, <2>2
  <2> QED  BY <1>4, <2>1, <2>2, <2>3
<1>6. CASE /\ list' = [list EXCEPT ![i] = [name |-> BuiltIn, says |-> Built]]
           /\ current = BuiltIn /\ unapplied' = TRUE /\ UNCHANGED <<written, asks>>
  <2>1. [name |-> BuiltIn, says |-> Built] \in Row
    BY DEF Row, AllNames
  <2> QED  BY <1>4, <1>6, <2>1
<1>7. \/ list' = list /\ Prof!SaveProfiles /\ asks' = list[i]
      \/ \E says \in Contents \ {list[i].says} :
           list' = [list EXCEPT ![i].says = says] /\ unapplied' = TRUE /\ UNCHANGED <<written, asks>>
      \/ /\ list' = [list EXCEPT ![i] = [name |-> BuiltIn, says |-> Built]]
         /\ current = BuiltIn /\ unapplied' = TRUE /\ UNCHANGED <<written, asks>>
  BY DEF Prof!Tune, Prof!ApplyProfile, Prof!ApplyNothing
<1> QED  BY <1>3, <1>5, <1>6, <1>7

LEMMA ClickInv ==
  ASSUME NamedInv, Prof!Click  PROVE NamedInv'
<1>1. PICK i \in 1..Len(menu) : clicks' = Append(clicks, i) /\ marked' = i
  BY DEF Prof!Click
<1>2. UNCHANGED <<list, current, written, asks, menu, synced, drawing, unapplied, crossed>>
  BY DEF Prof!Click
<1>3. Stands(list, current)' /\ Stands(written.list, written.current)' /\ WhatIsApplied' /\ MenuFollows'
  BY <1>2 DEF NamedInv, WhatIsApplied, MenuFollows
<1>4. MarkFollows'
  <2>1. /\ clicks \in Seq(Nat) /\ \A k \in 1..Len(clicks) : clicks[k] \in Nat \ {0}
        /\ drawing \in BOOLEAN
    BY DEF NamedInv, MarkFollows
  <2>2. i \in Nat \ {0}
    BY DEF NamedInv, MenuFollows
  <2>3. /\ clicks' \in Seq(Nat) /\ Len(clicks') = Len(clicks) + 1 /\ clicks'[Len(clicks')] = i
        /\ Len(clicks) \in Nat /\ \A k \in 1..Len(clicks) : clicks'[k] = clicks[k]
    <3>1. clicks' = Append(clicks, i)
      BY <1>1
    <3> QED  BY <2>1, <2>2, <3>1, AppendProperties
  <2>4. clicks' # <<>>
    BY <2>3
  <2>5. ASSUME NEW k \in 1..Len(clicks')  PROVE clicks'[k] \in Nat \ {0}
    <3>1. k \in 1..Len(clicks) \/ k = Len(clicks')
      BY <2>3
    <3> QED  BY <2>1, <2>2, <2>3, <3>1
  <2>6. marked' \in 1..Len(menu') /\ marked' = i
    BY <1>1, <1>2
  <2> QED  BY <1>2, <2>1, <2>3, <2>4, <2>5, <2>6 DEF MarkFollows
<1> QED  BY <1>3, <1>4 DEF NamedInv

LEMMA HandleTrayInv ==
  ASSUME NamedInv, Prof!HandleTray  PROVE NamedInv'
<1> DEFINE at == Prof!IndexIn(Prof!NamesOf(list), current)
<1>1. /\ list \in Seq(Row) /\ Stands(list, current) /\ menu \in Seq(AllNames)
      /\ at \in 1..Len(list) /\ Prof!NamesOf(list)[at] = current /\ at # 0
      /\ Prof!NamesOf(list) \in Seq(AllNames) /\ Len(Prof!NamesOf(list)) = Len(list)
      /\ \A i \in 1..Len(list) : Prof!NamesOf(list)[i] = list[i].name
  BY FoundIn, NamesType DEF NamedInv, Stands, MenuFollows
<1>2. /\ marked \in 1..Len(menu) /\ clicks \in Seq(Nat)
      /\ \A i \in 1..Len(clicks) : clicks[i] \in Nat \ {0}
  BY DEF NamedInv, MarkFollows
<1> HIDE DEF at
<1>3. menu' = Prof!NamesOf(list) /\ synced' = <<Len(list), current>>
  BY DEF Prof!HandleTray, Prof!MenuIsOld, NamedInv, MenuFollows
<1>4. UNCHANGED <<list, written, crossed>> /\ drawing' = TRUE
  BY DEF Prof!HandleTray
<1>5. \/ marked' = at
      \/ marked' = marked /\ menu' = menu /\ current = synced[2]
  BY <1>1, <1>3 DEF Prof!HandleTray, at, Prof!MenuIsOld
<1>6. \/ clicks = <<>> /\ UNCHANGED <<clicks, current, asks, unapplied>>
      \/ /\ clicks # <<>> /\ clicks' = Tail(clicks)
         /\ \/ /\ clicks[1] \in 1..Len(list) /\ current' = list[clicks[1]].name
               /\ asks' = list[clicks[1]]
            \/ clicks[1] \notin 1..Len(list) /\ UNCHANGED <<current, asks, unapplied>>
  <2>1. CASE clicks = <<>>
    BY <2>1 DEF Prof!HandleTray
  <2>2. CASE clicks # <<>>
    <3>1. Head(clicks) = clicks[1] /\ clicks[1] \in Nat \ {0} /\ Len(list) \in Nat
      BY <1>1, <1>2, <2>2
    <3> QED  BY <2>2, <3>1 DEF Prof!HandleTray, Prof!ApplyProfile
  <2> QED  BY <2>1, <2>2
<1>7. Stands(list', current') /\ Stands(written'.list, written'.current)
  BY <1>1, <1>4, <1>6 DEF NamedInv, Stands, Has
<1>8. WhatIsApplied'
  BY <1>4, <1>6 DEF NamedInv, WhatIsApplied
<1>9. MenuFollows'
  BY <1>1, <1>3, <1>4 DEF MenuFollows
<1>10. MarkFollows'
  <2>1. marked' \in 1..Len(menu')
    BY <1>1, <1>2, <1>3, <1>5
  <2>2. /\ clicks' \in Seq(Nat) /\ \A i \in 1..Len(clicks') : clicks'[i] \in Nat \ {0}
        /\ clicks' # <<>> => clicks'[Len(clicks')] = clicks[Len(clicks)]
    <3>1. CASE clicks = <<>>
      BY <1>2, <1>6, <3>1
    <3>2. CASE clicks # <<>>
      <4>1. clicks' = Tail(clicks)
        BY <1>6, <3>2
      <4>2. /\ Len(clicks) \in Nat \ {0} /\ clicks' \in Seq(Nat) /\ Len(clicks') = Len(clicks) - 1
            /\ \A i \in 1..Len(clicks) - 1 : clicks'[i] = clicks[i + 1]
        BY <1>2, <3>2, <4>1
      <4>3. \A i \in 1..Len(clicks) - 1 : i + 1 \in 1..Len(clicks)
        BY <4>2
      <4>4. ASSUME clicks' # <<>>  PROVE clicks'[Len(clicks')] = clicks[Len(clicks)]
        <5>1. Len(clicks) - 1 \in 1..Len(clicks) - 1 /\ (Len(clicks) - 1) + 1 = Len(clicks)
          BY <4>2, <4>4
        <5> QED  BY <4>2, <5>1
      <4> QED  BY <1>2, <4>2, <4>3, <4>4
    <3> QED  BY <3>1, <3>2
  <2>3. ASSUME ~crossed'
        PROVE  \/ menu'[marked'] = synced'[2]
               \/ clicks' # <<>> /\ marked' = clicks'[Len(clicks')]
               \/ menu'[marked'] = current'
    <3>1. CASE marked' = at
      BY <1>1, <1>3, <3>1
    <3>2. CASE marked' = marked /\ menu' = menu /\ current = synced[2]
      <4>1. CASE menu[marked] = current
        BY <1>3, <3>2, <4>1
      <4>2. CASE clicks # <<>> /\ marked = clicks[Len(clicks)] /\ clicks' # <<>>
        BY <2>2, <3>2, <4>2
      <4>3. CASE clicks # <<>> /\ marked = clicks[Len(clicks)] /\ clicks' = <<>>
        <5>1. Len(clicks) = 1
          <6>1. clicks # <<>> /\ clicks' = Tail(clicks)
            BY <1>6, <4>3
          <6>2. Len(clicks') = Len(clicks) - 1 /\ Len(clicks) \in Nat
            BY <1>2, <6>1
          <6>3. Len(clicks') = 0
            BY <4>3
          <6> QED  BY <6>2, <6>3
        <5>2. marked = clicks[1] /\ clicks[1] \in 1..Len(list)
          BY <1>1, <1>2, <1>3, <3>2, <4>3, <5>1
        <5>3. current' = list[marked].name
          BY <1>6, <4>3, <5>2
        <5> QED  BY <1>1, <1>3, <3>2, <5>2, <5>3
      <4> QED  BY <1>4, <2>3, <3>2, <4>1, <4>2, <4>3 DEF NamedInv, MarkFollows
    <3> QED  BY <1>5, <3>1, <3>2
  <2> QED  BY <1>4, <2>1, <2>2, <2>3 DEF MarkFollows
<1> QED  BY <1>7, <1>8, <1>9, <1>10 DEF NamedInv

LEMMA RestartInv ==
  ASSUME NamedInv, Prof!Restart  PROVE NamedInv'
<1> DEFINE at == Prof!IndexIn(Prof!NamesOf(list'), current')
<1>1. list' = written.list /\ current' = written.current /\ written' = written
  BY DEF Prof!Restart
<1>2. Stands(list', current') /\ Stands(written'.list, written'.current)
  BY <1>1 DEF NamedInv
<1>3. /\ list' \in Seq(Row) /\ at \in 1..Len(list') /\ at # 0 /\ list'[at].name = current'
      /\ Prof!NamesOf(list')[at] = current' /\ Prof!NamesOf(list') \in Seq(AllNames)
      /\ Len(Prof!NamesOf(list')) = Len(list')
  <2>1. Has(list', current')
    BY <1>2 DEF Stands
  <2>2. at \in 1..Len(list') => at # 0
    OBVIOUS
  <2> QED  BY <1>2, <2>1, <2>2, FoundIn DEF Stands
<1>4. /\ asks' = list'[at] /\ menu' = Prof!NamesOf(list') /\ synced' = <<Len(list'), current'>>
      /\ clicks' = <<>> /\ drawing' = FALSE /\ marked' = at
  BY <1>3 DEF Prof!Restart
<1> HIDE DEF at
<1>5. WhatIsApplied'
  BY <1>3, <1>4 DEF WhatIsApplied
<1>6. MenuFollows'
  BY <1>3, <1>4 DEF MenuFollows
<1>7. MarkFollows'
  <2>1. clicks' \in Seq(Nat) /\ Len(clicks') = 0
    BY <1>4
  <2>4. drawing' \in BOOLEAN
    BY <1>4
  <2>2. marked' \in 1..Len(menu') /\ menu'[marked'] = synced'[2]
    BY <1>3, <1>4
  <2>3. \A i \in 1..Len(clicks') : clicks'[i] \in Nat \ {0}
    BY <2>1
  <2> QED  BY <2>1, <2>2, <2>3, <2>4, Zenon DEF MarkFollows
<1> QED  BY <1>2, <1>5, <1>6, <1>7 DEF NamedInv

\* Whatever is done is either saved, or counts as left unsaved.
LEMMA NextStartInv ==
  ASSUME FileIsWhole, Prof!NextStartAgrees, [Prof!Next]_(Prof!listVars)
  PROVE  FileIsWhole' /\ Prof!NextStartAgrees'
<1>1. ASSUME Prof!SaveProfiles  PROVE FileIsWhole' /\ Prof!NextStartAgrees'
  BY <1>1 DEF Prof!SaveProfiles, Prof!NextStartAgrees, FileIsWhole
<1>2. CASE Prof!Switch \/ Prof!ResetStandard \/ Prof!Delete \/ Prof!Create
  BY <1>1, <1>2 DEF Prof!Switch, Prof!ResetStandard, Prof!Delete, Prof!Create
<1>3. CASE Prof!Tune
  <2>1. Prof!SaveProfiles \/ (draft' = TRUE /\ written' = written)
    BY <1>3 DEF Prof!Tune
  <2> QED  BY <1>1, <2>1 DEF Prof!NextStartAgrees, FileIsWhole
<1>4. CASE Prof!Click \/ UNCHANGED Prof!listVars
  BY <1>4 DEF Prof!Click, Prof!listVars, Prof!NextStartAgrees, FileIsWhole
<1>5. CASE Prof!HandleTray
  <2>1. UNCHANGED <<list, written>> /\ (draft' = TRUE \/ UNCHANGED <<current, draft>>)
    BY <1>5 DEF Prof!HandleTray
  <2> QED  BY <2>1 DEF Prof!NextStartAgrees, FileIsWhole
<1>6. CASE Prof!Restart
  <2>1. list' = written.list /\ current' = written.current /\ written' = written
    BY <1>6 DEF Prof!Restart
  <2> QED  BY <2>1 DEF Prof!NextStartAgrees, FileIsWhole
<1> QED  BY <1>2, <1>3, <1>4, <1>5, <1>6 DEF Prof!Next

LEMMA ListNext ==
  ASSUME ListInv, [Prof!Next]_(Prof!listVars)  PROVE ListInv'
<1>1. FileIsWhole' /\ Prof!NextStartAgrees'
  BY NextStartInv DEF ListInv
<1>2. renamed => renamed'
  BY DEF Prof!Next, Prof!listVars, Prof!Switch, Prof!ResetStandard, Prof!Delete, Prof!Create, Prof!Tune, Prof!Click,
         Prof!HandleTray, Prof!Restart
<1>3. ASSUME ~renamed'  PROVE NamedInv'
  <2>1. NamedInv
    BY <1>2, <1>3 DEF ListInv
  <2>2. CASE UNCHANGED Prof!listVars
    BY <2>1, <2>2 DEF Prof!listVars, NamedInv, WhatIsApplied, MenuFollows, MarkFollows
  <2> QED  BY <1>3, <2>1, <2>2, SwitchInv, ResetStandardInv, DeleteInv, CreateInv, TuneInv, ClickInv,
              HandleTrayInv, RestartInv DEF Prof!Next
<1> QED  BY <1>1, <1>3 DEF ListInv

\* Whatever is created, deleted, reset, edited, chosen on a page or in the tray, saved or not, in
\* any order and with any restarts: a name stands for one profile, the hardware has the one shown
\* as the current one, the next start has what this process has unless a save failed or is still
\* to be made, and the tray offers the profiles that there are and marks the current one.
THEOREM PagesAndTrayAgree ==
  ASSUME NameBounds
  PROVE  Prof!Spec => []ProfilesAgree
<1>1. Prof!Init => ListInv
  BY ListInit
<1>2. ListInv /\ [Prof!Next]_(Prof!listVars) => ListInv'
  BY ListNext
<1>3. ASSUME ListInv  PROVE ProfilesAgree
  <2>1. Prof!NextStartAgrees
    BY <1>3 DEF ListInv
  <2>2. Prof!NamesStand
    BY <1>3 DEF ListInv, NamedInv, Stands, Distinct, Has, Prof!NamesStand
  <2>3. Prof!CurrentIsApplied
    <3> SUFFICES ASSUME NamedInv
                 PROVE  /\ asks.name = current
                        /\ ~unapplied => asks = list[Prof!IndexIn(Prof!NamesOf(list), current)]
      BY <1>3 DEF ListInv, Prof!CurrentIsApplied
    <3>1. ASSUME ~unapplied  PROVE asks = list[Prof!IndexIn(Prof!NamesOf(list), current)]
      <4>1. PICK i \in 1..Len(list) : list[i] = asks /\ list[i].name = current
        BY <3>1 DEF NamedInv, WhatIsApplied
      <4>2. Prof!IndexIn(Prof!NamesOf(list), current) = i
        BY <4>1, IndexOfName DEF NamedInv, Stands
      <4> QED  BY <4>1, <4>2
    <3> QED  BY <3>1 DEF NamedInv, WhatIsApplied
  <2>4. Prof!TrayAgrees
    BY <1>3 DEF ListInv, NamedInv, MenuFollows, MarkFollows, Prof!TrayAgrees
  <2> QED  BY <2>1, <2>2, <2>3, <2>4 DEF ProfilesAgree
<1> QED  BY <1>1, <1>2, <1>3, PTL DEF Prof!Spec

-----------------------------------------------------------------------------
(* The tuning page.                                                         *)

Words == {"performance", "powersave", "active", "passive", "auto", "full", "single", "zones", "wave"}

\* None is no value.
NoneIsNone == Nothing \notin Int /\ Nothing \notin Words /\ Nothing \notin Int \X Int

Parts == {"core", "clocks", "memory", "power", "fan", "keys", "pstate"}
Jobs(S) == [op : Parts \cup {"profile"}, v : S]
Posts(S) == [op : Parts, v : S]

\* The last word of a queue on a part: after it neither another call for it nor a profile, which
\* may give it anything or, when it is skipped, nothing.
Gives(c, r) == c.op \in {r, "profile"}
Silent(q, r) == \A i \in 1..Len(q) : ~Gives(q[i], r)
SetsTo(q, r, v) ==
  \E i \in 1..Len(q) :
    q[i].op = r /\ q[i].v = v /\ \A j \in 1..Len(q) : j > i => ~Gives(q[j], r)
ComesTo(h, q, r, v) == SetsTo(q, r, v) \/ (h[r] = v /\ Silent(q, r))

\* What a profile says of a part of the adapter, as apply_gpu_settings_on_save reads it.
Says(p, r) ==
  IF r = "clocks" THEN ~p.manual \/ IF p.advanced THEN p.advClocks # Nothing ELSE p.clocks # Nothing
  ELSE IF r = "memory" THEN ~p.manual \/ IF p.advanced THEN p.advMemory # Nothing ELSE p.memory # Nothing
  ELSE IF r = "core" THEN ~p.manual \/ (~p.advanced /\ p.core # Nothing)
  ELSE IF r = "power" THEN p.manual /\ p.power # Nothing
  ELSE p[r] # Nothing
Said(p, r) ==
  IF r = "clocks" THEN IF ~p.manual THEN Tune!Free ELSE IF p.advanced THEN p.advClocks ELSE p.clocks
  ELSE IF r = "memory" THEN IF ~p.manual THEN 0 ELSE IF p.advanced THEN p.advMemory ELSE p.memory
  ELSE IF r = "core" THEN IF ~p.manual THEN 0 ELSE p.core
  ELSE p[r]

\* The profile is still to come, and behind it all that it says of the adapter.
OnlyAdapter(q, i) == \A j \in 1..Len(q) : j > i => q[j].op \in Tune!OnAdapter
Due(q, p) ==
  /\ \E i \in 1..Len(q) : q[i].op = "profile" /\ q[i].v = p /\ OnlyAdapter(q, i)
  /\ \A r \in Tune!OnAdapter : Says(p, r) => SetsTo(q, r, Said(p, r))

\* It has come, or has been skipped, and what it says of the adapter is there or on its way.
Done(h, q, p) ==
  /\ OnlyAdapter(q, 0)
  /\ ~strayed => Tune!RestAgrees(h, p)
  /\ balked = "nothing" =>
       putOff = Nothing /\ \A r \in Tune!OnAdapter : Says(p, r) => ComesTo(h, q, r, Said(p, r))

\* After a Save nothing is on its way that its queue would not put right.
SaveComesTrue ==
  meant # Nothing /\ ~passed => posts = <<>> /\ (Due(jobs, meant) \/ Done(given, jobs, meant))

\* A profile that would be skipped is one that has been applied, and nothing of it deferred.
MarkerMeans == lastApplied # Nothing => putOff = Nothing /\ (~strayed => Tune!RestAgrees(given, lastApplied))

CallsType ==
  /\ given = [r \in Parts |-> given[r]]
  /\ \E S : jobs \in Seq(Jobs(S)) /\ posts \in Seq(Posts(S))

LEMMA SilentJoin ==
  ASSUME NEW S, NEW a \in Seq(S), NEW b \in Seq(S), NEW r, Silent(a, r), Silent(b, r)
  PROVE  Silent(a \o b, r)
<1>1. /\ Len(a) \in Nat /\ Len(b) \in Nat /\ Len(a \o b) = Len(a) + Len(b)
      /\ \A i \in 1..Len(a) + Len(b) : (a \o b)[i] = IF i <= Len(a) THEN a[i] ELSE b[i - Len(a)]
  BY ConcatProperties, LenProperties
<1>2. ASSUME NEW i \in 1..Len(a) + Len(b)  PROVE ~Gives((a \o b)[i], r)
  <2>1. CASE i <= Len(a)
    BY <1>1, <2>1 DEF Silent
  <2>2. CASE ~(i <= Len(a))
    <3>1. i - Len(a) \in 1..Len(b)
      BY <1>1, <2>2
    <3> QED  BY <1>1, <2>2, <3>1 DEF Silent
  <2> QED  BY <2>1, <2>2
<1> QED  BY <1>1, <1>2 DEF Silent

\* The last word counts: that of the second queue, or of the first if the second says nothing.
LEMMA SetsJoin ==
  ASSUME NEW S, NEW a \in Seq(S), NEW b \in Seq(S), NEW r, NEW v,
         SetsTo(b, r, v) \/ (SetsTo(a, r, v) /\ Silent(b, r))
  PROVE  SetsTo(a \o b, r, v)
<1>1. /\ Len(a) \in Nat /\ Len(b) \in Nat /\ Len(a \o b) = Len(a) + Len(b)
      /\ \A i \in 1..Len(a) + Len(b) : (a \o b)[i] = IF i <= Len(a) THEN a[i] ELSE b[i - Len(a)]
  BY ConcatProperties, LenProperties
<1>2. CASE SetsTo(b, r, v)
  <2>1. PICK i \in 1..Len(b) : b[i].op = r /\ b[i].v = v
                               /\ \A j \in 1..Len(b) : j > i => ~Gives(b[j], r)
    BY <1>2 DEF SetsTo
  <2>2. i + Len(a) \in 1..Len(a) + Len(b) /\ (a \o b)[i + Len(a)] = b[i]
    <3>1. i + Len(a) \in 1..Len(a) + Len(b) /\ ~(i + Len(a) <= Len(a)) /\ (i + Len(a)) - Len(a) = i
      BY <1>1
    <3> QED  BY <1>1, <3>1
  <2>3. ASSUME NEW j \in 1..Len(a) + Len(b), j > i + Len(a)  PROVE ~Gives((a \o b)[j], r)
    <3>1. ~(j <= Len(a)) /\ j - Len(a) \in 1..Len(b) /\ j - Len(a) > i
      BY <1>1, <2>3
    <3> QED  BY <1>1, <2>1, <3>1
  <2> QED  BY <1>1, <2>1, <2>2, <2>3 DEF SetsTo
<1>3. CASE SetsTo(a, r, v) /\ Silent(b, r)
  <2>1. PICK i \in 1..Len(a) : a[i].op = r /\ a[i].v = v
                               /\ \A j \in 1..Len(a) : j > i => ~Gives(a[j], r)
    BY <1>3 DEF SetsTo
  <2>2. i \in 1..Len(a) + Len(b) /\ (a \o b)[i] = a[i]
    BY <1>1
  <2>3. ASSUME NEW j \in 1..Len(a) + Len(b), j > i  PROVE ~Gives((a \o b)[j], r)
    <3>1. CASE j <= Len(a)
      BY <1>1, <2>1, <2>3, <3>1
    <3>2. CASE ~(j <= Len(a))
      <4>1. j - Len(a) \in 1..Len(b)
        BY <1>1, <3>2
      <4> QED  BY <1>1, <1>3, <3>2, <4>1 DEF Silent
    <3> QED  BY <3>1, <3>2
  <2> QED  BY <1>1, <2>1, <2>2, <2>3 DEF SetsTo
<1> QED  BY <1>2, <1>3

\* What Command queues: a call for its part, or nothing.
LEMMA CommandSets ==
  ASSUME NEW op \in Parts, NEW v, NEW S, v \in S
  PROVE  /\ Tune!Command(op, v) \in Seq(Jobs(S)) /\ Tune!Command(op, v) \in Seq(Posts(S))
         /\ \A r \in Parts : r # op => Silent(Tune!Command(op, v), r)
         /\ v # Nothing => SetsTo(Tune!Command(op, v), op, v)
<1>1. CASE v = Nothing
  <2>1. Tune!Command(op, v) = <<>>
    BY <1>1 DEF Tune!Command
  <2> QED  BY <1>1, <2>1 DEF Silent
<1>2. CASE v # Nothing
  <2>1. PICK c : c = [op |-> op, v |-> v]
    OBVIOUS
  <2>2. Tune!Command(op, v) = <<c>>
    BY <1>2, <2>1 DEF Tune!Command
  <2>3. c \in Jobs(S) /\ c \in Posts(S) /\ c.op = op /\ c.v = v /\ c.op # "profile"
    BY <2>1 DEF Jobs, Posts, Parts
  <2>4. \A r \in Parts : Gives(c, r) <=> op = r
    BY <2>3 DEF Gives
  <2>6. <<c>> \in Seq(Jobs(S)) /\ <<c>> \in Seq(Posts(S)) /\ Len(<<c>>) = 1 /\ <<c>>[1] = c
    BY <2>3
  <2>7. \A r \in Parts : r # op => Silent(<<c>>, r)
    BY <2>4, <2>6 DEF Silent
  <2>8. SetsTo(<<c>>, op, v)
    BY <2>3, <2>6 DEF SetsTo
  <2> QED  BY <2>2, <2>6, <2>7, <2>8
<1> QED  BY <1>1, <1>2

\* What Save queues behind the profile says what the profile says, and nothing of what is not the
\* adapter's.
LEMMA SaveQueues ==
  ASSUME NoneIsNone, NEW p, NEW S,
         {Tune!Free, 0, p.advClocks, p.advMemory, p.clocks, p.core, p.memory, p.power, p.fan} \subseteq S
  PROVE  /\ Tune!ApplyGpuOnSave(p) \in Seq(Jobs(S))
         /\ OnlyAdapter(Tune!ApplyGpuOnSave(p), 0)
         /\ \A r \in Tune!OnAdapter : Says(p, r) => SetsTo(Tune!ApplyGpuOnSave(p), r, Said(p, r))
<1> DEFINE C(op, v) == Tune!Command(op, v)
           free == C("clocks", Tune!Free) \o C("core", 0) \o C("memory", 0)
           advanced == C("clocks", p.advClocks) \o C("memory", p.advMemory)
           standard == C("clocks", p.clocks) \o C("core", p.core) \o C("memory", p.memory)
           chosen == IF p.advanced THEN advanced ELSE standard
           body == IF ~p.manual THEN free ELSE chosen \o C("power", p.power)
<1>0. PICK Q : Q = Seq(Jobs(S))
  OBVIOUS
<1>1. Tune!Free # Nothing /\ 0 # Nothing
  BY DEF NoneIsNone, Tune!Free
<1>2. ASSUME NEW op \in Parts, NEW v \in S
      PROVE  /\ C(op, v) \in Q /\ \A r \in Parts : r # op => Silent(C(op, v), r)
             /\ v # Nothing => SetsTo(C(op, v), op, v)
  BY <1>0, CommandSets
<1> HIDE DEF C
<1>3. ASSUME NEW a \in Q, NEW b \in Q
      PROVE  a \o b \in Q
  BY <1>0
<1>4. ASSUME NEW a \in Q, NEW b \in Q, NEW r, Silent(a, r), Silent(b, r)
      PROVE  Silent(a \o b, r)
  <2>1. PICK J : J = Jobs(S)
    OBVIOUS
  <2>2. a \in Seq(J) /\ b \in Seq(J)
    BY <1>0, <1>4, <2>1
  <2> QED  BY <1>4, <2>2, SilentJoin, Zenon
<1>5. ASSUME NEW a \in Q, NEW b \in Q, NEW r, NEW v,
             SetsTo(b, r, v) \/ (SetsTo(a, r, v) /\ Silent(b, r))
      PROVE  SetsTo(a \o b, r, v)
  <2>1. PICK J : J = Jobs(S)
    OBVIOUS
  <2>2. a \in Seq(J) /\ b \in Seq(J)
    BY <1>0, <1>5, <2>1
  <2> QED  BY <1>5, <2>2, SetsJoin, Zenon
<1>6. {"clocks", "core", "memory", "power", "fan", "keys", "pstate"} = Parts
  BY DEF Parts
<1>7. /\ free \in Q /\ \A r \in {"keys", "pstate", "power", "fan"} : Silent(free, r)
      /\ SetsTo(free, "clocks", Tune!Free) /\ SetsTo(free, "core", 0) /\ SetsTo(free, "memory", 0)
  <2> DEFINE a == C("clocks", Tune!Free)
             b == C("core", 0)
             c == C("memory", 0)
  <2>1. /\ a \in Q /\ b \in Q /\ c \in Q
        /\ \A r \in Parts : (r # "clocks" => Silent(a, r)) /\ (r # "core" => Silent(b, r)) /\ (r # "memory" => Silent(c, r))
        /\ SetsTo(a, "clocks", Tune!Free) /\ SetsTo(b, "core", 0) /\ SetsTo(c, "memory", 0)
    BY <1>1, <1>2, <1>6
  <2> HIDE DEF a, b, c
  <2>2. PICK ab : ab = a \o b
    OBVIOUS
  <2>3. /\ ab \in Q /\ SetsTo(ab, "clocks", Tune!Free) /\ SetsTo(ab, "core", 0)
        /\ \A r \in {"keys", "pstate", "power", "fan", "memory"} : Silent(ab, r)
    <3>1. ab \in Q /\ \A r \in {"keys", "pstate", "power", "fan", "memory"} : Silent(ab, r)
      BY <1>3, <1>4, <2>1, <2>2, <1>6
    <3>2. SetsTo(ab, "clocks", Tune!Free)
      BY <1>5, <2>1, <2>2, <1>6
    <3>3. SetsTo(ab, "core", 0)
      BY <1>5, <2>1, <2>2
    <3> QED  BY <3>1, <3>2, <3>3
  <2>4. /\ ab \o c \in Q /\ \A r \in {"keys", "pstate", "power", "fan"} : Silent(ab \o c, r)
        /\ SetsTo(ab \o c, "clocks", Tune!Free) /\ SetsTo(ab \o c, "core", 0) /\ SetsTo(ab \o c, "memory", 0)
    BY <1>3, <1>4, <1>5, <2>1, <2>3, <1>6
  <2>5. free = ab \o c
    BY <2>2 DEF a, b, c
  <2> QED  BY <2>4, <2>5
<1>8. /\ advanced \in Q /\ \A r \in {"keys", "pstate", "power", "fan", "core"} : Silent(advanced, r)
      /\ p.advClocks # Nothing => SetsTo(advanced, "clocks", p.advClocks)
      /\ p.advMemory # Nothing => SetsTo(advanced, "memory", p.advMemory)
  <2> DEFINE a == C("clocks", p.advClocks)
             b == C("memory", p.advMemory)
  <2>1. /\ a \in Q /\ b \in Q
        /\ \A r \in Parts : (r # "clocks" => Silent(a, r)) /\ (r # "memory" => Silent(b, r))
        /\ p.advClocks # Nothing => SetsTo(a, "clocks", p.advClocks)
        /\ p.advMemory # Nothing => SetsTo(b, "memory", p.advMemory)
    BY <1>2, <1>6
  <2> HIDE DEF a, b
  <2>2. /\ a \o b \in Q
        /\ \A r \in {"keys", "pstate", "power", "fan", "core"} : Silent(a \o b, r)
        /\ p.advClocks # Nothing => SetsTo(a \o b, "clocks", p.advClocks)
        /\ p.advMemory # Nothing => SetsTo(a \o b, "memory", p.advMemory)
    BY <1>3, <1>4, <1>5, <2>1, <1>6
  <2> QED  BY <2>2 DEF a, b
<1>9. /\ standard \in Q /\ \A r \in {"keys", "pstate", "power", "fan"} : Silent(standard, r)
      /\ p.clocks # Nothing => SetsTo(standard, "clocks", p.clocks)
      /\ p.core # Nothing => SetsTo(standard, "core", p.core)
      /\ p.memory # Nothing => SetsTo(standard, "memory", p.memory)
  <2> DEFINE a == C("clocks", p.clocks)
             b == C("core", p.core)
             c == C("memory", p.memory)
  <2>1. /\ a \in Q /\ b \in Q /\ c \in Q
        /\ \A r \in Parts : (r # "clocks" => Silent(a, r)) /\ (r # "core" => Silent(b, r)) /\ (r # "memory" => Silent(c, r))
        /\ p.clocks # Nothing => SetsTo(a, "clocks", p.clocks)
        /\ p.core # Nothing => SetsTo(b, "core", p.core)
        /\ p.memory # Nothing => SetsTo(c, "memory", p.memory)
    BY <1>2, <1>6
  <2> HIDE DEF a, b, c
  <2>2. PICK ab : ab = a \o b
    OBVIOUS
  <2>3. /\ ab \in Q /\ \A r \in {"keys", "pstate", "power", "fan", "memory"} : Silent(ab, r)
        /\ p.clocks # Nothing => SetsTo(ab, "clocks", p.clocks)
        /\ p.core # Nothing => SetsTo(ab, "core", p.core)
    BY <1>3, <1>4, <1>5, <2>1, <2>2, <1>6
  <2>4. /\ ab \o c \in Q /\ \A r \in {"keys", "pstate", "power", "fan"} : Silent(ab \o c, r)
        /\ p.clocks # Nothing => SetsTo(ab \o c, "clocks", p.clocks)
        /\ p.core # Nothing => SetsTo(ab \o c, "core", p.core)
        /\ p.memory # Nothing => SetsTo(ab \o c, "memory", p.memory)
    BY <1>3, <1>4, <1>5, <2>1, <2>3, <1>6
  <2>5. standard = ab \o c
    BY <2>2 DEF a, b, c
  <2> QED  BY <2>4, <2>5
<1> HIDE DEF free, advanced, standard
<1>10. /\ chosen \in Q /\ \A r \in {"keys", "pstate", "power", "fan"} : Silent(chosen, r)
       /\ \A r \in {"clocks", "core", "memory"} :
            p.manual /\ Says(p, r) => SetsTo(chosen, r, Said(p, r))
  BY <1>8, <1>9 DEF Says, Said
<1> HIDE DEF chosen
<1>11. /\ body \in Q /\ \A r \in {"keys", "pstate", "fan"} : Silent(body, r)
       /\ \A r \in {"clocks", "core", "memory", "power"} :
            Says(p, r) => SetsTo(body, r, Said(p, r))
  <2>1. CASE ~p.manual
    BY <1>7, <2>1 DEF Says, Said
  <2>2. CASE p.manual
    <3>1. PICK w : w = C("power", p.power)
      OBVIOUS
    <3>2. /\ w \in Q /\ \A r \in Parts : r # "power" => Silent(w, r)
          /\ p.power # Nothing => SetsTo(w, "power", p.power)
      BY <1>2, <1>6, <3>1
    <3>3. /\ chosen \o w \in Q /\ \A r \in {"keys", "pstate", "fan"} : Silent(chosen \o w, r)
          /\ p.power # Nothing => SetsTo(chosen \o w, "power", p.power)
      BY <1>3, <1>4, <1>5, <1>10, <3>2, <1>6
    <3>4. ASSUME NEW r \in {"clocks", "core", "memory"}, Says(p, r)
          PROVE  SetsTo(chosen \o w, r, Said(p, r))
      BY <1>5, <1>10, <2>2, <3>2, <3>4, <1>6
    <3>5. Says(p, "power") => p.power # Nothing /\ Said(p, "power") = p.power
      BY DEF Says, Said
    <3>6. body = chosen \o w
      BY <2>2, <3>1
    <3> QED  BY <3>3, <3>4, <3>5, <3>6
  <2> QED  BY <2>1, <2>2
<1>12. PICK f : f = C("fan", p.fan)
  OBVIOUS
<1>13. /\ f \in Q /\ \A r \in Parts : r # "fan" => Silent(f, r)
       /\ p.fan # Nothing => SetsTo(f, "fan", p.fan)
  BY <1>2, <1>6, <1>12
<1>14. Tune!ApplyGpuOnSave(p) = body \o f
  BY <1>12 DEF Tune!ApplyGpuOnSave, C, free, advanced, standard, chosen
<1> HIDE DEF body
<1>15. Says(p, "fan") => p.fan # Nothing /\ Said(p, "fan") = p.fan
  BY DEF Says, Said
<1>16. /\ body \o f \in Q /\ \A r \in {"keys", "pstate"} : Silent(body \o f, r)
       /\ Says(p, "fan") => SetsTo(body \o f, "fan", Said(p, "fan"))
  BY <1>3, <1>4, <1>5, <1>11, <1>13, <1>15, <1>6
<1>17. ASSUME NEW r \in {"clocks", "core", "memory", "power"}, Says(p, r)
       PROVE  SetsTo(body \o f, r, Said(p, r))
  <2>1. r \in Parts /\ r # "fan"
    BY <1>6
  <2>2. Silent(f, r) /\ SetsTo(body, r, Said(p, r))
    BY <1>11, <1>13, <1>17, <2>1
  <2> QED  BY <1>5, <1>11, <1>13, <2>2
<1>18. \A r \in Parts \ {"keys", "pstate"} : Says(p, r) => SetsTo(body \o f, r, Said(p, r))
  BY <1>6, <1>16, <1>17
<1>19. ASSUME NEW i \in 1..Len(body \o f)  PROVE (body \o f)[i].op \in Tune!OnAdapter
  <2>1. (body \o f)[i] \in Jobs(S)
    BY <1>0, <1>16
  <2>2. ~Gives((body \o f)[i], "keys") /\ ~Gives((body \o f)[i], "pstate")
    BY <1>16 DEF Silent
  <2> QED  BY <2>1, <2>2 DEF Jobs, Parts, Gives, Tune!OnAdapter
<1>20. Tune!OnAdapter \subseteq Parts \ {"keys", "pstate"}
  BY DEF Tune!OnAdapter, Parts
<1> QED  BY <1>0, <1>14, <1>16, <1>18, <1>19, <1>20 DEF OnlyAdapter

\* What is done of a profile that is not skipped: the adapter's part leaves the rest alone.
LEMMA ProfileGives ==
  ASSUME NEW h, h = [r \in Parts |-> h[r]], NEW p
  PROVE  /\ Tune!StepApplied(h, p) = [r \in Parts |-> Tune!StepApplied(h, p)[r]]
         /\ Tune!RestApplied(h, p) = [r \in Parts |-> Tune!RestApplied(h, p)[r]]
         /\ \A q : Tune!RestAgrees(h, q) => Tune!RestAgrees(Tune!StepApplied(h, p), q)
         /\ Tune!RestAgrees(Tune!RestApplied(h, p), p)
<1>1. PICK s : s = Tune!StepApplied(h, p)
  OBVIOUS
<1>2. s = [r \in Parts |-> s[r]] /\ s.keys = h.keys /\ s.pstate = h.pstate
  BY <1>1 DEF Tune!StepApplied, Parts
<1>3. PICK t : t = Tune!RestApplied(h, p)
  OBVIOUS
<1>4. /\ t = [r \in Parts |-> t[r]] /\ t.keys = (IF p.control THEN p.keys ELSE "single")
      /\ t.pstate = IF p.pstate = Nothing THEN h.pstate ELSE p.pstate
  BY <1>3 DEF Tune!RestApplied, Tune!Or, Parts
<1> QED  BY <1>1, <1>2, <1>3, <1>4 DEF Tune!RestAgrees

\* The rest of a queue.
LEMMA TailOf ==
  ASSUME NEW S, NEW q \in Seq(Jobs(S)), q # <<>>
  PROVE  /\ Len(q) \in Nat \ {0} /\ Tail(q) \in Seq(Jobs(S)) /\ Len(Tail(q)) = Len(q) - 1
         /\ Head(q) = q[1] /\ Head(q) \in Jobs(S) /\ \A i \in 1..Len(Tail(q)) : Tail(q)[i] = q[i + 1]
         /\ \A i \in 1..Len(q) : i # 1 => i - 1 \in 1..Len(Tail(q)) /\ q[i] = Tail(q)[i - 1]
<1>1. Len(q) \in Nat \ {0} /\ Tail(q) \in Seq(Jobs(S)) /\ Len(Tail(q)) = Len(q) - 1
      /\ Head(q) = q[1] /\ Head(q) \in Jobs(S) /\ \A i \in 1..Len(Tail(q)) : Tail(q)[i] = q[i + 1]
  BY HeadTailProperties
<1>2. ASSUME NEW i \in 1..Len(q), i # 1  PROVE i - 1 \in 1..Len(Tail(q)) /\ q[i] = Tail(q)[i - 1]
  <2>1. i - 1 \in 1..Len(Tail(q)) /\ (i - 1) + 1 = i
    BY <1>1, <1>2
  <2> QED  BY <1>1, <2>1
<1> QED  BY <1>1, <1>2

LEMMA TailKeeps ==
  ASSUME NEW S, NEW q \in Seq(Jobs(S)), q # <<>>, NEW r, NEW v
  PROVE  /\ Silent(q, r) => Silent(Tail(q), r)
         /\ SetsTo(q, r, v) => SetsTo(Tail(q), r, v) \/ (Head(q).op = r /\ Head(q).v = v /\ Silent(Tail(q), r))
         /\ \A i \in Nat : OnlyAdapter(q, i + 1) => OnlyAdapter(Tail(q), i)
<1>1. PICK t : t = Tail(q)
  OBVIOUS
<1>2. /\ Len(q) \in Nat \ {0} /\ Len(t) = Len(q) - 1 /\ Head(q) = q[1]
      /\ \A i \in 1..Len(t) : i + 1 \in 1..Len(q) /\ t[i] = q[i + 1]
      /\ \A i \in 1..Len(q) : i # 1 => i - 1 \in 1..Len(t) /\ q[i] = t[i - 1]
  BY <1>1, TailOf
<1>3. Silent(q, r) => Silent(t, r)
  BY <1>2 DEF Silent
<1>4. ASSUME SetsTo(q, r, v)  PROVE SetsTo(t, r, v) \/ (q[1].op = r /\ q[1].v = v /\ Silent(t, r))
  <2>1. PICK i \in 1..Len(q) : q[i].op = r /\ q[i].v = v /\ \A j \in 1..Len(q) : j > i => ~Gives(q[j], r)
    BY <1>4 DEF SetsTo
  <2>2. ASSUME NEW j \in 1..Len(t), j + 1 > i  PROVE ~Gives(t[j], r)
    BY <1>2, <2>1, <2>2
  <2>3. CASE i = 1
    BY <2>1, <2>2, <2>3 DEF Silent
  <2>4. CASE i # 1
    <3>1. i - 1 \in 1..Len(t) /\ q[i] = t[i - 1]
      BY <1>2, <2>4
    <3>2. ASSUME NEW j \in 1..Len(t), j > i - 1  PROVE ~Gives(t[j], r)
      BY <2>2, <3>2
    <3> QED  BY <2>1, <3>1, <3>2 DEF SetsTo
  <2> QED  BY <2>3, <2>4
<1>5. ASSUME NEW i \in Nat, OnlyAdapter(q, i + 1)  PROVE OnlyAdapter(t, i)
  <2> SUFFICES ASSUME NEW j \in 1..Len(t), j > i  PROVE t[j].op \in Tune!OnAdapter
    BY DEF OnlyAdapter
  <2>1. j + 1 \in 1..Len(q) /\ t[j] = q[j + 1] /\ j + 1 > i + 1
    BY <1>2
  <2> QED  BY <1>5, <2>1 DEF OnlyAdapter
<1> QED  BY <1>1, <1>2, <1>3, <1>4, <1>5

\* One command is done.
LEMMA WorkDone ==
  ASSUME CallsType, SaveComesTrue, MarkerMeans, Tune!Work  PROVE CallsType' /\ SaveComesTrue' /\ MarkerMeans'
<1>1. PICK S : jobs \in Seq(Jobs(S)) /\ posts \in Seq(Posts(S))
  BY DEF CallsType
<1>2. PICK c : c = Head(jobs)
  OBVIOUS
<1>3. PICK q : q = Tail(jobs)
  OBVIOUS
<1>4. /\ jobs # <<>> /\ jobs' = q /\ UNCHANGED <<posts, meant, passed>>
      /\ IF c.op = "profile" THEN Tune!ApplyProfile(c.v) ELSE Tune!SetValue(c.op, c.v)
  BY <1>2, <1>3 DEF Tune!Work, Tune!Handled
<1>5. given = [r \in Parts |-> given[r]]
  BY DEF CallsType
<1>6. /\ Len(jobs) \in Nat \ {0} /\ q \in Seq(Jobs(S)) /\ Len(q) = Len(jobs) - 1 /\ c = jobs[1]
      /\ c \in Jobs(S) /\ 1 \in 1..Len(jobs)
      /\ \A i \in 1..Len(q) : i + 1 \in 1..Len(jobs) /\ q[i] = jobs[i + 1]
      /\ \A i \in 1..Len(jobs) : i # 1 => i - 1 \in 1..Len(q) /\ jobs[i] = q[i - 1]
  BY <1>1, <1>2, <1>3, <1>4, TailOf
<1>7. ASSUME NEW r, NEW v
      PROVE  /\ Silent(jobs, r) => Silent(q, r)
             /\ SetsTo(jobs, r, v) => SetsTo(q, r, v) \/ (c.op = r /\ c.v = v /\ Silent(q, r))
  BY <1>1, <1>2, <1>3, <1>4, TailKeeps
<1>8. \A i \in Nat : OnlyAdapter(jobs, i + 1) => OnlyAdapter(q, i)
  BY <1>1, <1>3, <1>4, TailKeeps
<1>9. c.op = "profile" =>
        /\ given' = [r \in Parts |-> given'[r]] /\ MarkerMeans'
        /\ c.v # Nothing /\ ~strayed' => Tune!RestAgrees(given', c.v)
        /\ c.v # Nothing /\ balked' = "nothing" => putOff' = Nothing
  <2> SUFFICES ASSUME c.op = "profile"
               PROVE  /\ given' = [r \in Parts |-> given'[r]] /\ MarkerMeans'
                      /\ c.v # Nothing /\ ~strayed' => Tune!RestAgrees(given', c.v)
                      /\ c.v # Nothing /\ balked' = "nothing" => putOff' = Nothing
    OBVIOUS
  <2>1. PICK p : p = c.v
    OBVIOUS
  <2>2. PICK rest : rest = Tune!RestApplied(given, p)
    OBVIOUS
  <2>3. rest = [r \in Parts |-> rest[r]] /\ Tune!RestAgrees(rest, p)
    BY <1>5, <2>2, ProfileGives
  <2>4. PICK all : all = Tune!StepApplied(rest, p)
    OBVIOUS
  <2>5. all = [r \in Parts |-> all[r]] /\ Tune!RestAgrees(all, p)
    BY <2>3, <2>4, ProfileGives
  <2>6. CASE p = lastApplied /\ UNCHANGED <<given, putOff, lastApplied, strayed>>
    BY <1>5, <2>1, <2>6 DEF MarkerMeans, Tune!RestAgrees
  <2>7. CASE given' = all /\ putOff' = Nothing /\ lastApplied' = p
    BY <2>1, <2>5, <2>7 DEF MarkerMeans
  <2>8. CASE given' = rest /\ lastApplied' = Nothing /\ balked' = "step"
    BY <2>1, <2>3, <2>8 DEF MarkerMeans
  <2> QED  BY <1>4, <2>1, <2>2, <2>4, <2>6, <2>7, <2>8 DEF Tune!ApplyProfile
<1>10. c.op # "profile" =>
         /\ c.op \in Parts /\ UNCHANGED <<putOff, lastApplied>> /\ strayed' = (strayed \/ c.op \notin Tune!OnAdapter)
         /\ \/ given' = [given EXCEPT ![c.op] = c.v] /\ UNCHANGED balked
            \/ c.op \in Tune!OnAdapter /\ balked' = "value" /\ UNCHANGED given
  BY <1>4, <1>6 DEF Tune!SetValue, Jobs
<1>11. c.op # "profile" => given' = [r \in Parts |-> given'[r]]
  BY <1>5, <1>10
<1>12. c.op \in Tune!OnAdapter => given'.keys = given.keys /\ given'.pstate = given.pstate
  <2>1. c.op \in Tune!OnAdapter => c.op \notin {"keys", "pstate", "profile"} /\ "keys" \in Parts /\ "pstate" \in Parts
    BY DEF Tune!OnAdapter, Parts
  <2> QED  BY <1>5, <1>10, <2>1
<1>13. \A p : c.op # "profile" /\ (~strayed => Tune!RestAgrees(given, p)) /\ ~strayed' => Tune!RestAgrees(given', p)
  BY <1>10, <1>12 DEF Tune!RestAgrees
<1>14. CallsType'
  BY <1>1, <1>4, <1>6, <1>9, <1>11 DEF CallsType
<1>15. MarkerMeans'
  <2>1. CASE c.op # "profile"
    BY <1>10, <1>13, <2>1 DEF MarkerMeans
  <2> QED  BY <1>9, <2>1
<1>16. ASSUME meant # Nothing, ~passed  PROVE Due(q, meant) \/ Done(given, q, meant)'
  <2>1. PICK p : p = meant /\ p # Nothing
    BY <1>16
  <2>2. CASE Due(jobs, p)
    <3>1. PICK i \in 1..Len(jobs) : jobs[i].op = "profile" /\ jobs[i].v = p /\ OnlyAdapter(jobs, i)
      BY <2>2 DEF Due
    <3>2. ASSUME NEW r \in Tune!OnAdapter, Says(p, r)  PROVE SetsTo(q, r, Said(p, r))
      <4>1. SetsTo(jobs, r, Said(p, r)) /\ r # "profile"
        BY <2>2, <3>2 DEF Due, Tune!OnAdapter
      <4>2. ~(c.op = r /\ Silent(q, r))
        <5>1. CASE i = 1
          BY <1>6, <3>1, <4>1, <5>1
        <5>2. CASE i # 1
          BY <1>6, <3>1, <5>2 DEF Silent, Gives
        <5> QED  BY <5>1, <5>2
      <4>3. PICK v : v = Said(p, r)
        OBVIOUS
      <4>4. SetsTo(q, r, v) \/ (c.op = r /\ c.v = v /\ Silent(q, r))
        BY <1>7, <4>1, <4>3
      <4> QED  BY <4>2, <4>3, <4>4
    <3>3. CASE i = 1
      <4>1. c.op = "profile" /\ c.v = p
        BY <1>6, <3>1, <3>3
      <4>2. OnlyAdapter(q, 0)
        BY <1>8, <3>1, <3>3
      <4> QED  BY <1>9, <1>4, <2>1, <3>2, <4>1, <4>2 DEF Done, ComesTo
    <3>4. CASE i # 1
      <4>1. i - 1 \in 1..Len(q) /\ jobs[i] = q[i - 1] /\ i - 1 \in Nat /\ (i - 1) + 1 = i
        BY <1>6, <3>4
      <4>2. OnlyAdapter(q, i - 1)
        BY <1>8, <3>1, <4>1
      <4> QED  BY <2>1, <3>1, <3>2, <4>1, <4>2 DEF Due
    <3> QED  BY <3>3, <3>4
  <2>3. CASE Done(given, jobs, p)
    <3>1. c.op \in Tune!OnAdapter /\ c.op # "profile" /\ OnlyAdapter(q, 0)
      <4>1. c.op \in Tune!OnAdapter /\ OnlyAdapter(jobs, 0 + 1)
        BY <1>6, <2>3 DEF Done, OnlyAdapter
      <4> QED  BY <1>8, <4>1 DEF Tune!OnAdapter
    <3>2. ~strayed' => Tune!RestAgrees(given', p)
      BY <1>13, <2>3, <3>1 DEF Done
    <3>3. ASSUME balked' = "nothing"
          PROVE  putOff' = Nothing /\ \A r \in Tune!OnAdapter : Says(p, r) => ComesTo(given', q, r, Said(p, r))
      <4>1. balked = "nothing" /\ given' = [given EXCEPT ![c.op] = c.v] /\ UNCHANGED putOff
        BY <1>10, <3>1, <3>3
      <4>2. ASSUME NEW r \in Tune!OnAdapter, Says(p, r)  PROVE ComesTo(given', q, r, Said(p, r))
        <5>1. ComesTo(given, jobs, r, Said(p, r)) /\ r \in Parts
          BY <2>3, <4>1, <4>2 DEF Done, Tune!OnAdapter, Parts
        <5>2. CASE SetsTo(jobs, r, Said(p, r))
          <6>1. PICK v : v = Said(p, r)
            OBVIOUS
          <6>2. SetsTo(q, r, v) \/ (c.op = r /\ c.v = v /\ Silent(q, r))
            BY <1>7, <5>2, <6>1
          <6>3. c.op = r /\ c.v = v => given'[r] = v
            BY <1>5, <4>1, <5>1
          <6> QED  BY <6>1, <6>2, <6>3 DEF ComesTo
        <5>3. CASE given[r] = Said(p, r) /\ Silent(jobs, r)
          <6>1. c.op # r
            BY <1>6, <5>3 DEF Silent, Gives
          <6>2. given'[r] = given[r]
            BY <1>5, <4>1, <5>1, <6>1
          <6>3. Silent(q, r)
            BY <1>7, <5>3
          <6> QED  BY <5>3, <6>2, <6>3 DEF ComesTo
        <5> QED  BY <5>1, <5>2, <5>3 DEF ComesTo
      <4> QED  BY <2>3, <4>1, <4>2 DEF Done
    <3> QED  BY <1>4, <2>1, <3>1, <3>2, <3>3 DEF Done
  <2> QED  BY <1>16, <2>1, <2>2, <2>3 DEF SaveComesTrue
<1> QED  BY <1>4, <1>14, <1>15, <1>16 DEF SaveComesTrue

LEMMA SavedComesTrue ==
  ASSUME NoneIsNone, NEW S, jobs \in Seq(Jobs(S)), NEW p, NEW q,
         q = Append(jobs, [op |-> "profile", v |-> p]) \o Tune!ApplyGpuOnSave(p)
  PROVE  (\E V : S \subseteq V /\ q \in Seq(Jobs(V))) /\ Due(q, p)
<1>1. PICK V : V = S \cup {p, Tune!Free, 0, p.advClocks, p.advMemory, p.clocks, p.core, p.memory,
                           p.power, p.fan}
  OBVIOUS
<1>2. PICK J : J = Jobs(V)
  OBVIOUS
<1>3. PICK c : c = [op |-> "profile", v |-> p]
  OBVIOUS
<1>4. PICK g : g = Tune!ApplyGpuOnSave(p)
  OBVIOUS
<1>5. /\ g \in Seq(J) /\ OnlyAdapter(g, 0)
      /\ \A r \in Tune!OnAdapter : Says(p, r) => SetsTo(g, r, Said(p, r))
  BY <1>1, <1>2, <1>4, SaveQueues
<1>6. S \subseteq V /\ c \in J /\ c.op = "profile" /\ c.v = p
  BY <1>1, <1>2, <1>3 DEF Jobs
<1>7. jobs \in Seq(J)
  <2>1. Jobs(S) \subseteq J
    BY <1>1, <1>2 DEF Jobs
  <2> QED  BY <2>1, SeqMonotonic
<1>8. PICK a : a = Append(jobs, c)
  OBVIOUS
<1>9. a \in Seq(J) /\ Len(a) \in Nat \ {0} /\ a[Len(a)] = c
  BY <1>6, <1>7, <1>8, AppendProperties
<1>10. q = a \o g
  BY <1>3, <1>4, <1>8
<1>11. /\ q \in Seq(J) /\ Len(g) \in Nat /\ Len(q) = Len(a) + Len(g)
       /\ \A i \in 1..Len(a) + Len(g) : q[i] = IF i <= Len(a) THEN a[i] ELSE g[i - Len(a)]
  BY <1>5, <1>9, <1>10, ConcatProperties, LenProperties
<1>12. Len(a) \in 1..Len(q) /\ q[Len(a)] = c
  <2>1. Len(a) \in 1..Len(a) + Len(g) /\ Len(a) <= Len(a)
    BY <1>9, <1>11
  <2> QED  BY <1>9, <1>11, <2>1
<1>13. OnlyAdapter(q, Len(a))
  <2> SUFFICES ASSUME NEW j \in 1..Len(q), j > Len(a)  PROVE q[j].op \in Tune!OnAdapter
    BY DEF OnlyAdapter
  <2>1. j \in 1..Len(a) + Len(g) /\ ~(j <= Len(a)) /\ j - Len(a) \in 1..Len(g) /\ j - Len(a) > 0
    BY <1>9, <1>11
  <2>2. q[j] = g[j - Len(a)]
    BY <1>11, <2>1
  <2> QED  BY <1>5, <2>1, <2>2 DEF OnlyAdapter
<1>14. ASSUME NEW r \in Tune!OnAdapter, Says(p, r)  PROVE SetsTo(q, r, Said(p, r))
  <2>1. SetsTo(g, r, Said(p, r))
    BY <1>5, <1>14
  <2> QED  BY <1>5, <1>9, <1>10, <2>1, SetsJoin, Zenon
<1> QED  BY <1>2, <1>6, <1>11, <1>12, <1>13, <1>14 DEF Due

CallsInv == CallsType /\ SaveComesTrue /\ MarkerMeans

LEMMA CallsInit == Tune!Init => CallsInv
<1> SUFFICES ASSUME Tune!Init  PROVE CallsInv
  OBVIOUS
<1>1. given = [r \in Parts |-> given[r]]
  BY DEF Tune!Init, Parts
<1>2. jobs \in Seq(Jobs({})) /\ posts \in Seq(Posts({}))
  BY DEF Tune!Init
<1> QED  BY <1>1, <1>2 DEF Tune!Init, CallsInv, CallsType, SaveComesTrue, MarkerMeans

\* Calls of one kind are calls of a larger one.
LEMMA MoreCalls ==
  ASSUME NEW S, NEW V, S \subseteq V
  PROVE  /\ \A q \in Seq(Jobs(S)) : q \in Seq(Jobs(V))
         /\ \A q \in Seq(Posts(S)) : q \in Seq(Posts(V))
<1>1. Jobs(S) \subseteq Jobs(V) /\ Posts(S) \subseteq Posts(V)
  BY DEF Jobs, Posts
<1> QED  BY <1>1, SeqMonotonic

LEMMA CommandQueued ==
  ASSUME NEW op \in Parts, NEW v, NEW S
  PROVE  \E V : /\ S \subseteq V
                /\ \A q \in Seq(Jobs(S)) : q \in Seq(Jobs(V)) /\ q \o Tune!Command(op, v) \in Seq(Jobs(V))
                /\ \A q \in Seq(Posts(S)) : q \in Seq(Posts(V)) /\ q \o Tune!Command(op, v) \in Seq(Posts(V))
<1>1. PICK V : V = S \cup {v}
  OBVIOUS
<1>2. S \subseteq V /\ v \in V
  BY <1>1
<1>3. PICK w : w = Tune!Command(op, v)
  OBVIOUS
<1>4. w \in Seq(Jobs(V)) /\ w \in Seq(Posts(V))
  BY <1>2, <1>3, CommandSets
<1>5. \A q \in Seq(Jobs(S)) : q \in Seq(Jobs(V)) /\ q \o w \in Seq(Jobs(V))
  BY <1>2, <1>4, MoreCalls, ConcatProperties
<1>6. \A q \in Seq(Posts(S)) : q \in Seq(Posts(V)) /\ q \o w \in Seq(Posts(V))
  BY <1>2, <1>4, MoreCalls, ConcatProperties
<1> QED  BY <1>2, <1>3, <1>5, <1>6

\* A step that sends nothing and changes no register.
DaemonStill == UNCHANGED <<given, putOff, lastApplied, balked, strayed>>
Still == UNCHANGED <<posts, jobs, meant, passed>> /\ DaemonStill

LEMMA CallsNext ==
  ASSUME NoneIsNone, CallsInv, [Tune!Next]_(Tune!tuningVars)
  PROVE  CallsInv'
<1>1. PICK S : jobs \in Seq(Jobs(S)) /\ posts \in Seq(Posts(S))
  BY DEF CallsInv, CallsType
<1>2. given = [r \in Parts |-> given[r]] /\ SaveComesTrue /\ MarkerMeans
  BY DEF CallsInv, CallsType
<1>3. ASSUME Still  PROVE CallsInv'
  BY <1>1, <1>2, <1>3 DEF Still, DaemonStill, CallsInv, CallsType, SaveComesTrue, Done, MarkerMeans
<1>4. ASSUME DaemonStill, meant' = Nothing, NEW V, jobs' \in Seq(Jobs(V)), posts' \in Seq(Posts(V))
      PROVE  CallsInv'
  BY <1>2, <1>4 DEF DaemonStill, CallsInv, CallsType, SaveComesTrue, MarkerMeans
<1>5. CASE UNCHANGED Tune!tuningVars
  BY <1>3, <1>5 DEF Tune!tuningVars, Tune!daemonVars, Still, DaemonStill
<1>6. CASE Tune!Learn
  BY <1>3, <1>6 DEF Tune!Learn, Tune!daemonVars, Still, DaemonStill
<1>7. CASE Tune!Draw
  BY <1>3, <1>7 DEF Tune!Draw, Tune!daemonVars, Still, DaemonStill
<1>8. CASE Tune!Change
  BY <1>3, <1>8 DEF Tune!Change, Tune!Quietly, Tune!daemonVars, Still, DaemonStill
<1>9. CASE Tune!Keyboard
  BY <1>3, <1>9 DEF Tune!Keyboard, Tune!Quietly, Tune!daemonVars, Still, DaemonStill
<1>10. CASE Tune!Reset
  BY <1>3, <1>10 DEF Tune!Reset, Tune!Quietly, Tune!daemonVars, Still, DaemonStill
<1>11. CASE Tune!Preview
  <2>1. jobs' = jobs \o Tune!Command("keys", tuned.keys) /\ meant' = Nothing /\ UNCHANGED posts /\ DaemonStill
    BY <1>11 DEF Tune!Preview, Tune!daemonVars, DaemonStill
  <2>2. PICK k : k = "keys" /\ k \in Parts
    BY DEF Parts
  <2>3. PICK V : /\ \A q \in Seq(Jobs(S)) : q \o Tune!Command(k, tuned.keys) \in Seq(Jobs(V))
                 /\ \A q \in Seq(Posts(S)) : q \in Seq(Posts(V))
    BY <2>2, CommandQueued
  <2>4. jobs' \in Seq(Jobs(V)) /\ posts' \in Seq(Posts(V))
    BY <1>1, <2>1, <2>2, <2>3
  <2> QED  BY <1>4, <2>1, <2>4
<1>12. ASSUME NEW op \in Parts, NEW v, posts' = posts \o Tune!Command(op, v), meant' = Nothing,
              UNCHANGED jobs, DaemonStill
       PROVE  CallsInv'
  <2>1. PICK V : /\ \A q \in Seq(Jobs(S)) : q \in Seq(Jobs(V))
                 /\ \A q \in Seq(Posts(S)) : q \o Tune!Command(op, v) \in Seq(Posts(V))
    BY CommandQueued
  <2>2. jobs' \in Seq(Jobs(V)) /\ posts' \in Seq(Posts(V))
    BY <1>1, <1>12, <2>1
  <2> QED  BY <1>4, <1>12, <2>2
<1>13. CASE Tune!SwitchMode
  <2>1. PICK m : posts' = posts \o Tune!Command("pstate", m)
    BY <1>13 DEF Tune!SwitchMode, Tune!daemonVars, DaemonStill
  <2>2. "pstate" \in Parts /\ meant' = Nothing /\ UNCHANGED jobs /\ DaemonStill
    BY <1>13 DEF Tune!SwitchMode, Tune!daemonVars, DaemonStill, Parts
  <2> QED  BY <1>12, <2>1, <2>2
<1>14. CASE Tune!Slide
  <2>1. PICK p, d : /\ d \in {<<"core", "core">>, <<"clocks", "clocks">>, <<"clocks", "advClocks">>,
                               <<"memory", "memory">>, <<"memory", "advMemory">>, <<"power", "power">>}
                    /\ posts' = posts \o Tune!Command(d[1], p[d[2]])
    BY <1>14, Zenon DEF Tune!Slide, Tune!daemonVars, DaemonStill
  <2>2. d[1] \in Parts
    BY <2>1 DEF Parts
  <2>3. meant' = Nothing /\ UNCHANGED jobs /\ DaemonStill
    BY <1>14 DEF Tune!Slide, Tune!daemonVars, DaemonStill
  <2> QED  BY <1>12, <2>1, <2>2, <2>3
<1>15. CASE Tune!Save
  <2>1. /\ jobs' = Append(jobs, [op |-> "profile", v |-> tuned]) \o Tune!ApplyGpuOnSave(tuned)
        /\ meant' = tuned /\ passed' = (passed \/ posts # <<>>) /\ UNCHANGED posts /\ DaemonStill
    BY <1>15 DEF Tune!Save, Tune!daemonVars, DaemonStill
  <2>2. (\E V : S \subseteq V /\ jobs' \in Seq(Jobs(V))) /\ Due(jobs', tuned)
    BY <1>1, <2>1, SavedComesTrue
  <2>3. CallsType'
    <3>1. PICK V : S \subseteq V /\ jobs' \in Seq(Jobs(V))
      BY <2>2
    <3>2. posts' \in Seq(Posts(V))
      BY <1>1, <2>1, <3>1, MoreCalls
    <3> QED  BY <1>2, <2>1, <3>1, <3>2 DEF CallsType, DaemonStill
  <2>4. SaveComesTrue'
    BY <2>1, <2>2 DEF SaveComesTrue
  <2>5. MarkerMeans'
    BY <1>2, <2>1 DEF MarkerMeans, DaemonStill
  <2> QED  BY <2>3, <2>4, <2>5 DEF CallsInv
<1>16. CASE Tune!Reapply
  <2>1. jobs' = Append(jobs, [op |-> "profile", v |-> stowed]) /\ meant' = Nothing /\ UNCHANGED posts /\ DaemonStill
    BY <1>16 DEF Tune!Reapply, Tune!daemonVars, DaemonStill
  <2>2. PICK V : V = S \cup {stowed}
    OBVIOUS
  <2>3. [op |-> "profile", v |-> stowed] \in Jobs(V) /\ S \subseteq V
    BY <2>2 DEF Jobs
  <2>4. jobs \in Seq(Jobs(V)) /\ posts \in Seq(Posts(V))
    BY <1>1, <2>3, MoreCalls
  <2>5. jobs' \in Seq(Jobs(V)) /\ posts' \in Seq(Posts(V))
    BY <2>1, <2>3, <2>4, AppendProperties
  <2> QED  BY <1>4, <2>1, <2>5
<1>17. CASE Tune!Post
  <2>1. PICK i \in 1..Len(posts) : posts' = Tune!RemoveAt(posts, i) /\ jobs' = Append(jobs, posts[i])
    BY <1>17 DEF Tune!Post, Tune!daemonVars, DaemonStill
  <2>2. posts # <<>> /\ UNCHANGED <<meant, passed>> /\ DaemonStill
    BY <1>1, <1>17, <2>1 DEF Tune!Post, Tune!daemonVars, DaemonStill
  <2>3. posts' \in Seq(Posts(S))
    BY <1>1, <2>1 DEF Tune!RemoveAt
  <2>4. jobs' \in Seq(Jobs(S))
    <3>0. posts[i] \in Posts(S)
      BY <1>1, <2>1
    <3>1. posts[i] \in Jobs(S)
      BY <3>0 DEF Jobs, Posts
    <3> QED  BY <1>1, <2>1, <3>1, AppendProperties
  <2>5. SaveComesTrue'
    BY <1>2, <2>2 DEF SaveComesTrue
  <2> QED  BY <1>2, <2>2, <2>3, <2>4, <2>5 DEF CallsInv, CallsType, DaemonStill, MarkerMeans
<1>18. CASE Tune!Work
  BY <1>18, WorkDone DEF CallsInv
<1>19. CASE Tune!ApplyPending
  <2>1. PICK h : h = Tune!StepApplied(given, putOff)
    OBVIOUS
  <2>2. /\ putOff # Nothing /\ given' = h /\ putOff' = Nothing
        /\ UNCHANGED <<posts, jobs, meant, passed, lastApplied, balked, strayed>>
    BY <1>19, <2>1 DEF Tune!ApplyPending
  <2>3. h = [r \in Parts |-> h[r]] /\ \A q : Tune!RestAgrees(given, q) => Tune!RestAgrees(h, q)
    BY <1>2, <2>1, ProfileGives
  <2>4. CallsType'
    BY <1>1, <2>2, <2>3 DEF CallsType
  <2>5. MarkerMeans'
    BY <1>2, <2>2 DEF MarkerMeans
  <2>6. Done(given, jobs, meant) => Done(given, jobs, meant)'
    BY <2>2, <2>3 DEF Done
  <2> QED  BY <1>2, <2>2, <2>4, <2>5, <2>6 DEF CallsInv, SaveComesTrue
<1> QED  BY <1>5, <1>6, <1>7, <1>8, <1>9, <1>10, <1>11, <1>13, <1>14, <1>15, <1>16, <1>17, <1>18, <1>19
         DEF Tune!Next

LEMMA SaidIsDone ==
  ASSUME CallsInv  PROVE Tune!SaveMeansIt
<1> SUFFICES ASSUME jobs = <<>>, posts = <<>>, meant # Nothing, ~passed
             PROVE  /\ balked = "nothing" => putOff = Nothing /\ Tune!AdapterAgrees(given, meant)
                    /\ ~strayed => Tune!RestAgrees(given, meant)
  BY DEF Tune!SaveMeansIt, Tune!Quiet
<1>1. ~Due(jobs, meant)
  BY DEF Due
<1>2. Done(given, jobs, meant)
  BY <1>1 DEF CallsInv, SaveComesTrue
<1>3. ASSUME balked = "nothing"  PROVE Tune!AdapterAgrees(given, meant)
  <2>1. \A r \in Tune!OnAdapter : Says(meant, r) => given[r] = Said(meant, r)
    BY <1>2, <1>3 DEF Done, ComesTo, SetsTo
  <2>2. PICK p : p = meant
    OBVIOUS
  <2>3. p["power"] = p.power /\ p["fan"] = p.fan
    OBVIOUS
  <2>4. /\ Says(p, "clocks") => given.clocks = Said(p, "clocks")
        /\ Says(p, "core") => given.core = Said(p, "core")
        /\ Says(p, "memory") => given.memory = Said(p, "memory")
        /\ Says(p, "power") => given.power = p.power
        /\ Says(p, "fan") => given.fan = p.fan
    BY <2>1, <2>2, <2>3 DEF Said, Tune!OnAdapter
  <2> QED  BY <2>2, <2>4 DEF Says, Said, Tune!AdapterAgrees
<1> QED  BY <1>2, <1>3 DEF Done

Opt(S) == S \cup {Nothing}
Fields == {"governor", "pstate", "lo", "hi", "manual", "advanced", "core", "clocks", "memory",
           "advClocks", "advMemory", "power", "fan", "control", "keys", "custom", "curve"}
ProfileType(p) ==
  /\ p = [f \in Fields |-> p[f]]
  /\ {p.governor, p.pstate, p.fan} \subseteq Opt(Words) /\ p.keys \in Words
  /\ {p.lo, p.hi, p.core, p.memory, p.advMemory, p.power} \subseteq Opt(Int)
  /\ {p.clocks, p.advClocks} \subseteq Opt(Int \X Int)
  /\ {p.manual, p.advanced, p.control, p.custom} \subseteq BOOLEAN

\* No range of the profile is upside down.
Upright(c) == c = Nothing \/ c[1] <= c[2]
InOrder(p) == (p.lo # Nothing /\ p.hi # Nothing => p.lo <= p.hi) /\ Upright(p.clocks) /\ Upright(p.advClocks)
ReadingsType == limits \in {Nothing} \cup Tune!CpuLimits /\ range \in {Nothing, Tune!GpuRange}
PageInv ==
  /\ ProfileType(tuned) /\ InOrder(tuned) /\ ProfileType(stowed) /\ InOrder(stowed)
  /\ ReadingsType

\* What drawing the three parts of the page has no more to do about.
CpuFine(p) ==
  limits # Nothing => /\ p.governor # Nothing /\ p.pstate # Nothing
                /\ {p.lo, p.hi} \subseteq {Nothing} \cup limits[1]..limits[2]
GpuFine(p) ==
  range # Nothing /\ p.manual =>
    /\ p.fan # Nothing /\ p.power # Nothing
    /\ IF p.advanced THEN p.advClocks # Nothing /\ p.advMemory # Nothing
       ELSE p.core # Nothing /\ p.clocks # Nothing /\ p.memory # Nothing
FansFine(p) == p.custom /\ p.curve = <<>> => FirstCurve = <<>>

\* Nothing that the user has set is lost.
Keeps(p, q) == \A f \in DOMAIN p \ {"lo", "hi", "curve"} : p[f] # Nothing => q[f] = p[f]

LEMMA LimitsNormal ==
  ASSUME NoneIsNone, NEW lo \in Opt(Int), NEW hi \in Opt(Int), NEW l \in Tune!CpuLimits
  PROVE  /\ Tune!NormalLimits(lo, hi, l)[1] \in {Nothing} \cup l[1]..l[2]
         /\ Tune!NormalLimits(lo, hi, l)[2] \in {Nothing} \cup l[1]..l[2]
         /\ Tune!NormalLimits(lo, hi, l)[1] # Nothing /\ Tune!NormalLimits(lo, hi, l)[2] # Nothing
              => Tune!NormalLimits(lo, hi, l)[1] <= Tune!NormalLimits(lo, hi, l)[2]
         /\ {lo, hi} \subseteq {Nothing} \cup l[1]..l[2] /\ (lo # Nothing /\ hi # Nothing => lo <= hi)
              => Tune!NormalLimits(lo, hi, l)[1] = lo /\ Tune!NormalLimits(lo, hi, l)[2] = hi
<1>1. l[1] = 1 /\ l[2] \in {2, 3}
  BY DEF Tune!CpuLimits
<1> DEFINE clamp(v) == IF v = Nothing THEN Nothing
                       ELSE IF v < l[1] THEN l[1] ELSE IF v > l[2] THEN l[2] ELSE v
<1>2. PICK a, b : a = clamp(lo) /\ b = clamp(hi)
  OBVIOUS
<1>3. a \in {Nothing} \cup l[1]..l[2] /\ b \in {Nothing} \cup l[1]..l[2]
  BY <1>1, <1>2 DEF Opt, NoneIsNone
<1>4. {lo, hi} \subseteq {Nothing} \cup l[1]..l[2] => a = lo /\ b = hi
  BY <1>1, <1>2 DEF Opt, NoneIsNone
<1>5. Tune!NormalLimits(lo, hi, l) = <<a, IF a # Nothing /\ b # Nothing /\ a > b THEN a ELSE b>>
  BY <1>2 DEF Tune!NormalLimits
<1> QED  BY <1>1, <1>3, <1>4, <1>5 DEF NoneIsNone

LEMMA CpuDrawn ==
  ASSUME NoneIsNone, ReadingsType, NEW p, ProfileType(p), InOrder(p), NEW q, q = Tune!CpuShown(p)
  PROVE  /\ ProfileType(q) /\ InOrder(q) /\ CpuFine(q) /\ Keeps(p, q)
         /\ q.curve = p.curve /\ (CpuFine(p) => q = p)
<1>1. CASE limits = Nothing
  BY <1>1 DEF Tune!CpuShown, CpuFine, Keeps
<1>2. CASE limits # Nothing
  <2>1. limits \in Tune!CpuLimits /\ p.lo \in Opt(Int) /\ p.hi \in Opt(Int)
    BY <1>2 DEF ReadingsType, ProfileType, Fields
  <2>2. PICK n : n = Tune!NormalLimits(p.lo, p.hi, limits)
    OBVIOUS
  <2>3. /\ n[1] \in {Nothing} \cup limits[1]..limits[2] /\ n[2] \in {Nothing} \cup limits[1]..limits[2]
        /\ n[1] # Nothing /\ n[2] # Nothing => n[1] <= n[2]
        /\ {p.lo, p.hi} \subseteq {Nothing} \cup limits[1]..limits[2] => n[1] = p.lo /\ n[2] = p.hi
    BY <2>1, <2>2, LimitsNormal DEF InOrder
  <2>4. PICK g, m : g = Tune!Or(p.governor, "performance") /\ m = Tune!Or(p.pstate, "active")
    OBVIOUS
  <2>5. /\ g \in Words /\ m \in Words /\ (p.governor # Nothing => g = p.governor)
        /\ (p.pstate # Nothing => m = p.pstate)
    <3>1. p.governor \in Opt(Words) /\ p.pstate \in Opt(Words)
      BY DEF ProfileType, Fields
    <3>2. "performance" \in Words /\ "active" \in Words
      BY DEF Words
    <3> QED  BY <2>4, <3>1, <3>2 DEF Tune!Or, Opt
  <2>6. q = [p EXCEPT !.governor = g, !.pstate = m, !.lo = n[1], !.hi = n[2]]
    BY <1>2, <2>2, <2>4 DEF Tune!CpuShown
  <2>7. n[1] \in Opt(Int) /\ n[2] \in Opt(Int)
    <3>1. limits[1] = 1 /\ limits[2] \in {2, 3}
      BY <2>1 DEF Tune!CpuLimits
    <3> QED  BY <2>3, <3>1 DEF Opt
  <2>8. ProfileType(q) /\ q.curve = p.curve
    <3>1. q = [f \in Fields |-> q[f]]
      BY <2>6 DEF ProfileType
    <3>2. /\ q.governor = g /\ q.pstate = m /\ q.lo = n[1] /\ q.hi = n[2] /\ q.curve = p.curve
          /\ q.fan = p.fan /\ q.keys = p.keys /\ q.core = p.core /\ q.memory = p.memory
          /\ q.advMemory = p.advMemory /\ q.power = p.power /\ q.clocks = p.clocks
          /\ q.advClocks = p.advClocks /\ q.manual = p.manual /\ q.advanced = p.advanced
          /\ q.control = p.control /\ q.custom = p.custom
      BY <2>6 DEF ProfileType, Fields
    <3>3. g \in Opt(Words) /\ m \in Opt(Words)
      BY <2>5 DEF Opt
    <3> QED  BY <2>7, <3>1, <3>2, <3>3 DEF ProfileType
  <2>9. /\ q.governor = g /\ q.pstate = m /\ q.lo = n[1] /\ q.hi = n[2]
        /\ q.clocks = p.clocks /\ q.advClocks = p.advClocks
    BY <2>6 DEF ProfileType, Fields
  <2>10. InOrder(q) /\ CpuFine(q)
    BY <2>3, <2>5, <2>9 DEF InOrder, CpuFine, NoneIsNone
  <2>11. Keeps(p, q)
    BY <2>5, <2>6 DEF Keeps, ProfileType, Fields
  <2>12. CpuFine(p) => q = p
    <3> SUFFICES ASSUME CpuFine(p)  PROVE q = p
      OBVIOUS
    <3>1. g = p.governor /\ m = p.pstate /\ n[1] = p.lo /\ n[2] = p.hi
      BY <1>2, <2>3, <2>5 DEF CpuFine
    <3> QED  BY <2>6, <3>1 DEF ProfileType
  <2> QED  BY <2>8, <2>10, <2>11, <2>12
<1> QED  BY <1>1, <1>2

LEMMA GpuDrawn ==
  ASSUME NoneIsNone, ReadingsType, NEW p, ProfileType(p), InOrder(p), NEW q, q = Tune!GpuShown(p)
  PROVE  /\ ProfileType(q) /\ InOrder(q) /\ GpuFine(q) /\ Keeps(p, q)
         /\ q.curve = p.curve /\ (GpuFine(p) => q = p)
         /\ <<q.governor, q.pstate, q.lo, q.hi>> = <<p.governor, p.pstate, p.lo, p.hi>>
<1>1. CASE range = Nothing \/ ~p.manual
  BY <1>1 DEF Tune!GpuShown, GpuFine, Keeps
<1>2. CASE range # Nothing /\ p.manual
  <2>1. range \in Int \X Int /\ range[1] <= range[2] /\ range # Nothing
    BY <1>2 DEF ReadingsType, Tune!GpuRange
  <2>2. PICK f, w : f = Tune!Or(p.fan, "auto") /\ w = Tune!Or(p.power, 2)
    OBVIOUS
  <2>3. /\ f \in Words /\ w \in Int /\ f # Nothing /\ w # Nothing
        /\ (p.fan # Nothing => f = p.fan) /\ (p.power # Nothing => w = p.power)
    <3>1. p.fan \in Opt(Words) /\ p.power \in Opt(Int)
      BY DEF ProfileType, Fields
    <3>2. "auto" \in Words /\ 2 \in Int
      BY DEF Words
    <3>3. f \in Words /\ (p.fan # Nothing => f = p.fan)
      BY <2>2, <3>1, <3>2 DEF Tune!Or, Opt
    <3>4. w \in Int /\ (p.power # Nothing => w = p.power)
      BY <2>2, <3>1, <3>2 DEF Tune!Or, Opt
    <3> QED  BY <3>3, <3>4 DEF NoneIsNone
  <2>4. CASE p.advanced
    <3>1. PICK c, m : c = Tune!Or(p.advClocks, range) /\ m = Tune!Or(p.advMemory, 0)
      OBVIOUS
    <3>2. /\ c \in Int \X Int /\ m \in Int /\ c # Nothing /\ m # Nothing /\ Upright(c)
          /\ (p.advClocks # Nothing => c = p.advClocks) /\ (p.advMemory # Nothing => m = p.advMemory)
      BY <2>1, <3>1 DEF Tune!Or, ProfileType, Fields, Opt, NoneIsNone, InOrder, Upright
    <3>3. q = [p EXCEPT !.fan = f, !.advClocks = c, !.advMemory = m, !.power = w]
      BY <1>2, <2>2, <2>4, <3>1 DEF Tune!GpuShown, Tune!NvidiaFanShown, Tune!AdvancedShown, ProfileType, Fields
    <3>4. ProfileType(q) /\ q.curve = p.curve
      <4>1. f \in Opt(Words) /\ w \in Opt(Int) /\ c \in Opt(Int \X Int) /\ m \in Opt(Int)
        BY <2>3, <3>2 DEF Opt
      <4>2. q = [x \in Fields |-> q[x]]
        BY <3>3 DEF ProfileType
      <4>3. /\ q.fan = f /\ q.advClocks = c /\ q.advMemory = m /\ q.power = w /\ q.curve = p.curve
            /\ q.governor = p.governor /\ q.pstate = p.pstate /\ q.keys = p.keys /\ q.lo = p.lo
            /\ q.hi = p.hi /\ q.core = p.core /\ q.memory = p.memory /\ q.clocks = p.clocks
            /\ q.manual = p.manual /\ q.advanced = p.advanced /\ q.control = p.control
            /\ q.custom = p.custom
        BY <3>3 DEF ProfileType, Fields
      <4> QED  BY <4>1, <4>2, <4>3 DEF ProfileType
    <3>5. /\ q.fan = f /\ q.power = w /\ q.advClocks = c /\ q.advMemory = m /\ q.advanced = p.advanced
          /\ q.clocks = p.clocks /\ q.governor = p.governor /\ q.pstate = p.pstate
          /\ q.lo = p.lo /\ q.hi = p.hi
      BY <3>3 DEF ProfileType, Fields
    <3>6. InOrder(q) /\ GpuFine(q)
      BY <2>3, <2>4, <3>2, <3>5 DEF InOrder, GpuFine
    <3>7. Keeps(p, q)
      BY <2>3, <3>2, <3>3 DEF Keeps, ProfileType, Fields
    <3>8. GpuFine(p) => q = p
      <4> SUFFICES ASSUME GpuFine(p)  PROVE q = p
        OBVIOUS
      <4>1. f = p.fan /\ w = p.power /\ c = p.advClocks /\ m = p.advMemory
        BY <1>2, <2>3, <2>4, <3>2 DEF GpuFine
      <4> QED  BY <3>3, <4>1 DEF ProfileType
    <3> QED  BY <3>4, <3>5, <3>6, <3>7, <3>8
  <2>5. CASE ~p.advanced
    <3>1. PICK c, m, k : c = Tune!Or(p.clocks, range) /\ m = Tune!Or(p.memory, 0) /\ k = Tune!Or(p.core, 0)
      OBVIOUS
    <3>2. /\ c \in Int \X Int /\ m \in Int /\ k \in Int /\ c # Nothing /\ m # Nothing /\ k # Nothing /\ Upright(c)
          /\ (p.clocks # Nothing => c = p.clocks) /\ (p.memory # Nothing => m = p.memory)
          /\ (p.core # Nothing => k = p.core)
      BY <2>1, <3>1 DEF Tune!Or, ProfileType, Fields, Opt, NoneIsNone, InOrder, Upright
    <3>3. q = [p EXCEPT !.fan = f, !.core = k, !.clocks = c, !.memory = m, !.power = w]
      BY <1>2, <2>2, <2>5, <3>1 DEF Tune!GpuShown, Tune!NvidiaFanShown, Tune!StandardShown, ProfileType, Fields
    <3>4. ProfileType(q) /\ q.curve = p.curve
      <4>1. f \in Opt(Words) /\ w \in Opt(Int) /\ c \in Opt(Int \X Int) /\ m \in Opt(Int)
            /\ k \in Opt(Int)
        BY <2>3, <3>2 DEF Opt
      <4>2. q = [x \in Fields |-> q[x]]
        BY <3>3 DEF ProfileType
      <4>3. /\ q.fan = f /\ q.core = k /\ q.clocks = c /\ q.memory = m /\ q.power = w /\ q.curve = p.curve
            /\ q.governor = p.governor /\ q.pstate = p.pstate /\ q.keys = p.keys /\ q.lo = p.lo
            /\ q.hi = p.hi /\ q.advMemory = p.advMemory /\ q.advClocks = p.advClocks
            /\ q.manual = p.manual /\ q.advanced = p.advanced /\ q.control = p.control
            /\ q.custom = p.custom
        BY <3>3 DEF ProfileType, Fields
      <4> QED  BY <4>1, <4>2, <4>3 DEF ProfileType
    <3>5. /\ q.fan = f /\ q.power = w /\ q.clocks = c /\ q.memory = m /\ q.core = k /\ q.advanced = p.advanced
          /\ q.advClocks = p.advClocks /\ q.governor = p.governor /\ q.pstate = p.pstate
          /\ q.lo = p.lo /\ q.hi = p.hi
      BY <3>3 DEF ProfileType, Fields
    <3>6. InOrder(q) /\ GpuFine(q)
      BY <2>3, <2>5, <3>2, <3>5 DEF InOrder, GpuFine
    <3>7. Keeps(p, q)
      BY <2>3, <3>2, <3>3 DEF Keeps, ProfileType, Fields
    <3>8. GpuFine(p) => q = p
      <4> SUFFICES ASSUME GpuFine(p)  PROVE q = p
        OBVIOUS
      <4>1. f = p.fan /\ w = p.power /\ c = p.clocks /\ m = p.memory /\ k = p.core
        BY <1>2, <2>3, <2>5, <3>2 DEF GpuFine
      <4> QED  BY <3>3, <4>1 DEF ProfileType
    <3> QED  BY <3>4, <3>5, <3>6, <3>7, <3>8
  <2> QED  BY <2>4, <2>5
<1> QED  BY <1>1, <1>2

LEMMA PageDrawn ==
  ASSUME NoneIsNone, ReadingsType, NEW p, ProfileType(p), InOrder(p), NEW q, q = Tune!Shown(p)
  PROVE  /\ ProfileType(q) /\ InOrder(q) /\ Keeps(p, q)
         /\ CpuFine(q) /\ GpuFine(q) /\ FansFine(q)
         /\ CpuFine(p) /\ GpuFine(p) /\ FansFine(p) => q = p
<1>1. PICK c : c = Tune!CpuShown(p)
  OBVIOUS
<1>2. /\ ProfileType(c) /\ InOrder(c) /\ CpuFine(c) /\ Keeps(p, c)
      /\ c.curve = p.curve /\ (CpuFine(p) => c = p)
  BY <1>1, CpuDrawn
<1>3. PICK g : g = Tune!GpuShown(c)
  OBVIOUS
<1>4. /\ ProfileType(g) /\ InOrder(g) /\ GpuFine(g) /\ Keeps(c, g)
      /\ g.curve = c.curve /\ (GpuFine(c) => g = c)
      /\ g.governor = c.governor /\ g.pstate = c.pstate /\ g.lo = c.lo /\ g.hi = c.hi
  <2>1. /\ ProfileType(g) /\ InOrder(g) /\ GpuFine(g) /\ Keeps(c, g)
        /\ g.curve = c.curve /\ (GpuFine(c) => g = c)
        /\ <<g.governor, g.pstate, g.lo, g.hi>> = <<c.governor, c.pstate, c.lo, c.hi>>
    BY <1>2, <1>3, GpuDrawn
  <2> QED  BY <2>1
<1>5. CpuFine(g)
  BY <1>2, <1>4 DEF CpuFine
<1>6. Keeps(p, g)
  BY <1>2, <1>4 DEF Keeps, ProfileType, Fields
<1>7. q = Tune!FanShown(g)
  BY <1>1, <1>3 DEF Tune!Shown
<1>8. CASE g.custom /\ g.curve = <<>>
  <2>1. q = [g EXCEPT !.curve = FirstCurve]
    BY <1>7, <1>8 DEF Tune!FanShown
  <2>2. /\ q.curve = FirstCurve /\ q.clocks = g.clocks /\ q.advClocks = g.advClocks
        /\ q.lo = g.lo /\ q.hi = g.hi /\ q.governor = g.governor /\ q.pstate = g.pstate
        /\ q.manual = g.manual /\ q.advanced = g.advanced /\ q.fan = g.fan /\ q.power = g.power
        /\ q.core = g.core /\ q.memory = g.memory /\ q.advMemory = g.advMemory
    BY <1>4, <2>1 DEF ProfileType, Fields
  <2>3. ProfileType(q)
    BY <1>4, <2>1, <2>2 DEF ProfileType, Fields
  <2>4. InOrder(q)
    BY <1>4, <2>2 DEF InOrder
  <2>5. CpuFine(q)
    BY <1>5, <2>2 DEF CpuFine
  <2>6. GpuFine(q)
    BY <1>4, <2>2 DEF GpuFine
  <2>7. FansFine(q)
    BY <2>2 DEF FansFine
  <2>8. Keeps(p, q)
    BY <1>4, <1>6, <2>1 DEF Keeps, ProfileType, Fields
  <2>9. CpuFine(p) /\ GpuFine(p) /\ FansFine(p) => q = p
    <3> SUFFICES ASSUME CpuFine(p), GpuFine(p), FansFine(p)  PROVE q = p
      OBVIOUS
    <3>1. g = p
      BY <1>2, <1>4
    <3>2. FirstCurve = p.curve
      BY <1>8, <3>1 DEF FansFine
    <3> QED  BY <2>1, <3>1, <3>2 DEF ProfileType, Fields
  <2> QED  BY <2>3, <2>4, <2>5, <2>6, <2>7, <2>8, <2>9
<1>9. CASE ~(g.custom /\ g.curve = <<>>)
  <2>1. q = g
    BY <1>7, <1>9 DEF Tune!FanShown
  <2> QED  BY <1>2, <1>4, <1>5, <1>6, <1>9, <2>1 DEF FansFine
<1> QED  BY <1>8, <1>9

\* What the page shows has room for nothing else than what is set.
LEMMA LookKeeps ==
  ASSUME NoneIsNone, PageInv  PROVE Tune!LookingKeeps
<1>1. PICK q : q = Tune!Shown(tuned)
  OBVIOUS
<1>2. /\ ProfileType(q) /\ InOrder(q) /\ Keeps(tuned, q)
      /\ CpuFine(q) /\ GpuFine(q) /\ FansFine(q)
  BY <1>1, PageDrawn DEF PageInv
<1>3. Tune!Shown(q) = q
  <2>1. PICK r : r = Tune!Shown(q)
    OBVIOUS
  <2> QED  BY <1>2, <2>1, PageDrawn DEF PageInv
<1> QED  BY <1>1, <1>2, <1>3 DEF Tune!LookingKeeps, Keeps, InOrder, CpuFine

LEMMA DefaultsType ==
  /\ ProfileType(Tune!Default) /\ InOrder(Tune!Default)
  /\ ProfileType(Tune!Standard) /\ InOrder(Tune!Standard)
<1>1. PICK d : d = Tune!Default
  OBVIOUS
<1>2. ProfileType(d) /\ InOrder(d)
  BY <1>1 DEF Tune!Default, ProfileType, Fields, InOrder, Upright, Opt, Words
<1>3. PICK q : q = Tune!Standard
  OBVIOUS
<1>4. q = [d EXCEPT !.governor = "powersave", !.pstate = "active"]
  BY <1>1, <1>3 DEF Tune!Standard
<1>5. q.curve = d.curve /\ q.clocks = d.clocks /\ q.advClocks = d.advClocks /\ q.lo = d.lo /\ q.hi = d.hi
  BY <1>2, <1>4 DEF ProfileType, Fields
<1>6. ProfileType(q)
  BY <1>2, <1>4, <1>5 DEF ProfileType, Fields, Opt, Words
<1> QED  BY <1>1, <1>2, <1>3, <1>5, <1>6 DEF InOrder

LEMMA PageInit == ASSUME NoneIsNone, Tune!Init  PROVE PageInv
<1>1. ReadingsType
  BY DEF Tune!Init, ReadingsType
<1>2. PICK p : p = tuned
  OBVIOUS
<1>3. ProfileType(p) /\ InOrder(p)
  <2>1. PICK q \in {Tune!Standard, Tune!Kept(FALSE), Tune!Kept(TRUE)}, c \in FanCurves :
          p = [q EXCEPT !.custom = (c # <<>>), !.curve = c]
    BY <1>2, Zenon DEF Tune!Init, Tune!UserProfile
  <2>2. ProfileType(q) /\ InOrder(q)
    <3>1. PICK d : d = Tune!Default
      OBVIOUS
    <3>2. ProfileType(d) /\ InOrder(d)
      BY <3>1, DefaultsType
    <3>3. CASE q = Tune!Standard
      BY <3>3, DefaultsType
    <3>4. ASSUME NEW b \in BOOLEAN, q = Tune!Kept(b)  PROVE ProfileType(q) /\ InOrder(q)
      <4>1. q = [d EXCEPT !.governor = "performance", !.pstate = "passive", !.lo = 2, !.hi = 3,
                   !.manual = TRUE, !.advanced = b, !.core = 1, !.clocks = <<1, 1>>,
                   !.advClocks = <<2, 2>>, !.advMemory = 1, !.power = 1]
        BY <3>1, <3>4 DEF Tune!Kept
      <4>2. q.curve = d.curve /\ q.clocks = <<1, 1>> /\ q.advClocks = <<2, 2>> /\ q.lo = 2 /\ q.hi = 3
        BY <3>2, <4>1 DEF ProfileType, Fields
      <4>3. /\ {"performance", "passive"} \subseteq Opt(Words) /\ {1, 2, 3} \subseteq Opt(Int)
            /\ <<1, 1>> \in Opt(Int \X Int) /\ <<2, 2>> \in Opt(Int \X Int)
        BY DEF Opt, Words
      <4>4. ProfileType(q)
        <5>1. q = [f \in Fields |-> q[f]]
          BY <3>2, <4>1 DEF ProfileType
        <5>2. /\ q.governor = "performance" /\ q.pstate = "passive" /\ q.manual = TRUE /\ q.advanced = b
              /\ q.core = 1 /\ q.advMemory = 1 /\ q.power = 1
              /\ q.fan = d.fan /\ q.keys = d.keys /\ q.memory = d.memory /\ q.control = d.control
              /\ q.custom = d.custom
          BY <3>2, <4>1 DEF ProfileType, Fields
        <5>3. {q.governor, q.pstate, q.fan} \subseteq Opt(Words) /\ q.keys \in Words
          BY <3>2, <4>3, <5>2 DEF ProfileType
        <5>4. {q.lo, q.hi, q.core, q.memory, q.advMemory, q.power} \subseteq Opt(Int)
          BY <3>2, <4>2, <4>3, <5>2 DEF ProfileType
        <5>5. {q.clocks, q.advClocks} \subseteq Opt(Int \X Int)
          BY <4>2, <4>3
        <5>6. {q.manual, q.advanced, q.control, q.custom} \subseteq BOOLEAN
          BY <3>2, <5>2 DEF ProfileType
        <5> QED  BY <5>1, <5>3, <5>4, <5>5, <5>6 DEF ProfileType
      <4> QED  BY <4>2, <4>4 DEF InOrder, Upright
    <3> QED  BY <2>1, <3>3, <3>4
  <2>3. /\ p.curve = c /\ p.clocks = q.clocks /\ p.advClocks = q.advClocks /\ p.lo = q.lo /\ p.hi = q.hi
    BY <2>1, <2>2 DEF ProfileType, Fields
  <2>4. ProfileType(p)
    BY <2>1, <2>2, <2>3 DEF ProfileType, Fields
  <2> QED  BY <2>2, <2>3, <2>4 DEF InOrder
<1> QED  BY <1>1, <1>2, <1>3 DEF Tune!Init, PageInv

\* A change of fields that keeps their types and the order of the ranges.
LEMMA PageNext ==
  ASSUME NoneIsNone, PageInv, [Tune!Next]_(Tune!tuningVars)
  PROVE  PageInv'
<1>1. /\ ProfileType(tuned) /\ InOrder(tuned) /\ ProfileType(stowed) /\ InOrder(stowed)
      /\ ReadingsType
  BY DEF PageInv
<1>2. ASSUME UNCHANGED <<stowed, limits, range>>, ProfileType(tuned'), InOrder(tuned')
      PROVE  PageInv'
  BY <1>1, <1>2 DEF PageInv, ReadingsType
<1>3. ASSUME UNCHANGED <<tuned, stowed, limits, range>>  PROVE PageInv'
  BY <1>1, <1>2, <1>3
<1>4. CASE UNCHANGED Tune!tuningVars
  BY <1>3, <1>4 DEF Tune!tuningVars
<1>5. CASE Tune!Learn
  BY <1>1, <1>5 DEF Tune!Learn, PageInv, ReadingsType
<1>6. CASE Tune!Draw
  <2>1. tuned' = Tune!Shown(tuned) /\ UNCHANGED <<stowed, limits, range>>
    BY <1>6 DEF Tune!Draw
  <2>2. ProfileType(tuned') /\ InOrder(tuned')
    BY <1>1, <2>1, PageDrawn
  <2> QED  BY <1>2, <2>1, <2>2
<1>7. ASSUME Tune!Drawn  PROVE GpuFine(tuned)
  <2>1. PICK q : q = Tune!Shown(tuned)
    OBVIOUS
  <2> QED  BY <1>1, <1>7, <2>1, PageDrawn DEF Tune!Drawn
<1>8. PICK p : p = tuned
  OBVIOUS
<1>9. ProfileType(p) /\ InOrder(p)
  BY <1>1, <1>8
<1>10. CASE Tune!Change
  <2>1. UNCHANGED <<stowed, limits, range>>
    BY <1>10 DEF Tune!Change, Tune!Quietly
  <2>2. CASE Tune!ChooseCpu
    <3>1. PICK g \in {"powersave", "performance"} : tuned' = [p EXCEPT !.governor = g]
      BY <1>8, <2>2 DEF Tune!ChooseCpu, Tune!Edit
    <3>2. g \in Opt(Words)
      BY DEF Opt, Words
    <3>3. ProfileType(tuned') /\ InOrder(tuned')
      BY <1>9, <3>1, <3>2 DEF ProfileType, Fields, InOrder
    <3> QED  BY <1>2, <2>1, <3>3
  <2>3. CASE Tune!LimitCpu
    <3>1. limits \in Tune!CpuLimits /\ limits # Nothing
      BY <1>1, <2>3 DEF Tune!LimitCpu, ReadingsType
    <3>2. limits[1] \in Int /\ limits[2] \in Int
      BY <3>1 DEF Tune!CpuLimits
    <3>3. PICK low, high : low = Tune!Or(p.lo, limits[1]) /\ high = Tune!Or(p.hi, limits[2])
      OBVIOUS
    <3>4. low \in Opt(Int) /\ high \in Opt(Int)
      BY <1>9, <3>2, <3>3 DEF Tune!Or, ProfileType, Fields, Opt
    <3>5. PICK v \in limits[1]..limits[2] :
            \E n \in {Tune!NormalLimits(v, high, limits), Tune!NormalLimits(low, v, limits)} :
              tuned' = [p EXCEPT !.lo = n[1], !.hi = n[2]]
      BY <1>8, <2>3, <3>3 DEF Tune!LimitCpu, Tune!Edit
    <3>6. v \in Opt(Int)
      BY <3>2, <3>5 DEF Opt
    <3>7. PICK n : /\ n \in {Tune!NormalLimits(v, high, limits), Tune!NormalLimits(low, v, limits)}
                   /\ tuned' = [p EXCEPT !.lo = n[1], !.hi = n[2]]
      BY <3>5
    <3>8. /\ n[1] \in {Nothing} \cup limits[1]..limits[2] /\ n[2] \in {Nothing} \cup limits[1]..limits[2]
          /\ n[1] # Nothing /\ n[2] # Nothing => n[1] <= n[2]
      <4>1. CASE n = Tune!NormalLimits(v, high, limits)
        BY <3>1, <3>4, <3>6, <4>1, LimitsNormal
      <4>2. CASE n = Tune!NormalLimits(low, v, limits)
        BY <3>1, <3>4, <3>6, <4>2, LimitsNormal
      <4> QED  BY <3>7, <4>1, <4>2
    <3>9. n[1] \in Opt(Int) /\ n[2] \in Opt(Int)
      BY <3>2, <3>8 DEF Opt
    <3>10. ProfileType(tuned') /\ InOrder(tuned')
      BY <1>9, <3>7, <3>8, <3>9 DEF ProfileType, Fields, InOrder
    <3> QED  BY <1>2, <2>1, <3>10
  <2>4. CASE Tune!ChooseGpu
    <3>1. \/ tuned' = [p EXCEPT !.manual = ~@]
          \/ tuned' = [p EXCEPT !.advanced = ~@]
          \/ \E f \in {"auto", "full"} : tuned' = [p EXCEPT !.fan = f]
      BY <1>8, <2>4 DEF Tune!ChooseGpu, Tune!Edit
    <3>2. {"auto", "full"} \subseteq Opt(Words) /\ (~p.manual) \in BOOLEAN /\ (~p.advanced) \in BOOLEAN
      BY DEF Opt, Words
    <3>3. ASSUME NEW v \in BOOLEAN, tuned' = [p EXCEPT !.manual = v]
          PROVE  ProfileType(tuned') /\ InOrder(tuned')
      BY <1>9, <3>3 DEF ProfileType, Fields, InOrder
    <3>4. ASSUME NEW v \in BOOLEAN, tuned' = [p EXCEPT !.advanced = v]
          PROVE  ProfileType(tuned') /\ InOrder(tuned')
      BY <1>9, <3>4 DEF ProfileType, Fields, InOrder
    <3>5. ASSUME NEW v \in Opt(Words), tuned' = [p EXCEPT !.fan = v]
          PROVE  ProfileType(tuned') /\ InOrder(tuned')
      BY <1>9, <3>5 DEF ProfileType, Fields, InOrder
    <3>6. ProfileType(tuned') /\ InOrder(tuned')
      BY <3>1, <3>2, <3>3, <3>4, <3>5
    <3> QED  BY <1>2, <2>1, <3>6
  <2>5. CASE Tune!ChooseFans
    <3>1. CASE tuned' = [p EXCEPT !.custom = ~@]
      <4>1. ProfileType(tuned') /\ InOrder(tuned')
        BY <1>9, <3>1 DEF ProfileType, Fields, InOrder
      <4> QED  BY <1>2, <2>1, <4>1
    <3>2. ASSUME NEW c, tuned' = [p EXCEPT !.curve = c]  PROVE PageInv'
      <4>1. tuned'.curve = c
        BY <1>9, <3>2 DEF ProfileType, Fields
      <4>2. ProfileType(tuned') /\ InOrder(tuned')
        BY <1>9, <3>2, <4>1 DEF ProfileType, Fields, InOrder
      <4> QED  BY <1>2, <2>1, <4>2
    <3>3. \/ tuned' = [p EXCEPT !.custom = ~@]
          \/ \E c : tuned' = [p EXCEPT !.curve = c]
      BY <1>8, <2>5 DEF Tune!ChooseFans, Tune!Edit
    <3> QED  BY <3>1, <3>2, <3>3
  <2> QED  BY <1>10, <2>2, <2>3, <2>4, <2>5 DEF Tune!Change
<1>11. CASE Tune!Keyboard
  <2>1. UNCHANGED <<stowed, limits, range>>
    BY <1>11 DEF Tune!Keyboard, Tune!Quietly
  <2>2. \/ tuned' = [p EXCEPT !.control = FALSE, !.keys = "single"]
        \/ \E m \in {"single", "zones", "wave"} : tuned' = [p EXCEPT !.keys = m]
        \/ tuned' = [p EXCEPT !.control = TRUE]
    BY <1>8, <1>11 DEF Tune!Keyboard, Tune!Edit
  <2>3. {"single", "zones", "wave"} \subseteq Words
    BY DEF Words
  <2>4. ASSUME NEW m \in Words, tuned' = [p EXCEPT !.keys = m]
        PROVE  ProfileType(tuned') /\ InOrder(tuned')
    BY <1>9, <2>4 DEF ProfileType, Fields, InOrder
  <2>5. ASSUME tuned' = [p EXCEPT !.control = TRUE]
        PROVE  ProfileType(tuned') /\ InOrder(tuned')
    BY <1>9, <2>5 DEF ProfileType, Fields, InOrder
  <2>6. ASSUME tuned' = [p EXCEPT !.control = FALSE, !.keys = "single"]
        PROVE  ProfileType(tuned') /\ InOrder(tuned')
    BY <1>9, <2>3, <2>6 DEF ProfileType, Fields, InOrder
  <2>7. ProfileType(tuned') /\ InOrder(tuned')
    BY <2>2, <2>3, <2>4, <2>5, <2>6
  <2> QED  BY <1>2, <2>1, <2>7
<1>12. CASE Tune!Preview
  BY <1>3, <1>12 DEF Tune!Preview
<1>13. CASE Tune!SwitchMode
  <2>1. UNCHANGED <<stowed, limits, range>>
    BY <1>13 DEF Tune!SwitchMode
  <2>2. PICK m \in {"active", "passive"} : tuned' = [p EXCEPT !.pstate = m]
    BY <1>8, <1>13 DEF Tune!SwitchMode, Tune!Edit
  <2>3. m \in Opt(Words)
    BY DEF Opt, Words
  <2>4. ProfileType(tuned') /\ InOrder(tuned')
    BY <1>9, <2>2, <2>3 DEF ProfileType, Fields, InOrder
  <2> QED  BY <1>2, <2>1, <2>4
<1>14. CASE Tune!Slide
  <2>1. UNCHANGED <<stowed, limits, range>>
    BY <1>14 DEF Tune!Slide
  <2>2. GpuFine(p) /\ range # Nothing /\ p.manual
    BY <1>7, <1>8, <1>14 DEF Tune!Slide
  <2>3. ASSUME NEW v \in 1..2, NEW c \in Int \X Int
        PROVE  /\ <<v, IF v > c[2] THEN v ELSE c[2]>> \in Opt(Int \X Int)
               /\ <<IF v < c[1] THEN v ELSE c[1], v>> \in Opt(Int \X Int)
               /\ Upright(<<v, IF v > c[2] THEN v ELSE c[2]>>)
               /\ Upright(<<IF v < c[1] THEN v ELSE c[1], v>>)
    <3>1. c[1] \in Int /\ c[2] \in Int
      OBVIOUS
    <3> QED  BY <3>1 DEF Opt, Upright
  <2>4. ASSUME NEW c, c \in Opt(Int \X Int), Upright(c), tuned' = [p EXCEPT !.advClocks = c]
        PROVE  ProfileType(tuned') /\ InOrder(tuned')
    BY <1>9, <2>4 DEF ProfileType, Fields, InOrder
  <2>5. ASSUME NEW c, c \in Opt(Int \X Int), Upright(c), tuned' = [p EXCEPT !.clocks = c]
        PROVE  ProfileType(tuned') /\ InOrder(tuned')
    BY <1>9, <2>5 DEF ProfileType, Fields, InOrder
  <2>6. \A v \in 0..2 : v \in Opt(Int)
    BY DEF Opt
  <2>7. tuned' \in {[p EXCEPT !.power = v] : v \in 1..2} \cup
          (IF p.advanced
           THEN {[p EXCEPT !.advMemory = v] : v \in 0..1}
                \cup {[p EXCEPT !.advClocks = <<v, IF v > @[2] THEN v ELSE @[2]>>] : v \in 1..2}
                \cup {[p EXCEPT !.advClocks = <<IF v < @[1] THEN v ELSE @[1], v>>] : v \in 1..2}
           ELSE {[p EXCEPT !.core = v] : v \in 0..1} \cup {[p EXCEPT !.memory = v] : v \in 0..1}
                \cup {[p EXCEPT !.clocks = <<v, IF v > @[2] THEN v ELSE @[2]>>] : v \in 1..2}
                \cup {[p EXCEPT !.clocks = <<IF v < @[1] THEN v ELSE @[1], v>>] : v \in 1..2})
    BY <1>8, <1>14 DEF Tune!Slide, Tune!Edit
  <2>8. CASE \E v \in 0..2 : \/ tuned' = [p EXCEPT !.power = v] \/ tuned' = [p EXCEPT !.advMemory = v]
                             \/ tuned' = [p EXCEPT !.core = v] \/ tuned' = [p EXCEPT !.memory = v]
    <3>1. ProfileType(tuned') /\ InOrder(tuned')
      BY <1>9, <2>6, <2>8 DEF ProfileType, Fields, InOrder
    <3> QED  BY <1>2, <2>1, <3>1
  <2>9. CASE p.advanced /\ \E v \in 1..2 :
               \/ tuned' = [p EXCEPT !.advClocks = <<v, IF v > @[2] THEN v ELSE @[2]>>]
               \/ tuned' = [p EXCEPT !.advClocks = <<IF v < @[1] THEN v ELSE @[1], v>>]
    <3>1. PICK c : c = p.advClocks /\ c \in Int \X Int
      BY <1>9, <2>2, <2>9 DEF GpuFine, ProfileType, Fields, Opt
    <3>2. PICK v \in 1..2 :
            \/ tuned' = [p EXCEPT !.advClocks = <<v, IF v > c[2] THEN v ELSE c[2]>>]
            \/ tuned' = [p EXCEPT !.advClocks = <<IF v < c[1] THEN v ELSE c[1], v>>]
      BY <2>9, <3>1
    <3>3. ProfileType(tuned') /\ InOrder(tuned')
      BY <2>3, <2>4, <3>1, <3>2
    <3> QED  BY <1>2, <2>1, <3>3
  <2>10. CASE ~p.advanced /\ \E v \in 1..2 :
                \/ tuned' = [p EXCEPT !.clocks = <<v, IF v > @[2] THEN v ELSE @[2]>>]
                \/ tuned' = [p EXCEPT !.clocks = <<IF v < @[1] THEN v ELSE @[1], v>>]
    <3>1. PICK c : c = p.clocks /\ c \in Int \X Int
      BY <1>9, <2>2, <2>10 DEF GpuFine, ProfileType, Fields, Opt
    <3>2. PICK v \in 1..2 :
            \/ tuned' = [p EXCEPT !.clocks = <<v, IF v > c[2] THEN v ELSE c[2]>>]
            \/ tuned' = [p EXCEPT !.clocks = <<IF v < c[1] THEN v ELSE c[1], v>>]
      BY <2>10, <3>1
    <3>3. ProfileType(tuned') /\ InOrder(tuned')
      BY <2>3, <2>5, <3>1, <3>2
    <3> QED  BY <1>2, <2>1, <3>3
  <2> QED  BY <2>7, <2>8, <2>9, <2>10
<1>15. CASE Tune!Save
  BY <1>1, <1>15 DEF Tune!Save, PageInv, ReadingsType
<1>16. CASE Tune!Reset
  <2>1. UNCHANGED <<stowed, limits, range>> /\ tuned' \in {Tune!Standard, Tune!Default}
    BY <1>16 DEF Tune!Reset, Tune!Edit, Tune!Quietly
  <2>2. /\ ProfileType(Tune!Default) /\ InOrder(Tune!Default)
        /\ ProfileType(Tune!Standard) /\ InOrder(Tune!Standard)
    BY DefaultsType
  <2> QED  BY <1>2, <2>1, <2>2
<1>17. CASE Tune!Reapply
  <2>1. tuned' = stowed /\ UNCHANGED <<stowed, limits, range>>
    BY <1>17 DEF Tune!Reapply
  <2> QED  BY <1>1, <1>2, <2>1
<1>18. CASE Tune!Post
  BY <1>3, <1>18 DEF Tune!Post
<1>19. CASE Tune!Work
  BY <1>3, <1>19 DEF Tune!Work
<1>20. CASE Tune!ApplyPending
  BY <1>3, <1>20 DEF Tune!ApplyPending
<1> QED  BY <1>4, <1>5, <1>6, <1>10, <1>11, <1>12, <1>13, <1>14, <1>15, <1>16, <1>17, <1>18, <1>19,
            <1>20
         DEF Tune!Next

-----------------------------------------------------------------------------
(* A fan's curve.                                                           *)

\* A curve is sorted point by point.
SortTurns(h, n, s) == h[0] = <<>> /\ \A i \in 1..n : h[i] = Tune!PutIn(h[i-1], s[i])

LEMMA SortedInTurn ==
  ASSUME NEW X, <<>> \in X, NEW n \in Nat, NEW s, DOMAIN s = 1..n,
         \A acc \in X, i \in 1..n : Tune!PutIn(acc, s[i]) \in X
  PROVE  \E h : SortTurns(h, n, s) /\ Tune!Sorted(s) = h[n]
<1> DEFINE Step(f, r) == IF r = {} THEN <<>> ELSE Tune!PutIn(f[r \ {Greatest(r)}], s[Greatest(r)])
<1>1. PICK D : D = [z \in X \X (1..n) |-> Tune!PutIn(z[1], s[z[2]])]
  OBVIOUS
<1>2. D \in [X \X (1..n) -> X] /\ \A x \in X, i \in 1..n : D[<<x, i>>] = Tune!PutIn(x, s[i])
  BY <1>1
<1>3. PICK g \in [SUBSET (1..n) -> X] : FoldsTo(g, n, <<>>, D)
  BY <1>2, FoldExists
<1>4. g = [r \in SUBSET (1..n) |-> Step(g, r)]
  <2>1. ASSUME NEW r \in SUBSET (1..n), r # {}  PROVE g[r] = Step(g, r)
    <3>1. Greatest(r) \in r /\ r \ {Greatest(r)} \in SUBSET (1..n) /\ Greatest(r) \in 1..n
      BY <2>1, MaxIn
    <3> QED  BY <3>1, <2>1, <1>2, <1>3 DEF FoldsTo
  <2>2. g[{}] = <<>>
    BY <1>3 DEF FoldsTo
  <2> QED  BY <2>1, <2>2, <1>3, Zenon
<1>5. Tune!Sorted(s)
        = (CHOOSE f : f = [r \in SUBSET (1..n) |-> Step(f, r)])[1..n]
  BY Zenon DEF Tune!Sorted, Tune!FoldLeft, Tune!MapThenFoldSet, Tune!Max, Greatest
<1>6. PICK f : f = CHOOSE e : e = [r \in SUBSET (1..n) |-> Step(e, r)]
  OBVIOUS
<1>7. f = [r \in SUBSET (1..n) |-> Step(f, r)]
  BY <1>4, <1>6, Zenon
<1>8. Tune!Sorted(s) = f[1..n]
  BY <1>5, <1>6, Zenon
<1>9. ASSUME NEW i \in 1..n  PROVE f[1..i] = Tune!PutIn(f[1..(i-1)], s[i])
  <2>1. PICK r : r = 1..i
    OBVIOUS
  <2>2. r \in SUBSET (1..n) /\ r # {} /\ Greatest(r) = i /\ r \ {i} = 1..(i-1)
    BY <2>1, UpTo
  <2>3. f[r] = Tune!PutIn(f[r \ {Greatest(r)}], s[Greatest(r)])
    BY <1>7, <2>2
  <2> QED  BY <2>1, <2>2, <2>3
<1>10. f[1..0] = <<>>
  <2>1. 1..0 = {}
    OBVIOUS
  <2> QED  BY <1>7, <2>1
<1>11. PICK h : h = [i \in 0..n |-> f[1..i]]
  OBVIOUS
<1>12. h[0] = <<>> /\ h[n] = f[1..n] /\ \A i \in 1..n : h[i] = Tune!PutIn(h[i-1], s[i])
  BY <1>9, <1>10, <1>11
<1>13. SortTurns(h, n, s)
  BY <1>12 DEF SortTurns
<1> QED  BY <1>8, <1>12, <1>13, Zenon

Point == (0..Highest) \X (0..Highest)
Drawable == {c \in Seq(Point) : Len(c) \in {0} \cup 2..MaxPoints}

\* A curve has two points at least; its points, also those that the pointer leaves, are on the graph.
CurveBounds ==
  /\ Highest \in Nat /\ Tune!Pointers \subseteq Point /\ MaxPoints \in Nat /\ MaxPoints >= 2
  /\ FirstCurve \in Drawable \ {<<>>} /\ FanCurves \subseteq Drawable

LEMMA PointIs == ASSUME CurveBounds, NEW p \in Point  PROVE p[1] \in 0..Highest /\ p[2] \in 0..Highest /\ p = <<p[1], p[2]>>
BY DEF Point

LEMMA PutInGoesIn ==
  ASSUME CurveBounds, NEW a \in Seq(Point), NEW p \in Point
  PROVE  Tune!PutIn(a, p) \in Seq(Point) /\ GoesIn(Tune!PutIn(a, p), a, p)
<1>1. PICK n : n = Len(a)
  OBVIOUS
<1>2. n \in Nat /\ \A i \in 1..n : a[i] \in Point
  BY <1>1, LenProperties, ElementOfSeq
<1>3. PICK below : below = {i \in 1..n : a[i][1] <= p[1]}
  OBVIOUS
<1>4. PICK m : m = Tune!Max({0} \cup below)
  OBVIOUS
<1>5. m \in {0} \cup below /\ m \in 0..n /\ \A i \in below : i <= m
  <2>1. below \in SUBSET (1..n)
    BY <1>3
  <2>2. m = CHOOSE x \in {0} \cup below : \A y \in {0} \cup below : x >= y
    BY <1>4 DEF Tune!Max
  <2> QED  BY <1>2, <2>1, <2>2, LastPlace
<1>6. m > 0 => a[m][1] <= p[1]
  BY <1>2, <1>3, <1>5
<1>7. \A i \in 1..n : i > m => p[1] < a[i][1]
  <2>1. ASSUME NEW i \in 1..n, i > m, ~(p[1] < a[i][1])  PROVE FALSE
    <3>1. p[1] \in Int /\ a[i][1] \in Int
      BY <1>2, PointIs
    <3>2. i \in below
      BY <1>3, <2>1, <3>1
    <3> QED  BY <1>5, <2>1, <3>2
  <2> QED  BY <2>1
<1>8. Tune!PutIn(a, p) = SubSeq(a, 1, m) \o <<p>> \o SubSeq(a, m + 1, n)
  <2>1. Tune!PutIn(a, p) = Tune!InsertAt(a, 1 + m, p)
    BY <1>1, <1>3, <1>4 DEF Tune!PutIn
  <2>2. (1 + m) - 1 = m /\ 1 + m = m + 1
    BY <1>5
  <2> QED  BY <1>1, <2>1, <2>2 DEF Tune!InsertAt
<1>9. PICK P : P = Point
  OBVIOUS
<1> QED  BY <1>1, <1>5, <1>6, <1>7, <1>8, <1>9, Inserted

LEMMA CurveSorted ==
  ASSUME CurveBounds, NEW c \in Seq(Point)
  PROVE  Tune!Sorted(c) \in Seq(Point) /\ Ascends(Tune!Sorted(c), c, Len(c))
<1>1. PICK n : n = Len(c)
  OBVIOUS
<1>2. n \in Nat /\ DOMAIN c = 1..n /\ \A i \in 1..n : c[i] \in Point
  BY <1>1, LenProperties, ElementOfSeq
<1>3. PICK X : X = Seq(Point)
  OBVIOUS
<1>4. <<>> \in X /\ \A a \in X, i \in 1..n : Tune!PutIn(a, c[i]) \in X
  BY <1>2, <1>3, PutInGoesIn
<1>5. PICK h : SortTurns(h, n, c) /\ Tune!Sorted(c) = h[n]
  BY <1>2, <1>4, SortedInTurn
<1>6. \A i \in 1..n : h[i-1] \in X => h[i] \in X
  BY <1>4, <1>5 DEF SortTurns
<1>7. h[0] = <<>>
  BY <1>5 DEF SortTurns
<1>8. PICK T : T = {k \in 0..n : h[k] \in X}
  OBVIOUS
<1>9. 0..n \subseteq T
  <2>1. 0 \in T /\ \A i \in 1..n : i - 1 \in T => i \in T
    BY <1>2, <1>4, <1>6, <1>7, <1>8
  <2> QED  BY <1>2, <2>1, Climb
<1>10. \A i \in 1..n : GoesIn(h[i], h[i-1], c[i])
  <2>1. ASSUME NEW i \in 1..n  PROVE GoesIn(h[i], h[i-1], c[i])
    <3>1. h[i-1] \in Seq(Point)
      <4>1. i - 1 \in 0..n
        BY <1>2
      <4> QED  BY <1>3, <1>8, <1>9, <4>1
    <3>2. h[i] = Tune!PutIn(h[i-1], c[i])
      BY <1>5 DEF SortTurns
    <3> QED  BY <1>2, <3>1, <3>2, PutInGoesIn
  <2> QED  BY <2>1
<1>11. \A i \in 1..n : c[i][1] \in Int
  BY <1>2, PointIs
<1>12. Len(h[0]) = 0
  BY <1>7
<1>13. Ascends(h[n], c, n)
  BY <1>2, <1>10, <1>11, <1>12, InsertionSorts
<1>14. n \in 0..n
  BY <1>2
<1> QED  BY <1>1, <1>3, <1>5, <1>8, <1>9, <1>13, <1>14

\* The points of a curve in the order of their temperatures.
Rising(s, n) ==
  /\ n \in Nat /\ n >= 2 /\ Len(s) = n /\ \A i \in 1..n : s[i] \in Point
  /\ \A i, j \in 1..n : i <= j => s[i][1] <= s[j][1]

\* Shares of a whole.
LEMMA ShareFits ==
  ASSUME NEW d \in Nat, d > 0, NEW x \in 0..d, NEW y \in Nat
  PROVE  (x * y) \div d \in 0..y /\ (x = d => (x * y) \div d = y) /\ (x = 0 => (x * y) \div d = 0)
<1>1. x * y \in Nat /\ x * y <= d * y
  <2>1. PICK e \in Nat : d = x + e
    <3>1. d - x \in Nat /\ d = x + (d - x)
      OBVIOUS
    <3> QED  BY <3>1
  <2>2. d * y = x * y + e * y /\ e * y \in Nat /\ x * y \in Nat
    BY <2>1
  <2> QED  BY <2>2
<1>2. PICK q \in Int : q = (x * y) \div d /\ d * q <= x * y /\ x * y < d * q + d
  <2>1. PICK z \in Nat : z = x * y
    BY <1>1
  <2>2. z \div d \in Int /\ d * (z \div d) <= z /\ z < d * (z \div d) + d
    OBVIOUS
  <2> QED  BY <2>1, <2>2
<1>3. q >= 0
  <2>1. ASSUME q <= -1  PROVE FALSE
    <3>1. PICK e \in Nat : q = -1 - e
      <4>1. -1 - q \in Nat /\ q = -1 - (-1 - q)
        BY <2>1
      <4> QED  BY <4>1
    <3>2. d * q + d = -(d * e) /\ d * e \in Nat
      BY <3>1
    <3> QED  BY <1>1, <1>2, <3>2
  <2> QED  BY <2>1
<1>4. ASSUME NEW w \in Nat, q >= w + 1  PROVE d * w + d <= d * q
  <2>1. PICK e \in Nat : q = (w + 1) + e
    <3>1. q - (w + 1) \in Nat /\ q = (w + 1) + (q - (w + 1))
      BY <1>4
    <3> QED  BY <3>1
  <2>2. d * q = d * w + d + d * e /\ d * e \in Nat
    BY <2>1
  <2> QED  BY <2>2
<1>5. q <= y
  <2>1. ASSUME q >= y + 1  PROVE FALSE
    <3>1. d * y + d <= d * q /\ d * y \in Nat
      BY <1>4, <2>1
    <3> QED  BY <1>1, <1>2, <3>1
  <2> QED  BY <2>1
<1>6. x = d => q = y
  <2>1. ASSUME x = d, q < y  PROVE FALSE
    <3>1. PICK e \in Nat : y = q + 1 + e
      <4>1. y - (q + 1) \in Nat /\ y = q + 1 + (y - (q + 1))
        BY <2>1
      <4> QED  BY <4>1
    <3>2. d * y = d * q + d + d * e /\ d * e \in Nat
      BY <3>1
    <3> QED  BY <1>2, <2>1, <3>2
  <2> QED  BY <1>5, <2>1
<1>7. x = 0 => q = 0
  <2>1. ASSUME x = 0, q > 0  PROVE FALSE
    <3>1. 0 \in Nat /\ q >= 0 + 1 /\ d * 0 = 0 /\ x * y = 0
      BY <2>1
    <3>2. d * 0 + d <= d * q
      BY <1>4, <3>1
    <3> QED  BY <1>2, <3>1, <3>2
  <2> QED  BY <1>3, <2>1
<1> QED  BY <1>2, <1>3, <1>5, <1>6, <1>7

\* A largest gap, the first of them.
LEMMA GapIs ==
  ASSUME CurveBounds, NEW s, NEW n, Rising(s, n)
  PROVE  \E i \in 1..n-1, gap \in 0..Highest :
           /\ gap = s[i+1][1] - s[i][1] /\ \A j \in 1..n-1 : s[j+1][1] - s[j][1] <= gap
           /\ Tune!GapAt(s) =
                IF Highest - s[n][1] > gap THEN s[n][1] + (Highest - s[n][1]) \div 2
                ELSE IF s[1][1] > gap THEN s[1][1] \div 2
                ELSE IF gap = 0 THEN Highest \div 2 ELSE s[i][1] + gap \div 2
<1> USE DEF Rising
<1> DEFINE size(i) == s[i+1][1] - s[i][1]
           inner == 1..n-1
           best == {i \in inner : \A j \in inner : size(i) > size(j) \/ (size(i) = size(j) /\ i <= j)}
<1>1. \A i \in inner : size(i) \in 0..Highest
  <2>1. ASSUME NEW i \in inner  PROVE size(i) \in 0..Highest
    <3>1. i \in 1..n /\ i + 1 \in 1..n /\ i <= i + 1
      OBVIOUS
    <3>2. s[i][1] <= s[i+1][1] /\ s[i][1] \in 0..Highest /\ s[i+1][1] \in 0..Highest
      BY <3>1, PointIs
    <3> QED  BY <3>2 DEF CurveBounds
  <2> QED  BY <2>1
<1>2. PICK sizes : sizes = {size(j) + 1 : j \in inner}
  OBVIOUS
<1>3. Greatest(sizes) \in sizes /\ \A y \in sizes : Greatest(sizes) >= y
  <2>1. sizes \in SUBSET (1..Highest+1)
    <3> HIDE DEF size
    <3>1. \A j \in inner : size(j) + 1 \in 1..Highest+1
      BY <1>1 DEF CurveBounds
    <3> QED  BY <1>2, <3>1
  <2>2. 1 \in inner
    OBVIOUS
  <2>3. sizes # {} /\ Highest + 1 \in Nat
    BY <1>2, <2>2 DEF CurveBounds
  <2> QED  BY <2>1, <2>3, MaxIn
<1>4. PICK k \in inner : size(k) + 1 = Greatest(sizes)
  BY <1>2, <1>3
<1>5. \A j \in inner : size(j) <= size(k)
  <2>1. ASSUME NEW j \in inner  PROVE size(j) <= size(k)
    <3>1. size(j) + 1 \in sizes
      BY <1>2
    <3>2. size(k) + 1 >= size(j) + 1
      BY <1>3, <1>4, <3>1
    <3>3. size(j) \in Int /\ size(k) \in Int
      BY <1>1
    <3> HIDE DEF size
    <3> QED  BY <3>2, <3>3
  <2> QED  BY <2>1
<1>6. PICK i \in inner : size(i) = size(k) /\ \A j \in inner : size(j) = size(k) => i <= j
  <2>1. PICK same : same = {j \in inner : size(j) = size(k)}
    OBVIOUS
  <2>2. same \in SUBSET (1..n-1) /\ same # {} /\ n - 1 \in Nat
    <3>1. k \in same
      BY <2>1
    <3>2. n - 1 \in Nat
      OBVIOUS
    <3> HIDE DEF size
    <3> QED  BY <2>1, <3>1, <3>2
  <2>3. PICK i \in same : \A j \in same : i <= j
    BY <2>2, MinIn
  <2> QED  BY <2>1, <2>3
<1>7. \A j \in inner : size(j) <= size(i) /\ (size(j) = size(i) => i <= j)
  BY <1>5, <1>6
<1>8. best = {i}
  <2>1. i \in best
    <3>1. ASSUME NEW j \in inner  PROVE size(i) > size(j) \/ (size(i) = size(j) /\ i <= j)
      <4>1. size(j) \in Int /\ size(i) \in Int /\ size(j) <= size(i) /\ (size(j) = size(i) => i <= j)
        BY <1>1, <1>7
      <4> HIDE DEF size
      <4> QED  BY <4>1
    <3> QED  BY <3>1
  <2>2. ASSUME NEW j \in best  PROVE j = i
    <3>1. j \in inner /\ (size(j) > size(i) \/ (size(j) = size(i) /\ j <= i))
      OBVIOUS
    <3>2. size(j) \in Int /\ size(i) \in Int /\ size(j) <= size(i) /\ (size(j) = size(i) => i <= j)
      BY <1>1, <1>7, <3>1
    <3> HIDE DEF size, best
    <3> QED  BY <3>1, <3>2
  <2> HIDE DEF best
  <2> QED  BY <2>1, <2>2
<1>9. best # {} /\ (CHOOSE j \in best : TRUE) = i
  <2> HIDE DEF best
  <2> QED  BY <1>8
<1>10. PICK gap \in 0..Highest : gap = size(i)
  BY <1>1
<1>11. Tune!GapAt(s) =
         IF Highest - s[n][1] > IF best = {} THEN 0 ELSE size(CHOOSE j \in best : TRUE)
         THEN s[n][1] + (Highest - s[n][1]) \div 2
         ELSE IF s[1][1] > IF best = {} THEN 0 ELSE size(CHOOSE j \in best : TRUE)
         THEN s[1][1] \div 2
         ELSE IF (IF best = {} THEN 0 ELSE size(CHOOSE j \in best : TRUE)) = 0
         THEN Highest \div 2
         ELSE s[CHOOSE j \in best : TRUE][1] + (IF best = {} THEN 0 ELSE size(CHOOSE j \in best : TRUE)) \div 2
  BY Zenon DEF Tune!GapAt, Tune!Last
<1>12. Tune!GapAt(s) =
         IF Highest - s[n][1] > gap THEN s[n][1] + (Highest - s[n][1]) \div 2
         ELSE IF s[1][1] > gap THEN s[1][1] \div 2
         ELSE IF gap = 0 THEN Highest \div 2 ELSE s[i][1] + gap \div 2
  <2> HIDE DEF best, size
  <2> QED  BY <1>9, <1>10, <1>11
<1>13. \A j \in 1..n-1 : s[j+1][1] - s[j][1] <= gap
  BY <1>7, <1>10
<1> QED  BY <1>10, <1>12, <1>13


\* Between two points the speed is between theirs, and where a point is, it is that point's.
LEMMA InterpolatedFits ==
  ASSUME CurveBounds, NEW s, NEW n, Rising(s, n), NEW t \in 0..Highest,
         NEW v, v = Tune!Interpolated(s, t)
  PROVE  /\ v \in 0..Highest
         /\ \E i, j \in 1..n : s[i][2] <= v /\ v <= s[j][2]
         /\ \A m \in 1..n : s[m][1] = t =>
              \E k \in 1..n : s[k][1] = t /\ v = s[k][2]
<1>1. n \in Nat /\ n >= 2 /\ Len(s) = n /\ s # <<>> /\ n # 1
  BY DEF Rising
<1>2. \A i \in 1..n : s[i][1] \in 0..Highest /\ s[i][2] \in 0..Highest
  BY PointIs DEF Rising
<1>3. \A i, j \in 1..n : i <= j => s[i][1] <= s[j][1]
  BY DEF Rising
<1>4. 1 \in 1..n /\ n \in 1..n
  BY <1>1
<1>5. Highest \in Nat
  BY DEF CurveBounds
<1>6. CASE t <= s[1][1]
  <2>1. v = s[1][2]
    BY <1>1, <1>6 DEF Tune!Interpolated
  <2>2. ASSUME NEW m \in 1..n, s[m][1] = t  PROVE s[1][1] = t
    <3>1. 1 <= m /\ s[1][1] <= s[m][1]
      BY <1>3, <1>4
    <3> QED  BY <1>2, <1>4, <1>6, <2>2, <3>1
  <2>3. s[1][2] <= v /\ v <= s[1][2]
    BY <1>2, <1>4, <2>1
  <2> QED  BY <1>2, <1>4, <2>1, <2>2, <2>3
<1>7. CASE ~(t <= s[1][1]) /\ t >= s[n][1]
  <2>1. v = s[n][2]
    BY <1>1, <1>7 DEF Tune!Interpolated, Tune!Last
  <2>2. ASSUME NEW m \in 1..n, s[m][1] = t  PROVE s[n][1] = t
    <3>1. m <= n /\ s[m][1] <= s[n][1]
      BY <1>1, <1>3, <1>4
    <3> QED  BY <1>2, <1>4, <1>7, <2>2, <3>1
  <2>3. s[n][2] <= v /\ v <= s[n][2]
    BY <1>2, <1>4, <2>1
  <2> QED  BY <1>2, <1>4, <2>1, <2>2, <2>3
<1>8. CASE ~(t <= s[1][1]) /\ ~(t >= s[n][1])
  <2>1. PICK at : at = {i \in 1..n-1 : s[i][1] <= t /\ t <= s[i+1][1]}
    OBVIOUS
  <2>2. PICK over : over = {i \in 1..n : t <= s[i][1]}
    OBVIOUS
  <2>3. PICK u \in over : \A j \in over : u <= j
    <3>1. over \in SUBSET (1..n)
      BY <2>2
    <3>2. n \in over
      BY <1>2, <1>4, <1>8, <2>2
    <3> QED  BY <1>1, <3>1, <3>2, MinIn
  <2>4. PICK k \in 1..n-1 : u = k + 1
    <3>1. u \in 1..n /\ u # 1
      BY <1>8, <2>2, <2>3
    <3>2. u - 1 \in 1..n-1 /\ u = (u - 1) + 1
      BY <1>1, <3>1
    <3> QED  BY <3>2
  <2>5. k \in 1..n /\ k + 1 \in 1..n
    BY <1>1, <2>4
  <2>6. t <= s[k+1][1] /\ s[k][1] < t
    <3>1. k \notin over
      BY <2>3, <2>4
    <3> QED  BY <1>2, <2>2, <2>3, <2>4, <2>5, <3>1
  <2>7. k \in at /\ \A j \in at : k <= j
    <3>1. k \in at
      BY <1>2, <2>1, <2>4, <2>5, <2>6
    <3>2. ASSUME NEW j \in at  PROVE k <= j
      <4>1. j \in 1..n-1 /\ j + 1 \in 1..n /\ t <= s[j+1][1]
        BY <1>1, <2>1
      <4>2. j + 1 \in over
        BY <2>2, <4>1
      <4> QED  BY <2>3, <2>4, <4>1, <4>2
    <3> QED  BY <3>1, <3>2
  <2>8. (CHOOSE i \in at : \A j \in at : i <= j) = k
    <3>1. PICK w : w = CHOOSE i \in at : \A j \in at : i <= j
      OBVIOUS
    <3>2. w \in at /\ \A j \in at : w <= j
      BY <2>7, <3>1
    <3>3. w <= k /\ k <= w /\ w \in Int
      BY <2>1, <2>7, <3>2
    <3> QED  BY <2>4, <3>1, <3>3
  <2>9. PICK a, b : a = s[k] /\ b = s[k+1]
    OBVIOUS
  <2>10. v = IF a[2] <= b[2] THEN a[2] + ((t - a[1]) * (b[2] - a[2])) \div (b[1] - a[1])
             ELSE b[2] + ((b[1] - t) * (a[2] - b[2])) \div (b[1] - a[1])
    <3>1. v = LET i == CHOOSE i \in at : \A j \in at : i <= j
                  x == s[i]
                  y == s[i + 1]
              IN  IF x[2] <= y[2] THEN x[2] + ((t - x[1]) * (y[2] - x[2])) \div (y[1] - x[1])
                  ELSE y[2] + ((y[1] - t) * (x[2] - y[2])) \div (y[1] - x[1])
      <4>1. v = IF s = <<>> THEN 1
                ELSE IF Len(s) = 1 \/ t <= s[1][1] THEN s[1][2]
                ELSE IF t >= s[Len(s)][1] THEN s[Len(s)][2]
                ELSE LET some == {i \in 1..Len(s) - 1 : s[i][1] <= t /\ t <= s[i + 1][1]}
                         i == CHOOSE i \in some : \A j \in some : i <= j
                         x == s[i]
                         y == s[i + 1]
                     IN  IF x[2] <= y[2] THEN x[2] + ((t - x[1]) * (y[2] - x[2])) \div (y[1] - x[1])
                         ELSE y[2] + ((y[1] - t) * (x[2] - y[2])) \div (y[1] - x[1])
        BY Zenon DEF Tune!Interpolated, Tune!Last
      <4>2. at = {i \in 1..Len(s) - 1 : s[i][1] <= t /\ t <= s[i + 1][1]}
        BY <1>1, <2>1
      <4>3. ~(Len(s) = 1 \/ t <= s[1][1]) /\ ~(t >= s[Len(s)][1])
        BY <1>1, <1>8
      <4> QED  BY <1>1, <4>1, <4>2, <4>3, Zenon
    <3> QED  BY <2>8, <2>9, <3>1
  <2>11. a[1] \in 0..Highest /\ a[2] \in 0..Highest /\ b[1] \in 0..Highest /\ b[2] \in 0..Highest
         /\ a[1] < t /\ t <= b[1]
    BY <1>2, <2>5, <2>6, <2>9
  <2>12. PICK d : d = b[1] - a[1]
    OBVIOUS
  <2>13. d \in Nat /\ d > 0
    BY <2>11, <2>12
  <2>14. CASE a[2] <= b[2]
    <3>1. PICK x, y : x = t - a[1] /\ y = b[2] - a[2]
      OBVIOUS
    <3>2. x \in 0..d /\ y \in Nat
      BY <2>11, <2>12, <2>14, <3>1
    <3>3. (x * y) \div d \in 0..y /\ (x = d => (x * y) \div d = y)
      BY <2>13, <3>2, ShareFits
    <3>4. PICK z : z = (x * y) \div d
      OBVIOUS
    <3>5. v = a[2] + z
      BY <2>10, <2>12, <2>14, <3>1, <3>4
    <3>6. z \in 0..y /\ (x = d => z = y)
      BY <3>3, <3>4
    <3>7. a[2] <= v /\ v <= b[2] /\ (t = b[1] => v = b[2]) /\ v \in 0..Highest
      BY <1>5, <2>11, <2>12, <3>1, <3>5, <3>6
    <3> HIDE DEF Rising
    <3>8. ASSUME NEW m \in 1..n, s[m][1] = t  PROVE s[k+1][1] = t
      BY <1>2, <1>3, <2>2, <2>3, <2>4, <2>5, <2>6, <3>8
    <3> QED  BY <2>5, <2>9, <3>7, <3>8
  <2>15. CASE ~(a[2] <= b[2])
    <3>1. PICK x, y : x = b[1] - t /\ y = a[2] - b[2]
      OBVIOUS
    <3>2. x \in 0..d /\ y \in Nat
      BY <2>11, <2>12, <2>15, <3>1
    <3>3. (x * y) \div d \in 0..y /\ (x = 0 => (x * y) \div d = 0)
      BY <2>13, <3>2, ShareFits
    <3>4. PICK z : z = (x * y) \div d
      OBVIOUS
    <3>5. v = b[2] + z
      BY <2>10, <2>12, <2>15, <3>1, <3>4
    <3>6. z \in 0..y /\ (x = 0 => z = 0)
      BY <3>3, <3>4
    <3>7. b[2] <= v /\ v <= a[2] /\ (t = b[1] => v = b[2]) /\ v \in 0..Highest
      BY <1>5, <2>11, <3>1, <3>5, <3>6
    <3>8. ASSUME NEW m \in 1..n, s[m][1] = t  PROVE s[k+1][1] = t
      BY <1>2, <1>3, <2>2, <2>3, <2>4, <2>5, <2>6, <3>8
    <3> QED  BY <2>5, <2>9, <3>7, <3>8
  <2> QED  BY <2>14, <2>15
<1> QED  BY <1>2, <1>4, <1>6, <1>7, <1>8

\* A point that is added is on the graph, and at a temperature of its own while there is one.
LEMMA GapFits ==
  ASSUME CurveBounds, NEW s, NEW n, Rising(s, n), NEW t, t = Tune!GapAt(s)
  PROVE  t \in 0..Highest /\ (Tune!HasRoom(s) => \A m \in 1..n : s[m][1] # t)
<1>1. n \in Nat /\ n >= 2 /\ Len(s) = n /\ 1 \in 1..n /\ n \in 1..n
  BY DEF Rising
<1>2. \A i \in 1..n : s[i][1] \in 0..Highest
  BY PointIs DEF Rising
<1>3. \A i, j \in 1..n : i <= j => s[i][1] <= s[j][1]
  BY DEF Rising
<1>4. Highest \in Nat
  BY DEF CurveBounds
<1>5. PICK i \in 1..n-1, gap \in 0..Highest :
        /\ gap = s[i+1][1] - s[i][1] /\ \A j \in 1..n-1 : s[j+1][1] - s[j][1] <= gap
        /\ t = IF Highest - s[n][1] > gap THEN s[n][1] + (Highest - s[n][1]) \div 2
               ELSE IF s[1][1] > gap THEN s[1][1] \div 2
               ELSE IF gap = 0 THEN Highest \div 2 ELSE s[i][1] + gap \div 2
  BY GapIs
<1>6. i \in 1..n /\ i + 1 \in 1..n
  BY <1>1
<1>7. Tune!HasRoom(s) => gap > 1 \/ Highest - s[n][1] > 1
  <2>1. Tune!HasRoom(s) => (\E j \in 1..n-1 : s[j+1][1] - s[j][1] > 1) \/ Highest - s[n][1] > 1
    BY <1>1 DEF Tune!HasRoom, Tune!Last
  <2>2. ASSUME NEW j \in 1..n-1, s[j+1][1] - s[j][1] > 1  PROVE gap > 1
    <3>1. j \in 1..n /\ j + 1 \in 1..n
      BY <1>1
    <3>2. s[j+1][1] \in Int /\ s[j][1] \in Int /\ s[j+1][1] - s[j][1] <= gap
      BY <1>2, <1>5, <3>1
    <3> QED  BY <2>2, <3>2
  <2> QED  BY <2>1, <2>2
<1>8. PICK first, last : first = s[1][1] /\ last = s[n][1]
  OBVIOUS
<1>9. first \in 0..Highest /\ last \in 0..Highest
  BY <1>1, <1>2, <1>8
<1>10. \A m \in 1..n : first <= s[m][1] /\ s[m][1] <= last
  BY <1>1, <1>3, <1>8
<1>11. CASE Highest - last > gap
  <2>1. t = last + (Highest - last) \div 2
    BY <1>5, <1>8, <1>11
  <2>2. t \in 0..Highest /\ (Highest - last > 1 => t > last)
    BY <1>4, <1>9, <2>1
  <2>3. Tune!HasRoom(s) => t > last
    BY <1>4, <1>5, <1>7, <1>8, <1>9, <1>11, <2>2
  <2> QED  BY <1>2, <1>9, <1>10, <2>2, <2>3
<1>12. CASE ~(Highest - last > gap) /\ first > gap
  <2>1. t = first \div 2
    BY <1>5, <1>8, <1>12
  <2>2. t \in 0..Highest /\ (first > 1 => t < first)
    BY <1>4, <1>9, <2>1
  <2>3. Tune!HasRoom(s) => t < first
    BY <1>5, <1>7, <1>8, <1>9, <1>12, <2>2
  <2> QED  BY <1>2, <1>9, <1>10, <2>2, <2>3
<1>13. CASE ~(Highest - last > gap) /\ ~(first > gap) /\ gap = 0
  <2>1. t = Highest \div 2
    BY <1>5, <1>8, <1>13
  <2>2. t \in 0..Highest
    BY <1>4, <2>1
  <2>3. ~Tune!HasRoom(s)
    BY <1>7, <1>8, <1>9, <1>4, <1>13
  <2> QED  BY <2>2, <2>3
<1>14. CASE ~(Highest - last > gap) /\ ~(first > gap) /\ gap # 0
  <2>1. t = s[i][1] + gap \div 2
    BY <1>5, <1>8, <1>14
  <2>2. PICK a, b : a = s[i][1] /\ b = s[i+1][1]
    OBVIOUS
  <2>3. a \in 0..Highest /\ b \in 0..Highest /\ gap = b - a
    BY <1>2, <1>5, <1>6, <2>2
  <2>4. t \in 0..Highest /\ (gap > 1 => a < t /\ t < b)
    BY <1>4, <2>1, <2>2, <2>3
  <2>5. Tune!HasRoom(s) => gap > 1
    BY <1>7, <1>8, <1>9, <1>4, <1>14
  <2>6. \A m \in 1..n : s[m][1] <= a \/ b <= s[m][1]
    BY <1>1, <1>3, <1>6, <2>2
  <2>7. ASSUME gap > 1, NEW m \in 1..n, s[m][1] = t  PROVE FALSE
    BY <2>3, <2>4, <2>6, <2>7
  <2> QED  BY <2>4, <2>5, <2>7
<1> QED  BY <1>11, <1>12, <1>13, <1>14

\* A curve of one point at least keeps its points when one is added.
LEMMA PointFits ==
  ASSUME CurveBounds, NEW c \in Drawable, c # <<>>, Len(c) < MaxPoints
  PROVE  \E p \in Point :
           /\ Tune!PointAdded(c) = Append(c, p)
           /\ \E i, j \in 1..Len(c) : c[i][2] <= p[2] /\ p[2] <= c[j][2]
           /\ Tune!Valid(c) => \A m \in 1..Len(c) : c[m][1] = p[1] => c[m][2] = p[2]
           /\ Tune!HasRoom(Tune!Sorted(c)) => \A m \in 1..Len(c) : c[m][1] # p[1]
<1>1. PICK n : n = Len(c)
  OBVIOUS
<1>2. c \in Seq(Point) /\ n \in Nat /\ n >= 2 /\ \A i \in 1..n : c[i] \in Point
  <2>1. c \in Seq(Point) /\ n \in {0} \cup 2..MaxPoints
    BY <1>1 DEF Drawable
  <2>2. n # 0
    BY <1>1, <2>1, EmptySeq
  <2>3. n \in Nat /\ \A i \in 1..n : c[i] \in Point
    BY <1>1, <2>1, LenProperties, ElementOfSeq
  <2> QED  BY <2>1, <2>2, <2>3
<1>3. PICK s : s = Tune!Sorted(c)
  OBVIOUS
<1>4. s \in Seq(Point) /\ Ascends(s, c, n)
  BY <1>1, <1>2, <1>3, CurveSorted
<1>5. Len(s) = n
  BY <1>4 DEF Ascends
<1>6. \A i \in 1..n : s[i] \in Point
  BY <1>4, <1>5, ElementOfSeq
<1>7. Rising(s, n)
  BY <1>2, <1>4, <1>5, <1>6 DEF Rising, Ascends
<1>8. /\ \A i \in 1..n : \E j \in 1..n : s[i] = c[j]
      /\ \A j \in 1..n : \E i \in 1..n : s[i] = c[j]
  BY <1>4 DEF Ascends
<1>9. PICK t : t = Tune!GapAt(s)
  OBVIOUS
<1>10. t \in 0..Highest /\ (Tune!HasRoom(s) => \A m \in 1..n : s[m][1] # t)
  BY <1>7, <1>9, GapFits
<1>11. PICK v : v = Tune!Interpolated(s, t)
  OBVIOUS
<1>12. /\ v \in 0..Highest
       /\ \E i, j \in 1..n : s[i][2] <= v /\ v <= s[j][2]
       /\ \A m \in 1..n : s[m][1] = t => \E k \in 1..n : s[k][1] = t /\ v = s[k][2]
  <2>1. t \in 0..Highest
    BY <1>10
  <2>2. ASSUME NEW w, w = Tune!Interpolated(s, t)
        PROVE  /\ w \in 0..Highest
               /\ \E i, j \in 1..n : s[i][2] <= w /\ w <= s[j][2]
               /\ \A m \in 1..n : s[m][1] = t => \E k \in 1..n : s[k][1] = t /\ w = s[k][2]
    BY <1>7, <2>1, <2>2, InterpolatedFits
  <2> QED  BY <1>11, <2>2
<1>13. Tune!PointAdded(c) = Append(c, <<t, v>>)
  <2>1. ~(Len(c) >= MaxPoints)
    BY <1>1, <1>2 DEF CurveBounds
  <2> QED  BY <1>3, <1>9, <1>11, <2>1 DEF Tune!PointAdded
<1>14. <<t, v>> \in Point
  BY <1>10, <1>12 DEF Point
<1>15. \E i, j \in 1..n : c[i][2] <= v /\ v <= c[j][2]
  <2>1. PICK i, j \in 1..n : s[i][2] <= v /\ v <= s[j][2]
    BY <1>12
  <2>2. PICK k, l \in 1..n : s[i] = c[k] /\ s[j] = c[l]
    BY <1>8
  <2> QED  BY <2>1, <2>2
<1>16. ASSUME Tune!Valid(c), NEW m \in 1..n, c[m][1] = t  PROVE c[m][2] = v
  <2>1. PICK i \in 1..n : s[i] = c[m]
    BY <1>8
  <2>2. PICK k \in 1..n : s[k][1] = t /\ v = s[k][2]
    BY <1>12, <1>16, <2>1
  <2>3. PICK l \in 1..n : s[k] = c[l]
    BY <1>8
  <2>4. \A x, y \in 1..n : c[x][1] = c[y][1] => c[x][2] = c[y][2]
    BY <1>1, <1>16 DEF Tune!Valid
  <2>5. c[l][1] = c[m][1] /\ c[l][2] = v
    BY <1>16, <2>2, <2>3
  <2> QED  BY <2>4, <2>5
<1>17. ASSUME Tune!HasRoom(s), NEW m \in 1..n, c[m][1] = t  PROVE FALSE
  <2>1. PICK i \in 1..n : s[i] = c[m]
    BY <1>8
  <2> QED  BY <1>10, <1>17, <2>1
<1>18. PICK p : p = <<t, v>>
  OBVIOUS
<1>19. p \in Point /\ p[1] = t /\ p[2] = v /\ Tune!PointAdded(c) = Append(c, p)
  BY <1>13, <1>14, <1>18
<1>20. /\ \E i, j \in 1..n : c[i][2] <= p[2] /\ p[2] <= c[j][2]
       /\ Tune!Valid(c) => \A m \in 1..n : c[m][1] = p[1] => c[m][2] = p[2]
       /\ Tune!HasRoom(s) => \A m \in 1..n : c[m][1] # p[1]
  BY <1>15, <1>16, <1>17, <1>19
<1> QED  BY <1>1, <1>3, <1>19, <1>20

\* What a hand does to a curve leaves one.
LEMMA CurvesDrawable ==
  ASSUME CurveBounds, NEW c \in Drawable, c # <<>>, NEW d \in Tune!CurvesFrom(c)
  PROVE  d \in Drawable
<1>1. PICK n : n = Len(c)
  OBVIOUS
<1>2. c \in Seq(Point) /\ n \in 2..MaxPoints /\ MaxPoints \in Nat /\ DOMAIN c = 1..n
  <2>1. c \in Seq(Point) /\ n \in {0} \cup 2..MaxPoints
    BY <1>1 DEF Drawable
  <2>2. n # 0
    BY <1>1, <2>1, EmptySeq
  <2> QED  BY <1>1, <2>1, <2>2, LenProperties DEF CurveBounds
<1>3. PICK P : P = Point
  OBVIOUS
<1>4. c \in Seq(P)
  BY <1>2, <1>3
<1>5. ASSUME NEW e, e \in Seq(P), Len(e) \in 2..MaxPoints  PROVE e \in Drawable
  BY <1>3, <1>5 DEF Drawable
<1>6. ASSUME d = Tune!PointAdded(c)  PROVE d \in Drawable
  <2>1. CASE n >= MaxPoints
    <3>1. d = c
      BY <1>1, <1>6, <2>1 DEF Tune!PointAdded
    <3> QED  BY <3>1
  <2>2. CASE n < MaxPoints
    <3>1. PICK p \in Point : d = Append(c, p)
      BY <1>1, <1>6, <2>2, PointFits
    <3>2. d \in Seq(P) /\ Len(d) = n + 1
      BY <1>1, <1>3, <1>4, <3>1, AppendProperties
    <3>3. n + 1 \in 2..MaxPoints
      BY <1>2, <2>2
    <3> QED  BY <1>5, <3>2, <3>3
  <2> QED  BY <1>2, <2>1, <2>2
<1>7. ASSUME d = Tune!Sorted(c)  PROVE d \in Drawable
  <2>1. d \in Seq(Point) /\ Ascends(d, c, n)
    BY <1>1, <1>2, <1>7, CurveSorted
  <2>2. Len(d) = n
    BY <2>1 DEF Ascends
  <2> QED  BY <1>2, <1>3, <1>5, <2>1, <2>2
<1>8. ASSUME NEW i \in 1..n, NEW p \in Point, d = [c EXCEPT ![i] = p]  PROVE d \in Drawable
  <2>1. d \in Seq(P) /\ Len(d) = n
    BY <1>1, <1>2, <1>3, <1>4, <1>8, ExceptSeq
  <2> QED  BY <1>2, <1>5, <2>1
<1>9. ASSUME NEW at \in Tune!Pointers, d = Tune!Dragged(c, at)  PROVE d \in Drawable
  <2> DEFINE near == {i \in 1..Len(c) : (c[i][1] - at[1]) ^ 2 + (c[i][2] - at[2]) ^ 2 < Tune!Near ^ 2}
  <2>1. near \in SUBSET (1..n)
    BY <1>1
  <2>2. d = IF near = {} THEN c ELSE [c EXCEPT ![CHOOSE i \in near : \A j \in near : i <= j] = at]
    BY <1>9, Zenon DEF Tune!Dragged
  <2> HIDE DEF near
  <2>3. CASE near = {}
    BY <2>2, <2>3
  <2>4. CASE near # {}
    <3>1. \E i \in near : \A j \in near : i <= j
      <4>1. n \in Nat
        BY <1>2
      <4> QED  BY <2>1, <2>4, <4>1, MinIn
    <3>2. PICK k : k = CHOOSE i \in near : \A j \in near : i <= j
      OBVIOUS
    <3>3. k \in near
      BY <3>1, <3>2
    <3>4. d = [c EXCEPT ![k] = at] /\ k \in 1..n /\ at \in Point
      BY <2>1, <2>2, <2>4, <3>2, <3>3 DEF CurveBounds
    <3> QED  BY <1>8, <3>4
  <2> QED  BY <2>3, <2>4
<1>10. ASSUME NEW i \in 1..n, n > 2, d = Tune!RemoveAt(c, i)  PROVE d \in Drawable
  <2>1. PICK u, v : u = SubSeq(c, 1, i - 1) /\ v = SubSeq(c, i + 1, n)
    OBVIOUS
  <2>2. u \in Seq(P) /\ Len(u) = i - 1 /\ v \in Seq(P) /\ Len(v) = n - i
    <3>1. u \in Seq(P) /\ Len(u) = i - 1
      BY <1>1, <1>2, <1>4, <2>1
    <3>2. v \in Seq(P) /\ Len(v) = n - i
      BY <1>1, <1>2, <1>4, <2>1
    <3> QED  BY <3>1, <3>2
  <2>3. d = u \o v
    BY <1>1, <1>10, <2>1 DEF Tune!RemoveAt
  <2>4. d \in Seq(P) /\ Len(d) = (i - 1) + (n - i)
    <3>1. /\ u \o v \in Seq(P) /\ Len(u \o v) = Len(u) + Len(v)
          /\ \A k \in 1..Len(u) + Len(v) : (u \o v)[k] = IF k <= Len(u) THEN u[k] ELSE v[k - Len(u)]
      BY <2>2, ConcatProperties
    <3> QED  BY <2>2, <2>3, <3>1
  <2>5. (i - 1) + (n - i) \in 2..MaxPoints
    BY <1>2, <1>10
  <2> QED  BY <1>5, <2>4, <2>5
<1>11. \/ d \in {Tune!PointAdded(c), Tune!Sorted(c), FirstCurve}
       \/ \E at \in Tune!Pointers : d = Tune!Dragged(c, at)
       \/ \E i \in 1..n, t \in {0, 1, Highest}, s \in {0, Highest} : d = [c EXCEPT ![i] = <<t, s>>]
       \/ n > 2 /\ \E i \in 1..n : d = Tune!RemoveAt(c, i)
  BY <1>1 DEF Tune!CurvesFrom
<1>12. \A t \in {0, 1, Highest}, s \in {0, Highest} : <<t, s>> \in Point
  <2>1. <<1, 1>> \in Point
    BY DEF CurveBounds, Tune!Pointers
  <2>2. Highest \in Nat /\ 1 \in 0..Highest
    BY <2>1 DEF CurveBounds, Point
  <2> QED  BY <2>2 DEF Point
<1>13. FirstCurve \in Drawable
  BY DEF CurveBounds
<1> QED  BY <1>6, <1>7, <1>8, <1>9, <1>10, <1>11, <1>12, <1>13

CurveInv == tuned.curve \in Drawable /\ stowed.curve \in Drawable

LEMMA CurveInit == ASSUME NoneIsNone, CurveBounds, Tune!Init  PROVE CurveInv
<1>1. PICK p : p = tuned
  OBVIOUS
<1>2. PICK q \in {Tune!Standard, Tune!Kept(FALSE), Tune!Kept(TRUE)}, c \in FanCurves :
        p = [q EXCEPT !.custom = (c # <<>>), !.curve = c]
  BY <1>1, Zenon DEF Tune!Init, Tune!UserProfile
<1>3. PICK d : d = Tune!Default
  OBVIOUS
<1>4. "curve" \in DOMAIN d
  BY <1>3 DEF Tune!Default
<1>5. "curve" \in DOMAIN q
  <2>1. CASE q = Tune!Standard
    BY <1>3, <1>4, <2>1 DEF Tune!Standard
  <2>2. CASE q = Tune!Kept(FALSE) \/ q = Tune!Kept(TRUE)
    BY <1>3, <1>4, <2>2 DEF Tune!Kept
  <2> QED  BY <1>2, <2>1, <2>2
<1>6. p.curve = c
  BY <1>2, <1>5
<1> QED  BY <1>1, <1>2, <1>6 DEF Tune!Init, CurveInv, CurveBounds

LEMMA CurveNext ==
  ASSUME NoneIsNone, CurveBounds, PageInv, CurveInv, [Tune!Next]_(Tune!tuningVars)
  PROVE  CurveInv'
<1>1. /\ ProfileType(tuned) /\ InOrder(tuned) /\ ProfileType(stowed) /\ ReadingsType
      /\ tuned.curve \in Drawable /\ stowed.curve \in Drawable
  BY DEF PageInv, CurveInv
<1>2. ASSUME UNCHANGED stowed, tuned'.curve \in Drawable  PROVE CurveInv'
  BY <1>1, <1>2 DEF CurveInv
<1>3. ASSUME UNCHANGED <<tuned, stowed>>  PROVE CurveInv'
  BY <1>1, <1>3 DEF CurveInv
<1>4. FirstCurve \in Drawable /\ FirstCurve # <<>> /\ <<>> \in Drawable
  BY EmptySeq DEF CurveBounds, Drawable
<1>5. PICK p : p = tuned
  OBVIOUS
<1>6. p = [f \in Fields |-> p[f]] /\ p.curve \in Drawable
  BY <1>1, <1>5 DEF ProfileType
<1>7. ASSUME NEW f \in Fields \ {"curve"}, NEW w, tuned' = [p EXCEPT ![f] = w]  PROVE tuned'.curve \in Drawable
  BY <1>6, <1>7 DEF Fields
<1>8. CASE UNCHANGED Tune!tuningVars
  BY <1>3, <1>8 DEF Tune!tuningVars
<1>9. CASE Tune!Learn
  BY <1>3, <1>9 DEF Tune!Learn
<1>10. CASE Tune!Draw
  <2>1. PICK c : c = Tune!CpuShown(p)
    OBVIOUS
  <2>2. ProfileType(c) /\ InOrder(c) /\ c.curve = p.curve
    BY <1>1, <1>5, <2>1, CpuDrawn
  <2>3. PICK g : g = Tune!GpuShown(c)
    OBVIOUS
  <2>4. ProfileType(g) /\ g.curve = c.curve
    BY <1>1, <2>2, <2>3, GpuDrawn
  <2>5. tuned' = Tune!FanShown(g) /\ UNCHANGED stowed
    BY <1>5, <1>10, <2>1, <2>3 DEF Tune!Draw, Tune!Shown
  <2>6. tuned'.curve \in {g.curve, FirstCurve}
    BY <2>4, <2>5 DEF Tune!FanShown, ProfileType, Fields
  <2> QED  BY <1>2, <1>4, <1>6, <2>2, <2>4, <2>5, <2>6
<1>11. CASE Tune!Change
  <2>1. UNCHANGED stowed
    BY <1>11 DEF Tune!Change, Tune!Quietly
  <2>2. CASE Tune!ChooseCpu
    <3>1. PICK w : tuned' = [p EXCEPT !.governor = w]
      BY <1>5, <2>2 DEF Tune!ChooseCpu, Tune!Edit
    <3> QED  BY <1>2, <1>7, <2>1, <3>1 DEF Fields
  <2>3. CASE Tune!LimitCpu
    <3>1. PICK low, high : low = Tune!Or(p.lo, limits[1]) /\ high = Tune!Or(p.hi, limits[2])
      OBVIOUS
    <3>2. \E v \in limits[1]..limits[2] :
            \E n \in {Tune!NormalLimits(v, high, limits), Tune!NormalLimits(low, v, limits)} :
              tuned' = [p EXCEPT !.lo = n[1], !.hi = n[2]]
      BY <1>5, <2>3, <3>1 DEF Tune!LimitCpu, Tune!Edit
    <3>3. PICK n : tuned' = [p EXCEPT !.lo = n[1], !.hi = n[2]]
      BY <3>2
    <3>4. tuned'.curve = p.curve
      BY <1>6, <3>3 DEF Fields
    <3> QED  BY <1>2, <1>6, <2>1, <3>4
  <2>4. CASE Tune!ChooseGpu
    <3>1. \/ tuned' = [p EXCEPT !.manual = ~p.manual] \/ tuned' = [p EXCEPT !.advanced = ~p.advanced]
          \/ \E w : tuned' = [p EXCEPT !.fan = w]
      BY <1>5, <1>6, <2>4 DEF Tune!ChooseGpu, Tune!Edit, Fields
    <3> QED  BY <1>2, <1>7, <2>1, <3>1 DEF Fields
  <2>5. CASE Tune!ChooseFans
    <3>1. CASE tuned' = [p EXCEPT !.custom = ~@]
      <4>1. tuned'.curve = p.curve
        BY <1>6, <3>1 DEF Fields
      <4> QED  BY <1>2, <1>6, <2>1, <4>1
    <3>2. CASE p.custom /\ \E c \in Tune!CurvesFrom(p.curve) : tuned' = [p EXCEPT !.curve = c]
      <4>1. PICK c \in Tune!CurvesFrom(p.curve) : tuned' = [p EXCEPT !.curve = c]
        BY <3>2
      <4>2. p.curve # <<>>
        <5>1. PICK q : q = Tune!Shown(p)
          OBVIOUS
        <5>2. FansFine(q)
          BY <1>1, <1>5, <5>1, PageDrawn
        <5>3. q = p
          BY <1>5, <1>11, <5>1 DEF Tune!Change, Tune!Drawn
        <5> QED  BY <1>4, <3>2, <5>2, <5>3 DEF FansFine
      <4>3. c \in Drawable
        BY <1>6, <4>2, CurvesDrawable
      <4>4. tuned'.curve = c
        BY <1>6, <4>1 DEF Fields
      <4> QED  BY <1>2, <2>1, <4>3, <4>4
    <3> QED  BY <1>5, <2>5, <3>1, <3>2 DEF Tune!ChooseFans, Tune!Edit
  <2> QED  BY <1>11, <2>2, <2>3, <2>4, <2>5 DEF Tune!Change
<1>12. CASE Tune!Keyboard
  <2>1. UNCHANGED stowed
    BY <1>12 DEF Tune!Keyboard, Tune!Quietly
  <2>2. CASE tuned' = [p EXCEPT !.control = FALSE, !.keys = "single"]
    <3>1. tuned'.curve = p.curve
      BY <1>6, <2>2 DEF Fields
    <3> QED  BY <1>2, <1>6, <2>1, <3>1
  <2>3. CASE (\E w : tuned' = [p EXCEPT !.keys = w]) \/ tuned' = [p EXCEPT !.control = TRUE]
    BY <1>2, <1>7, <2>1, <2>3 DEF Fields
  <2> QED  BY <1>5, <1>12, <2>2, <2>3 DEF Tune!Keyboard, Tune!Edit
<1>13. CASE Tune!Preview
  BY <1>3, <1>13 DEF Tune!Preview
<1>14. CASE Tune!SwitchMode
  <2>1. UNCHANGED stowed /\ \E w : tuned' = [p EXCEPT !.pstate = w]
    BY <1>5, <1>14 DEF Tune!SwitchMode, Tune!Edit
  <2> QED  BY <1>2, <1>7, <2>1 DEF Fields
<1>15. CASE Tune!Slide
  <2>1. UNCHANGED stowed
    BY <1>15 DEF Tune!Slide
  <2>2. tuned' \in {[p EXCEPT !.power = v] : v \in 1..2} \cup
          (IF p.advanced
           THEN {[p EXCEPT !.advMemory = v] : v \in 0..1}
                \cup {[p EXCEPT !.advClocks = <<v, IF v > @[2] THEN v ELSE @[2]>>] : v \in 1..2}
                \cup {[p EXCEPT !.advClocks = <<IF v < @[1] THEN v ELSE @[1], v>>] : v \in 1..2}
           ELSE {[p EXCEPT !.core = v] : v \in 0..1} \cup {[p EXCEPT !.memory = v] : v \in 0..1}
                \cup {[p EXCEPT !.clocks = <<v, IF v > @[2] THEN v ELSE @[2]>>] : v \in 1..2}
                \cup {[p EXCEPT !.clocks = <<IF v < @[1] THEN v ELSE @[1], v>>] : v \in 1..2})
    BY <1>5, <1>15 DEF Tune!Slide, Tune!Edit
  <2>3. \/ \E w : \/ tuned' = [p EXCEPT !.power = w] \/ tuned' = [p EXCEPT !.advMemory = w]
               \/ tuned' = [p EXCEPT !.core = w] \/ tuned' = [p EXCEPT !.memory = w]
        \/ \E v : \/ tuned' = [p EXCEPT !.advClocks = <<v, IF v > p.advClocks[2] THEN v ELSE p.advClocks[2]>>]
               \/ tuned' = [p EXCEPT !.advClocks = <<IF v < p.advClocks[1] THEN v ELSE p.advClocks[1], v>>]
               \/ tuned' = [p EXCEPT !.clocks = <<v, IF v > p.clocks[2] THEN v ELSE p.clocks[2]>>]
               \/ tuned' = [p EXCEPT !.clocks = <<IF v < p.clocks[1] THEN v ELSE p.clocks[1], v>>]
    BY <1>6, <2>2 DEF Fields
  <2>4. tuned'.curve \in Drawable
    BY <1>7, <2>3 DEF Fields
  <2> QED  BY <1>2, <2>1, <2>4
<1>16. CASE Tune!Save
  BY <1>1, <1>16 DEF Tune!Save, CurveInv
<1>17. CASE Tune!Reset
  <2>1. UNCHANGED stowed /\ tuned' \in {Tune!Standard, Tune!Default}
    BY <1>17 DEF Tune!Reset, Tune!Edit, Tune!Quietly
  <2>2. PICK d : d = Tune!Default
    OBVIOUS
  <2>3. "curve" \in DOMAIN d /\ d.curve = <<>>
    BY <2>2 DEF Tune!Default
  <2>4. PICK e : e = Tune!Standard
    OBVIOUS
  <2>5. e.curve = <<>>
    BY <2>2, <2>3, <2>4 DEF Tune!Standard
  <2> QED  BY <1>2, <1>4, <2>1, <2>2, <2>3, <2>4, <2>5
<1>18. CASE Tune!Reapply
  BY <1>1, <1>18 DEF Tune!Reapply, CurveInv
<1>19. CASE Tune!Post
  BY <1>3, <1>19 DEF Tune!Post
<1>20. CASE Tune!Work
  BY <1>3, <1>20 DEF Tune!Work
<1>21. CASE Tune!ApplyPending
  BY <1>3, <1>21 DEF Tune!ApplyPending
<1> QED  BY <1>8, <1>9, <1>10, <1>11, <1>12, <1>13, <1>14, <1>15, <1>16, <1>17, <1>18, <1>19, <1>20,
            <1>21
         DEF Tune!Next

LEMMA FitControls ==
  ASSUME NoneIsNone, CurveBounds, PageInv, CurveInv  PROVE Tune!ControlsFit
<1>1. \A c \in {tuned.clocks, tuned.advClocks} : c # Nothing => c[1] <= c[2]
  BY DEF PageInv, InOrder, Upright
<1>2. PICK c : c = tuned.curve
  OBVIOUS
<1>3. PICK n : n = Len(c)
  OBVIOUS
<1>4. c \in Drawable /\ c \in Seq(Point) /\ n \in {0} \cup 2..MaxPoints /\ n \in Nat
  BY <1>2, <1>3 DEF CurveInv, Drawable, CurveBounds
<1>5. PICK m : m = Tune!PointAdded(c)
  OBVIOUS
<1>6. PICK new : new = Tune!Last(m)
  OBVIOUS
<1>7. ASSUME Len(m) > n, c # <<>>
      PROVE  /\ \E i, j \in 1..n : c[i][2] <= new[2] /\ new[2] <= c[j][2]
             /\ Tune!Valid(c) => Tune!Valid(m)
             /\ new[1] \in 0..Highest
             /\ Tune!HasRoom(Tune!Sorted(c)) => \A i \in 1..n : c[i][1] # new[1]
  <2>1. n < MaxPoints
    <3>1. CASE n >= MaxPoints
      <4>1. m = c
        BY <1>3, <1>5, <3>1 DEF Tune!PointAdded
      <4> QED  BY <1>3, <1>4, <1>7, <4>1
    <3> QED  BY <1>4, <3>1 DEF CurveBounds
  <2>2. PICK p \in Point :
          /\ m = Append(c, p)
          /\ \E i, j \in 1..n : c[i][2] <= p[2] /\ p[2] <= c[j][2]
          /\ Tune!Valid(c) => \A i \in 1..n : c[i][1] = p[1] => c[i][2] = p[2]
          /\ Tune!HasRoom(Tune!Sorted(c)) => \A i \in 1..n : c[i][1] # p[1]
    BY <1>3, <1>4, <1>5, <1>7, <2>1, PointFits
  <2>3. PICK P : P = Point
    OBVIOUS
  <2>4. Len(m) = n + 1 /\ m[n + 1] = p /\ \A i \in 1..n : m[i] = c[i]
    BY <1>3, <1>4, <2>2, <2>3, AppendProperties
  <2>5. new = p
    BY <1>6, <2>4 DEF Tune!Last
  <2>6. new[1] \in 0..Highest
    BY <2>5, PointIs
  <2>7. ASSUME Tune!Valid(c)  PROVE Tune!Valid(m)
    <3>1. \A i, j \in 1..n : c[i][1] = c[j][1] => c[i][2] = c[j][2]
      BY <1>3, <2>7 DEF Tune!Valid
    <3>2. \A i \in 1..n + 1 : i \in 1..n \/ i = n + 1
      BY <1>4
    <3>3. ASSUME NEW i \in 1..n + 1, NEW j \in 1..n + 1, m[i][1] = m[j][1]  PROVE m[i][2] = m[j][2]
      <4>1. CASE i \in 1..n /\ j \in 1..n
        BY <2>4, <3>1, <3>3, <4>1
      <4>2. CASE i \in 1..n /\ j = n + 1
        BY <2>2, <2>4, <2>7, <3>3, <4>2
      <4>3. CASE i = n + 1 /\ j \in 1..n
        BY <2>2, <2>4, <2>7, <3>3, <4>3
      <4>4. CASE i = n + 1 /\ j = n + 1
        BY <4>4
      <4> QED  BY <3>2, <4>1, <4>2, <4>3, <4>4
    <3> QED  BY <2>4, <3>3 DEF Tune!Valid
  <2> QED  BY <2>2, <2>5, <2>6, <2>7
<1> QED  BY <1>1, <1>2, <1>3, <1>4, <1>5, <1>6, <1>7 DEF Tune!ControlsFit

\* Whatever is edited, dragged, slid, saved, reset and applied again, in any order with the
\* readings that come, the tasks that lag, the gate's answers and the deferred steps: once all has
\* been done the adapter has what the last Save meant, unless it overtook a slider, something else
\* has been set since or the gate forbade a part of it, and nothing is deferred that would undo it;
\* so have the keyboard and the CPU, unless the daemon skipped the profile after something else had
\* been set; looking at the page changes nothing that is set and settles at once; no range is
\* upside down; and a point that is added to a curve, of any length, lies between its points, makes
\* no curve invalid, and is at a temperature of its own while there is one.
THEOREM PageMeansWhatItSays ==
  ASSUME NoneIsNone, CurveBounds
  PROVE  Tune!Spec => []TuningKeeps
<1>1. Tune!Init => CallsInv /\ PageInv /\ CurveInv
  BY CallsInit, PageInit, CurveInit
<1>2. CallsInv /\ PageInv /\ CurveInv /\ [Tune!Next]_(Tune!tuningVars) => (CallsInv /\ PageInv /\ CurveInv)'
  BY CallsNext, PageNext, CurveNext
<1>3. CallsInv /\ PageInv /\ CurveInv => TuningKeeps
  BY SaidIsDone, LookKeeps, FitControls DEF TuningKeeps
<1> QED  BY <1>1, <1>2, <1>3, PTL DEF Tune!Spec
=============================================================================
