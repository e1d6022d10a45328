---------------------------- MODULE GuiRequests -----------------------------
(***************************************************************************)
(* How the window gets its data.  A coordinator ticks the components of the *)
(* poll set; each tick spawns a task that asks the daemon and passes the     *)
(* reply to the frame through a bounded channel.  All calls, the polled ones *)
(* and the user's, go through one queue to one worker, which keeps the       *)
(* connection and replaces it when it seems dead.  No frame runs while the   *)
(* window is hidden.                                                        *)
(***************************************************************************)
EXTENDS Integers, Sequences

CONSTANTS
  Components,  \* the registered components; "gpu" also takes the deferred report
  Capacity,    \* slots of the update channel
  Limit,       \* failures in a row that the worker puts up with
  MaxOrders,   \* bound: calls of the user in the queue
  MaxReports   \* bound: reports of the daemon

Stages == {"asked", "answered", "failed", "taking", "taken", "sent", "last"}

VARIABLES
  active,   \* InFlightSet: the components with a permit out
  tasks,    \* how many fetch tasks of a component are at a stage
  queue,    \* the worker's command channel
  pending,  \* pending_profile_apply: the order whose reply is waited for, 0 if none
  replies,  \* the orders answered and not yet read
  ordered,  \* orders so far
  worker,   \* "connecting" or "ready"
  fails,    \* consecutive_failures
  alive,    \* the worker's connection works
  service,  \* the daemon is on the bus
  report,   \* the deferred report the daemon holds: its number, 0 if none
  made,     \* reports so far
  mislaid,  \* history: reports that the daemon gave in a reply which was lost
  chan,     \* the update channel: the number of a report, 0 for a sample
  latch,    \* REPAINT_PENDING
  due,      \* a frame has been requested
  frame,    \* "off", "reading" the channel, or "drawing"
  visible,  \* the window is on screen
  shown     \* the reports shown

fetches == <<active, tasks>>
orders == <<pending, replies, ordered>>
link == <<worker, fails, alive, service>>
reports == <<report, made, mislaid>>
screen == <<chan, latch, due, frame, visible, shown>>
requestVars == <<fetches, queue, orders, link, reports, screen>>

Task == [component : Components, stage : Stages]
At(c, s) == [component |-> c, stage |-> s]
\* The component's one task.
IsAt(c, s) == \A r \in Stages : tasks[At(c, r)] = IF r = s THEN 1 ELSE 0
Command == [kind : {"read", "take"}, component : Components, order : {0}]
           \cup [kind : {"order"}, component : {"user"}, order : 1..MaxOrders]

TypeOK ==
  /\ active \subseteq Components /\ tasks \in [Task -> Nat]
  /\ queue \in Seq(Command) /\ pending \in 0..MaxOrders /\ replies \subseteq 1..MaxOrders
  /\ ordered \in 0..MaxOrders /\ worker \in {"connecting", "ready"} /\ fails \in 0..Limit
  /\ {alive, service, latch, due, visible} \subseteq BOOLEAN /\ frame \in {"off", "reading", "drawing"}
  /\ report \in 0..MaxReports /\ made \in 0..MaxReports /\ Len(chan) <= Capacity
  /\ shown \subseteq 1..MaxReports /\ mislaid \subseteq 1..MaxReports

Init ==
  /\ active = {} /\ tasks = [t \in Task |-> 0]
  /\ queue = <<>> /\ pending = 0 /\ replies = {} /\ ordered = 0
  /\ worker = "connecting" /\ fails = 0 /\ alive = TRUE /\ service \in BOOLEAN
  /\ report = 0 /\ made = 0 /\ mislaid = {}
  /\ chan = <<>> /\ latch = FALSE /\ due = FALSE /\ frame = "off" /\ visible = TRUE
  /\ shown = {}

-----------------------------------------------------------------------------
(* The coordinator.                                                         *)

\* Mutant of MayBegin: every tick begins a request.
BeginAlways(c) == TRUE

\* InFlightSet::try_begin.
MayBegin(c) == c \notin active

Move(c, from, to) == [tasks EXCEPT ![At(c, from)] = @ - 1, ![At(c, to)] = @ + 1]
End(c, from) == tasks' = [tasks EXCEPT ![At(c, from)] = @ - 1] /\ active' = active \ {c}

Ask(kind, c) == queue' = Append(queue, [kind |-> kind, component |-> c, order |-> 0])

\* A component is due: its task asks unless one is still in flight.
Tick(c) ==
  /\ MayBegin(c)
  /\ active' = active \cup {c}
  /\ tasks' = [tasks EXCEPT ![At(c, "asked")] = @ + 1]
  /\ Ask("read", c)
  /\ UNCHANGED <<orders, link, reports, screen>>

-----------------------------------------------------------------------------
(* A fetch task, after its reply.                                           *)

\* Mutant of Lossless: the report is sent like a sample.
SampleLike == TRUE

\* send_update waits for room; send_polled_update drops what does not fit.
Lossless == Len(chan) < Capacity

Push(m) == chan' = IF Len(chan) < Capacity THEN Append(chan, m) ELSE chan

\* After its reading the gpu task takes the report, whether or not it was read.
AfterReading(c, from, to) ==
  IF c = "gpu"
  THEN tasks' = Move(c, from, to) /\ UNCHANGED active
  ELSE End(c, from)

Answered(c) ==
  /\ tasks[At(c, "answered")] > 0
  /\ Push(0)
  /\ IF Len(chan) < Capacity
     THEN tasks' = Move(c, "answered", "sent") /\ UNCHANGED active
     ELSE AfterReading(c, "answered", "failed")
  /\ UNCHANGED <<queue, orders, link, reports, latch, due, frame, visible, shown>>

\* request_repaint_now: one request until a frame has begun.
Repaint ==
  /\ latch' = TRUE /\ due' = (due \/ ~latch)
  /\ UNCHANGED <<chan, frame, visible, shown>>

Requested(c) ==
  /\ tasks[At(c, "sent")] > 0
  /\ Repaint /\ AfterReading(c, "sent", "failed")
  /\ UNCHANGED <<queue, orders, link, reports>>

AskReport(c) ==
  /\ tasks[At(c, "failed")] > 0
  /\ IF c = "gpu" THEN Ask("take", c) /\ tasks' = Move(c, "failed", "taking") /\ UNCHANGED active
                  ELSE End(c, "failed") /\ UNCHANGED queue
  /\ UNCHANGED <<orders, link, reports, screen>>

\* The report's number is the newest that was made: one task takes at a time.
SendReport(c) ==
  /\ tasks[At(c, "taken")] > 0 /\ Lossless
  /\ Push(made) /\ tasks' = Move(c, "taken", "last")
  /\ UNCHANGED <<active, queue, orders, link, reports, latch, due, frame, visible, shown>>

Finish(c) ==
  /\ tasks[At(c, "last")] > 0
  /\ Repaint /\ End(c, "last")
  /\ UNCHANGED <<queue, orders, link, reports>>

-----------------------------------------------------------------------------
(* The worker.                                                              *)

\* Connection::system and Proxy::new, retried for ever.
Connect ==
  /\ worker = "connecting"
  /\ worker' = "ready" /\ alive' = TRUE /\ fails' = 0
  /\ UNCHANGED <<fetches, queue, orders, service, reports, screen>>

\* Every call of the interface goes through the one proxy of the connection.
Works == alive /\ service

\* The reply of a command, dropped if nobody waits for it.  A call that fails, for a method's
\* error or a lost reply, may have been carried out: the daemon then no longer holds the report.
Reply(m, ok) ==
  CASE m.kind = "read" ->
         /\ tasks' = Move(m.component, "asked", IF ok THEN "answered" ELSE "failed")
         /\ UNCHANGED <<active, orders, reports>>
    [] m.kind = "take" ->
         /\ IF ok /\ report # 0
            THEN tasks' = Move(m.component, "taking", "taken") /\ UNCHANGED active
            ELSE End(m.component, "taking")
         /\ \/ report' = (IF ok THEN 0 ELSE report) /\ UNCHANGED mislaid
            \/ ~ok /\ Works /\ report # 0 /\ report' = 0 /\ mislaid' = mislaid \cup {report}
         /\ UNCHANGED <<orders, made>>
    [] m.kind = "order" ->
         /\ replies' = replies \cup ({m.order} \cap {pending})
         /\ UNCHANGED <<fetches, pending, ordered, reports>>

\* Mutant of GiveUp: the worker trusts the connection.
NeverGiveUp == FALSE

\* The error has become "DBus call failed" when it is looked at, which names no
\* cause: only the number of failures counts.
GiveUp == fails = Limit

Call ==
  /\ worker = "ready" /\ queue # <<>>
  /\ \E ok \in {FALSE, Works} :
         /\ Reply(Head(queue), ok)
         /\ IF ok THEN fails' = 0 /\ UNCHANGED worker
            ELSE IF GiveUp THEN worker' = "connecting" /\ UNCHANGED fails
            ELSE fails' = (IF fails < Limit THEN fails + 1 ELSE fails) /\ UNCHANGED worker
  /\ queue' = Tail(queue)
  /\ UNCHANGED <<alive, service, screen>>

-----------------------------------------------------------------------------
(* The frame.                                                               *)

\* Mutant of ClearedAt: the latch is cleared when the channel has been read.
ClearedLate(step) == latch /\ step # "end"

\* handle_hardware_updates clears the latch before it reads.
ClearedAt(step) == latch /\ step # "begin"

\* A requested frame, or one of the timer.
BeginFrame ==
  /\ visible /\ frame = "off"
  /\ frame' = "reading" /\ due' = FALSE /\ latch' = ClearedAt("begin")
  /\ UNCHANGED <<fetches, queue, orders, link, reports, chan, visible, shown>>

ReadUpdate ==
  /\ frame = "reading" /\ chan # <<>>
  /\ chan' = Tail(chan)
  /\ shown' = shown \cup ({Head(chan)} \cap 1..MaxReports)
  /\ UNCHANGED <<fetches, queue, orders, link, reports, latch, due, frame, visible>>

EndReading ==
  /\ frame = "reading" /\ chan = <<>>
  /\ frame' = "drawing"
  /\ UNCHANGED <<fetches, queue, orders, link, reports, chan, latch, due, visible, shown>>

\* The reply of the user's call is read after the updates.
EndFrame ==
  /\ frame = "drawing"
  /\ frame' = "off" /\ latch' = ClearedAt("end")
  /\ IF pending \in replies THEN pending' = 0 /\ replies' = {} ELSE UNCHANGED <<pending, replies>>
  /\ UNCHANGED <<fetches, queue, ordered, link, reports, chan, due, visible, shown>>

\* The user applies a profile; the receiver of an earlier call is dropped.
Order ==
  /\ frame = "drawing" /\ ordered < MaxOrders
  /\ ordered' = ordered + 1 /\ pending' = ordered + 1 /\ replies' = {}
  /\ queue' = Append(queue, [kind |-> "order", component |-> "user", order |-> ordered + 1])
  /\ UNCHANGED <<fetches, link, reports, screen>>

Hide ==
  /\ frame = "off" /\ visible' = ~visible
  /\ UNCHANGED <<fetches, queue, orders, link, reports, chan, latch, due, frame, shown>>

-----------------------------------------------------------------------------
(* The daemon and the bus.                                                  *)

MakeReport ==
  /\ made < MaxReports /\ report = 0 /\ tasks[At("gpu", "taken")] = 0
  /\ made' = made + 1 /\ report' = made + 1
  /\ UNCHANGED <<mislaid, fetches, queue, orders, link, screen>>

Service ==
  /\ service' = ~service
  /\ UNCHANGED <<fetches, queue, orders, worker, fails, alive, reports, screen>>

Die ==
  /\ worker = "ready" /\ alive /\ alive' = FALSE
  /\ UNCHANGED <<fetches, queue, orders, worker, fails, service, reports, screen>>

-----------------------------------------------------------------------------
TaskStep(c) == Answered(c) \/ Requested(c) \/ AskReport(c) \/ SendReport(c) \/ Finish(c)
WorkerStep == Connect \/ Call
FrameStep == BeginFrame \/ ReadUpdate \/ EndReading \/ EndFrame

Next ==
  \/ WorkerStep \/ FrameStep
  \/ \E c \in Components : Tick(c) \/ TaskStep(c)
  \/ Order \/ Hide
  \/ MakeReport \/ Service \/ Die

Spec == Init /\ [][Next]_requestVars

\* Calls end, tasks run, and a component is ticked again and again.
Fairness ==
  /\ WF_requestVars(WorkerStep)
  /\ \A c \in Components : WF_requestVars(Tick(c)) /\ WF_requestVars(TaskStep(c))

-----------------------------------------------------------------------------
(* Properties.                                                              *)

\* However long the window is hidden, a component has one task at most, and the
\* worker's queue holds one command of it (InFlightSet: "queued task per tick is
\* unbounded growth").
OneFetchEach ==
  /\ \A c \in Components :
       IF c \in active THEN \E s \in Stages : IsAt(c, s)
       ELSE \A s \in Stages : tasks[At(c, s)] = 0
  /\ \A i, j \in DOMAIN queue :
       queue[i].component \in Components /\ queue[j].component = queue[i].component => i = j

\* A report that the daemon has handed out in a reply that came is in the task, in
\* the channel or has been shown (the gpu component of the callback: "a full channel
\* must wait, not drop").
TakenReportKept ==
  \A n \in 1..made :
    \/ report = n \/ n \in shown \/ n \in mislaid \/ (\E i \in DOMAIN chan : chan[i] = n)
    \/ n = made /\ tasks[At("gpu", "taken")] = 1

\* What has arrived has a frame requested for it, once the sender got so far
\* (request_repaint_now, handle_hardware_updates).
ArrivalsAreDrawn ==
  chan # <<>> /\ frame # "reading" /\ (\A c \in Components, s \in {"sent", "last"} : tasks[At(c, s)] = 0) => due

\* What a frame may rely on: one request for each component, no report lost that
\* was given, a frame requested for what has arrived (InFlightSet of
\* polling_scheduler.rs, the gpu component of app.rs, request_repaint_now).
ReportsShown == OneFetchEach /\ TakenReportKept /\ ArrivalsAreDrawn /\ TypeOK

\* A dead connection is replaced, whatever the errors say (dbus_worker, "Safety
\* net").
WorkerRecovers == ~alive ~> alive

\* A call that fails because the daemon is not on the bus makes the worker
\* reconnect (dbus_worker: "Reconnect on connection-level failures AND on the
\* service-absent family").
ServiceAbsentReconnects ==
  [][Call /\ ~service => worker' = "connecting"]_requestVars
=============================================================================
