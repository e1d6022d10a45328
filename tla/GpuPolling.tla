----------------------------- MODULE GpuPolling -----------------------------
(***************************************************************************)
(* How the daemon reads NVIDIA adapters without keeping them awake.  Any    *)
(* call of the driver's library resets the timer after which the kernel     *)
(* suspends an adapter, so each pass decides from the sysfs status and from *)
(* what earlier passes saw (GPU_POLL_STATE) which adapters it may ask.      *)
(*                                                                         *)
(* A pass takes the status of every adapter first and then goes through     *)
(* them; passes of the scheduler's jobs and of a client's call interleave.  *)
(* A tick is a unit of time in which every job runs once.                   *)
(***************************************************************************)
EXTENDS Integers, FiniteSets

CONSTANTS
  Adapters,    \* the adapters
  Clients,     \* D-Bus tasks whose calls refresh the cache
  Jobs,        \* of {"monitor", "dynamic"}: the jobs that read adapters
  Delay,       \* ticks without a touch after which the kernel may suspend
  Latency,     \* ticks it may take to do so
  Reprobe,     \* QUIET_REPROBE_SECS, in ticks
  UtilFails    \* whether the utilization may be unreadable

Job == "job"
Threads == Clients \cup {Job}
None == -1
Idle == [kind |-> "none", status |-> <<>>, left |-> {}, identify |-> FALSE]

VARIABLES
  power,   \* per adapter: its runtime status
  work,    \* per adapter: "none", "light" or "heavy"
  rest,    \* per adapter: ticks since it was last touched or working
  poll,    \* GPU_POLL_STATE
  pass,    \* per thread: the pass it is in
  due,     \* the jobs that have yet to run in this tick
  woken    \* history: passes asked an adapter whose status they had read as suspended,
           \* "along" with one that was awake, or "alone"; or "no" pass did

pollVars == <<power, work, rest, poll, pass, due, woken>>

Unseen == [status |-> "none", pstate |-> None, load |-> None, age |-> None]

TypeOK ==
  /\ power \in [Adapters -> {"active", "suspended"}]
  /\ work \in [Adapters -> {"none", "light", "heavy"}]
  /\ rest \in [Adapters -> 0..Delay + Latency]
  /\ poll \in [Adapters -> [status : {"none", "active", "suspended"},
                            pstate : {None, 0, 3, 8}, load : {None, 0, 5},
                            age : {None} \cup 0..Reprobe]]
  /\ \A t \in Threads : pass[t].kind \in {"none", "monitor", "dynamic", "fans"}
                         /\ pass[t].left \subseteq Adapters
  /\ due \subseteq Jobs /\ woken \in {"no", "along", "alone"}

Init ==
  /\ power \in [Adapters -> {"active", "suspended"}]
  /\ work = [a \in Adapters |-> "none"] /\ rest = [a \in Adapters |-> 0]
  /\ poll = [a \in Adapters |-> Unseen]
  /\ pass = [t \in Threads |-> Idle] /\ due = Jobs /\ woken = "no"

-----------------------------------------------------------------------------
(* Which adapters may be asked.                                             *)

\* Mutant of Tier: a status that was read is not looked at.
TierByStateOnly(s, status) ==
  IF \/ s.status \in {"none", "suspended"} \/ s.pstate \in 0..2 \/ s.load > 1
     \/ s.age \in {None, Reprobe}
  THEN "live" ELSE "quiet"

\* gpu_poll_tier: a wake-up, the states P0 to P2, utilization above 1 %, no probe
\* yet, and the end of the waiting time let the pass ask.
Tier(s, status) ==
  CASE status = "suspended" -> "suspended"
    [] status # "suspended" /\ ( \/ s.status \in {"none", "suspended"}
                                 \/ s.pstate \in 0..2 \/ s.load > 1
                                 \/ s.age \in {None, Reprobe} ) -> "live"
    [] OTHER -> "quiet"

\* Mutant of Observed: the waiting time begins anew.
ObservedAnew(s, status) == [s EXCEPT !.status = status, !.age = 0]

\* record_gpu_observation.
Observed(s, status) == [s EXCEPT !.status = status]

\* Mutant of Probed: the status is left to the passes that only look.
ProbedNoStatus(s, status, pstate, load) ==
  [s EXCEPT !.pstate = pstate, !.load = IF load = None THEN @ ELSE load, !.age = 0]

\* record_gpu_probe: what could not be read keeps its old value.
Probed(s, status, pstate, load) ==
  [status |-> status, pstate |-> pstate, load |-> IF load = None THEN s.load ELSE load, age |-> 0]

-----------------------------------------------------------------------------
(* A pass.                                                                  *)

\* The library is asked about adapters by a pass that read these status words:
\* their timers begin anew, and one that was suspended is not any more.
Touch(A, status) ==
  /\ power' = [a \in Adapters |-> IF a \in A THEN "active" ELSE power[a]]
  /\ rest' = [a \in Adapters |-> IF a \in A THEN 0 ELSE rest[a]]
  /\ LET sleepers == {a \in A : status[a] = "suspended"} IN
     woken' = IF sleepers = {} \/ woken = "alone" THEN woken
              ELSE IF sleepers = A THEN "alone" ELSE "along"

Live(status) == {a \in Adapters : Tier(poll[a], status[a]) = "live"}

\* get_nvidia_gpu_info reads the status words; if no adapter may be asked, it
\* leaves with what it saw.
Begin(t, kind) ==
  /\ pass[t] = Idle
  /\ IF Live(power) = {}
     THEN /\ poll' = [a \in Adapters |-> Observed(poll[a], power[a])]
          /\ UNCHANGED pass
     ELSE /\ pass' = [pass EXCEPT ![t] =
                        [kind |-> kind, status |-> power, left |-> Adapters, identify |-> TRUE]]
          /\ UNCHANGED poll
  /\ UNCHANGED <<power, work, rest, woken>>

BeginJob(kind) == kind \in due /\ due' = due \ {kind} /\ Begin(Job, kind)

\* A call that changes the governor or the pstate mode refreshes the cache.
BeginCall(c) == Begin(c, "monitor") /\ UNCHANGED due

\* The identity of every device is asked first, also of those that the pass may
\* not query.
Identify(t) ==
  /\ pass[t].identify
  /\ pass' = [pass EXCEPT ![t].identify = FALSE]
  /\ Touch(Adapters, pass[t].status)
  /\ UNCHANGED <<work, poll, due>>

PState(w) == CASE w = "heavy" -> {0} [] w = "light" -> {3} [] w = "none" -> {3, 8}

\* An adapter's turn: its tier again, with the status taken at the beginning.
\* The pass of dynamic steering does not read the utilization.
Query(t, a) ==
  /\ ~pass[t].identify /\ a \in pass[t].left
  /\ LET status == pass[t].status[a]
         util == IF pass[t].kind = "dynamic" THEN {None}
                 ELSE {IF work[a] = "none" THEN 0 ELSE 5} \cup (IF UtilFails THEN {None} ELSE {})
     IN  IF Tier(poll[a], status) = "live"
         THEN /\ Touch({a}, pass[t].status)
              /\ \E p \in PState(work[a]), u \in util :
                   poll' = [poll EXCEPT ![a] = Probed(@, status, p, u)]
         ELSE /\ poll' = [poll EXCEPT ![a] = Observed(@, status)]
              /\ UNCHANGED <<power, rest, woken>>
  /\ pass' = [pass EXCEPT ![t] =
               IF pass[t].left = {a} THEN Idle ELSE [pass[t] EXCEPT !.left = @ \ {a}]]
  /\ UNCHANGED <<work, due>>

\* get_all_fan_info: the fans of an adapter that may be asked; nothing is
\* recorded.
ReadFans ==
  /\ pass[Job] = Idle /\ Live(power) # {}
  /\ Touch(Adapters, power)
  /\ UNCHANGED <<work, poll, pass, due>>

-----------------------------------------------------------------------------
(* The adapters.                                                            *)

Work(a, w) ==
  /\ work[a] # w
  /\ work' = [work EXCEPT ![a] = w]
  /\ power' = [power EXCEPT ![a] = "active"] /\ rest' = [rest EXCEPT ![a] = 0]
  /\ UNCHANGED <<poll, pass, due, woken>>

CanSuspend(a) == power[a] = "active" /\ work[a] = "none" /\ rest[a] >= Delay
Suspend(a) ==
  /\ CanSuspend(a)
  /\ power' = [power EXCEPT ![a] = "suspended"]
  /\ UNCHANGED <<work, rest, poll, pass, due, woken>>

\* Every job has run, and no pass of a call takes longer than a tick.
Tick ==
  /\ due = {} /\ \A t \in Threads : pass[t] = Idle
  /\ \A a \in Adapters : CanSuspend(a) => rest[a] < Delay + Latency
  /\ rest' = [a \in Adapters |-> IF power[a] = "active" /\ work[a] = "none"
                                 THEN rest[a] + 1 ELSE 0]
  /\ poll' = [a \in Adapters |-> IF poll[a].age \in 0..Reprobe-1
                                 THEN [poll[a] EXCEPT !.age = @ + 1] ELSE poll[a]]
  /\ due' = Jobs
  /\ UNCHANGED <<power, work, pass, woken>>

-----------------------------------------------------------------------------
PassStep(t) == Identify(t) \/ \E a \in Adapters : Query(t, a)
JobStep == (\E k \in Jobs : BeginJob(k)) \/ PassStep(Job)

Next ==
  \/ JobStep
  \/ ReadFans
  \/ \E c \in Clients : BeginCall(c) \/ PassStep(c)
  \/ \E a \in Adapters : (\E w \in {"none", "light", "heavy"} : Work(a, w)) \/ Suspend(a)
  \/ Tick

Spec == Init /\ [][Next]_pollVars

\* The jobs run, time passes, and the kernel suspends what has rested.
Fairness ==
  /\ WF_pollVars(JobStep) /\ WF_pollVars(Tick)
  /\ \A c \in Clients : WF_pollVars(PassStep(c))
  /\ \A a \in Adapters : WF_pollVars(Suspend(a))

FairSpec == Spec /\ Fairness

-----------------------------------------------------------------------------
(* Properties.                                                              *)

\* An adapter without work is suspended in the end and stays so: the passes of
\* the daemon do not keep it awake (hardware_detection.rs, "dGPU polling tiers").
\* Of one adapter: one that works keeps the other awake, for the reason given below.
IdleAdapterSleeps ==
  \A a \in Adapters : <>[](work[a] = "none") => <>[](power[a] = "suspended")

\* An adapter with work is read in every pass in the end, at any P-state
\* (gpu_poll_tier).
WorkIsLive ==
  \A a \in Adapters :
    <>[](work[a] # "none") => <>[](Tier(poll[a], power[a]) = "live")

\* A pass that saw every adapter suspended asks none, and no pass queries one that it saw
\* suspended: such an adapter is asked for its identity, or about its fans, together with
\* one that was awake, and not otherwise (get_nvidia_gpu_info: "Nothing may be queried this
\* tick").  One that suspends after its status was read can be woken: the code does not
\* exclude that.
NotAskedAlone == woken # "alone"

\* No pass asks an adapter that it saw suspended (get_nvidia_gpu_info: "a suspended
\* adapter is never touched").  With two adapters the code does: a pass for one that is
\* awake takes the handle of every device (Identify).
SuspendedNotAsked == woken = "no"
=============================================================================
