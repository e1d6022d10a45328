-------------------------- MODULE PollingScheduler --------------------------
(***************************************************************************)
(* The daemon's polling scheduler and the settings it is kept in step with: *)
(* one task selects between the next due job and the command channel, and   *)
(* runs due jobs one after the other; D-Bus calls change DAEMON_POLL_SETTINGS *)
(* and send interval updates into the channel.                              *)
(*                                                                         *)
(* Time is discrete and relative: a job's "left" is what remains until its  *)
(* next_run, negative once it is late.  The wait of a new job in the channel *)
(* is not counted: it is due when it arrives.                               *)
(***************************************************************************)
EXTENDS Integers, Sequences, FiniteSets

CONSTANTS
  Calls,      \* the D-Bus calls that can be in flight at once
  Rates,      \* the rates a client may send for a section
  OcRates,    \* those the slider of the tuning page offers
  Floor,      \* no synced interval is shorter (50 ms)
  MaxRun,     \* bound: the time one run of a job takes
  MaxSyncs    \* bound: settings changes in a behaviour

Jobs == {"hardware_monitor", "fan_control", "gpu_overclock"}

ASSUME ConstantsOK ==
  /\ Rates \subseteq Nat /\ OcRates \subseteq Nat
  /\ Floor \in Nat \ {0} /\ \A r \in OcRates : r >= Floor
  /\ MaxRun \in Nat /\ MaxSyncs \in Nat

Payload == [cpu : Rates, gpu : Rates, fans : Rates, oc : OcRates]

VARIABLES
  left,      \* per job: the time until next_run
  interval,  \* per job: its interval
  heap,      \* the jobs in the scheduler's heap
  batch,     \* the due jobs execute_due_jobs has yet to run
  commands,  \* the command channel
  settings,  \* DAEMON_POLL_SETTINGS: per job its interval
  pc,        \* where each call is
  payload,   \* the rates a call was sent
  updates,   \* the interval updates a call has yet to send
  syncs      \* the settings changes so far

scheduler == <<left, interval, heap, batch>>
calls == <<pc, payload, updates, syncs>>
vars == <<scheduler, commands, settings, calls>>

\* Mutant of AtLeast: rates are taken as they come.
AtLeastNothing(r) == r

AtLeast(r) == IF r < Floor THEN Floor ELSE r
Least(r, s) == IF r < s THEN r ELSE s

\* DaemonPollSettings::from: one job feeds the CPU and the GPU section.
From(p) ==
  [hardware_monitor |-> AtLeast(Least(p.cpu, p.gpu)),
   fan_control |-> AtLeast(p.fans),
   gpu_overclock |-> AtLeast(p.oc)]

Update(j, i) == [type |-> "UpdateInterval", job |-> j, interval |-> i]
Add(j) == [type |-> "AddJob", job |-> j, interval |-> interval[j]]

\* compute_interval_updates.
IntervalUpdates(prev, next) ==
  LET changed(j) == IF prev[j] # next[j] THEN <<Update(j, next[j])>> ELSE <<>>
  IN changed("hardware_monitor") \o changed("fan_control") \o changed("gpu_overclock")

\* main: the settings file is read, then the three jobs are queued; each is due
\* at once.
Init ==
  /\ \E p \in Payload : settings = From(p)
  /\ interval = settings
  /\ left = [j \in Jobs |-> 0]
  /\ heap = {} /\ batch = <<>>
  /\ commands = <<Add("hardware_monitor"), Add("fan_control"), Add("gpu_overclock")>>
  /\ pc = [c \in Calls |-> "idle"]
  /\ payload = [c \in Calls |-> CHOOSE p \in Payload : TRUE]
  /\ updates = [c \in Calls |-> <<>>]
  /\ syncs = 0

(***************************************************************************)
(* The scheduler task.                                                     *)
(***************************************************************************)
\* Mutant of Due: cmp is not reversed, and the job on top is the latest one.
DueFromLatest == IF \A j \in heap : left[j] <= 0 THEN heap ELSE {}

\* The jobs that the peek-and-pop loop of execute_due_jobs takes.
Due == {j \in heap : left[j] <= 0}

\* The two branches of the select race whenever both are ready.
Command ==
  /\ batch = <<>> /\ commands # <<>>
  /\ LET cmd == Head(commands)
     IN IF cmd.type = "AddJob"
        THEN heap' = heap \cup {cmd.job} /\ UNCHANGED <<left, interval>>
        ELSE /\ left' = [left EXCEPT ![cmd.job] = IF cmd.job \in heap THEN cmd.interval ELSE @]
             /\ interval' = [interval EXCEPT ![cmd.job] =
                               IF cmd.job \in heap THEN cmd.interval ELSE @]
             /\ UNCHANGED heap
  /\ commands' = Tail(commands)
  /\ UNCHANGED <<batch, settings, calls>>

\* The due jobs in an order the heap may give them up in: earliest first.
Collected ==
  {o \in [1..Cardinality(Due) -> Due] :
     \A i, k \in DOMAIN o : i < k => o[i] # o[k] /\ left[o[i]] <= left[o[k]]}

\* execute_due_jobs takes every job that is due now off the heap.
CollectDue ==
  /\ batch = <<>> /\ Due # {}
  /\ batch' \in Collected
  /\ heap' = heap \ Due
  /\ UNCHANGED <<left, interval, commands, settings, calls>>

Registered == {j \in Jobs : j \in heap \/ \E i \in DOMAIN batch : batch[i] = j}

\* The clocks after a run of j that took d: next_run is an interval from its end.
After(j, d) ==
  [k \in Jobs |-> IF k \notin Registered THEN left[k]
                  ELSE IF k = j THEN interval[k] ELSE left[k] - d]

\* Mutant of RunJob: a job that fails is not put back.
RunJobDropped ==
  /\ batch # <<>>
  /\ \E d \in 0..MaxRun : left' = After(Head(batch), d)
  /\ heap' \in {heap, heap \cup {Head(batch)}}
  /\ batch' = Tail(batch)
  /\ UNCHANGED <<interval, commands, settings, calls>>

\* One job of the batch runs, fails or not, and goes back on the heap.
RunJob ==
  /\ batch # <<>>
  /\ \E d \in 0..MaxRun : left' = After(Head(batch), d)
  /\ heap' = heap \cup {Head(batch)}
  /\ batch' = Tail(batch)
  /\ UNCHANGED <<interval, commands, settings, calls>>

\* Time passes while the task sleeps: it wakes as soon as there is work.
Tick ==
  /\ batch = <<>> /\ commands = <<>> /\ Due = {}
  /\ left' = [j \in Jobs |-> IF j \in heap THEN left[j] - 1 ELSE left[j]]
  /\ UNCHANGED <<interval, heap, batch, commands, settings, calls>>

(***************************************************************************)
(* The D-Bus calls.                                                        *)
(***************************************************************************)
\* Mutant of SyncDiff: the settings are stored before they are compared.
SyncDiffStored(c, p) ==
  /\ pc[c] = "idle" /\ syncs < MaxSyncs
  /\ syncs' = syncs + 1
  /\ payload' = [payload EXCEPT ![c] = p]
  /\ updates' = [updates EXCEPT ![c] = IntervalUpdates(From(p), From(p))]
  /\ pc' = [pc EXCEPT ![c] = "store"]
  /\ UNCHANGED <<scheduler, commands, settings>>

\* sync_from: the difference is taken under the lock, which is then released.
SyncDiff(c, p) ==
  /\ pc[c] = "idle" /\ syncs < MaxSyncs
  /\ syncs' = syncs + 1
  /\ payload' = [payload EXCEPT ![c] = p]
  /\ updates' = [updates EXCEPT ![c] = IntervalUpdates(settings, From(p))]
  /\ pc' = [pc EXCEPT ![c] = "store"]
  /\ UNCHANGED <<scheduler, commands, settings>>

\* The lock is taken again to store the settings.
SyncStore(c) ==
  /\ pc[c] = "store"
  /\ settings' = From(payload[c])
  /\ pc' = [pc EXCEPT ![c] = "send"]
  /\ UNCHANGED <<scheduler, commands, payload, updates, syncs>>

SyncSend(c) ==
  /\ pc[c] = "send" /\ updates[c] # <<>>
  /\ commands' = Append(commands, Head(updates[c]))
  /\ updates' = [updates EXCEPT ![c] = Tail(@)]
  /\ UNCHANGED <<scheduler, settings, pc, payload, syncs>>

\* The tuning page follows its sync with UpdatePollingInterval, a call that
\* leaves DAEMON_POLL_SETTINGS alone and is not clamped.
UpdatePollingInterval(c) ==
  /\ pc[c] = "send" /\ updates[c] = <<>>
  /\ commands' = Append(commands, Update("gpu_overclock", payload[c].oc))
  /\ pc' = [pc EXCEPT ![c] = "idle"]
  /\ UNCHANGED <<scheduler, settings, payload, updates, syncs>>

\* The other pages do not, or name a section that is no job.
SyncEnd(c) ==
  /\ pc[c] = "send" /\ updates[c] = <<>>
  /\ pc' = [pc EXCEPT ![c] = "idle"]
  /\ UNCHANGED <<scheduler, commands, settings, payload, updates, syncs>>

CallStep(c) == SyncStore(c) \/ SyncSend(c) \/ UpdatePollingInterval(c) \/ SyncEnd(c)

Next ==
  \/ Command \/ CollectDue \/ RunJob \/ Tick
  \/ \E c \in Calls : CallStep(c) \/ \E p \in Payload : SyncDiff(c, p)

Spec == Init /\ [][Next]_vars

\* The task keeps running and so does the clock; the select picks a branch at
\* random, so that a command is not passed over for ever.
FairSpec ==
  Spec /\ SF_vars(Command) /\ WF_vars(CollectDue) /\ WF_vars(RunJob) /\ WF_vars(Tick)

(***************************************************************************)
(* Properties.                                                             *)
(***************************************************************************)
Message ==
  [type : {"AddJob", "UpdateInterval"}, job : Jobs, interval : Nat \ {0}]

\* Every variable has its type: whatever rates are sent no interval is zero, so
\* that no job spins, and a job is in the heap or in the batch, once.
TypeOK ==
  /\ left \in [Jobs -> Int]
  /\ interval \in [Jobs -> Nat \ {0}] /\ settings \in [Jobs -> Nat \ {0}]
  /\ heap \subseteq Jobs /\ batch \in Seq(Jobs)
  /\ \A i, k \in DOMAIN batch : batch[i] \notin heap /\ (i # k => batch[i] # batch[k])
  /\ commands \in Seq(Message)
  /\ pc \in [Calls -> {"idle", "store", "send"}]
  /\ payload \in [Calls -> Payload]
  /\ updates \in [Calls -> Seq(Message)]
  /\ syncs \in Nat

\* The interval j is going to have once the updates in flight have arrived.
Heading(j) ==
  LET sent == {i \in DOMAIN commands : commands[i] = Update(j, commands[i].interval)}
  IN IF sent = {} THEN interval[j]
     ELSE commands[CHOOSE i \in sent : \A k \in sent : k <= i].interval

\* Every job runs, or is about to run, at the stored interval: a sync that sends
\* only what changed never leaves a job behind, whatever is still in the channel.
IntervalsAgree ==
  (\A c \in Calls : pc[c] = "idle") => \A j \in Jobs : Heading(j) = settings[j]

\* A job that is due waits for one run of every other job at most: the heap gives
\* up the earliest first, so that nobody overtakes it twice.
LatenessBounded ==
  \A j \in Jobs : left[j] >= -(Cardinality(Jobs) - 1) * MaxRun

\* Every job runs again and again once the clients leave its interval alone.
EveryJobRuns ==
  \A j \in Jobs : []<>(batch # <<>> /\ Head(batch) = j)
=============================================================================
