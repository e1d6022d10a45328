---------------------------- MODULE PollingProofs ----------------------------
(***************************************************************************)
(* The types of the scheduler, for all rates, run times and numbers of calls:*)
(* no interval is ever zero, so that no job spins, and a job is in the heap  *)
(* or in the batch, once, so that none runs twice for one deadline; the      *)
(* lateness of a job; and, for one client, the agreement of the intervals    *)
(* with the settings.                                                        *)
(***************************************************************************)
EXTENDS PollingScheduler, FiniteSetTheorems, TLAPS

Intervals == [Jobs -> Nat \ {0}]

LEMMA FromType ==
  ASSUME NEW p \in Payload  PROVE From(p) \in Intervals
<1>1. p.cpu \in Nat /\ p.gpu \in Nat /\ p.fans \in Nat /\ p.oc \in Nat
  BY ConstantsOK DEF Payload
<1>2. \A r \in Nat : AtLeast(r) \in Nat \ {0}
  BY ConstantsOK DEF AtLeast
<1>3. Least(p.cpu, p.gpu) \in Nat
  BY <1>1 DEF Least
<1> QED  BY <1>1, <1>2, <1>3 DEF From, Intervals, Jobs

LEMMA UpdatesType ==
  ASSUME NEW prev \in Intervals, NEW next \in Intervals
  PROVE  IntervalUpdates(prev, next) \in Seq(Message)
<1> DEFINE changed(j) == IF prev[j] # next[j] THEN <<Update(j, next[j])>> ELSE <<>>
<1>1. ASSUME NEW j \in Jobs  PROVE changed(j) \in Seq(Message)
  <2>1. Update(j, next[j]) \in Message
    BY DEF Update, Message, Intervals
  <2> QED  BY <2>1
<1>2. {"hardware_monitor", "fan_control", "gpu_overclock"} \subseteq Jobs
  BY DEF Jobs
<1> HIDE DEF changed
<1>3. changed("hardware_monitor") \o changed("fan_control") \o changed("gpu_overclock") \in Seq(Message)
  BY <1>1, <1>2
<1> QED  BY <1>3 DEF IntervalUpdates, changed

LEMMA PollingInit == Init => TypeOK
<1> SUFFICES ASSUME Init  PROVE TypeOK
  OBVIOUS
<1>1. settings \in Intervals /\ interval \in Intervals
  BY FromType DEF Init
<1>2. \A j \in Jobs : Add(j) \in Message
  BY <1>1 DEF Add, Message, Intervals
<1>3. commands \in Seq(Message)
  <2>1. {"hardware_monitor", "fan_control", "gpu_overclock"} \subseteq Jobs
    BY DEF Jobs
  <2> QED  BY <1>2, <2>1 DEF Init
<1>4. payload \in [Calls -> Payload]
  <2>1. Payload # {}
    BY DEF Init
  <2> QED  BY <2>1 DEF Init
<1> QED  BY <1>1, <1>3, <1>4 DEF Init, TypeOK, Intervals

LEMMA JobsFinite == IsFiniteSet(Jobs) /\ Cardinality(Jobs) = 3
<1>1. IsFiniteSet({"hardware_monitor"}) /\ Cardinality({"hardware_monitor"}) = 1
  BY FS_Singleton
<1>2. /\ IsFiniteSet({"hardware_monitor"} \cup {"fan_control"})
      /\ Cardinality({"hardware_monitor"} \cup {"fan_control"}) = 2
  BY <1>1, FS_AddElement
<1>3. /\ IsFiniteSet(({"hardware_monitor"} \cup {"fan_control"}) \cup {"gpu_overclock"})
      /\ Cardinality(({"hardware_monitor"} \cup {"fan_control"}) \cup {"gpu_overclock"}) = 3
  BY <1>2, FS_AddElement
<1>4. Jobs = ({"hardware_monitor"} \cup {"fan_control"}) \cup {"gpu_overclock"}
  BY DEF Jobs
<1> QED  BY <1>3, <1>4

\* A batch of all that is due leaves nothing out: it has as many places as there
\* are due jobs, and no job twice.
LEMMA CollectAll ==
  ASSUME TypeOK, CollectDue
  PROVE  \A j \in Due : \E i \in DOMAIN batch' : batch'[i] = j
<1>1. IsFiniteSet(Due) /\ Cardinality(Due) \in Nat
  <2>1. Due \subseteq Jobs
    BY DEF Due, TypeOK
  <2> QED  BY <2>1, JobsFinite, FS_Subset, FS_CardinalityType
<1>2. /\ batch' \in [1..Cardinality(Due) -> Due]
      /\ \A i, k \in 1..Cardinality(Due) : i < k => batch'[i] # batch'[k]
  BY <1>1 DEF CollectDue, Collected
<1>3. batch' \in Injection(1..Cardinality(Due), Due)
  BY <1>1, <1>2 DEF Injection, IsInjective
<1>4. Cardinality(1..Cardinality(Due)) = Cardinality(Due)
  BY <1>1, FS_Interval
<1>5. batch' \in Surjection(1..Cardinality(Due), Due)
  BY <1>1, <1>3, <1>4, FS_Injection
<1> QED  BY <1>2, <1>5 DEF Surjection

\* What is due is taken off the heap, once each.
LEMMA CollectType ==
  ASSUME TypeOK, CollectDue  PROVE TypeOK'
<1>1. Due \in SUBSET Jobs /\ Due \subseteq heap
  BY DEF Due, TypeOK
<1>2. IsFiniteSet(Jobs)
  BY JobsFinite
<1>3. Cardinality(Due) \in Nat
  BY <1>1, <1>2, FS_Subset, FS_CardinalityType
<1>4. /\ batch' \in [1..Cardinality(Due) -> Due]
      /\ \A i, k \in DOMAIN batch' : i # k => batch'[i] # batch'[k]
  BY <1>3 DEF CollectDue, Collected
<1>5. batch' \in Seq(Jobs) /\ DOMAIN batch' = 1..Cardinality(Due)
  BY <1>1, <1>3, <1>4
<1>6. \A i \in DOMAIN batch' : batch'[i] \notin heap'
  BY <1>4, <1>5 DEF CollectDue
<1> QED  BY <1>4, <1>5, <1>6 DEF TypeOK, CollectDue, calls

LEMMA RunType ==
  ASSUME TypeOK, RunJob  PROVE TypeOK'
<1>1. batch \in Seq(Jobs) /\ batch # <<>> /\ batch' = Tail(batch) /\ heap' = heap \cup {Head(batch)}
  BY DEF TypeOK, RunJob
<1>2. /\ batch' \in Seq(Jobs) /\ Head(batch) \in Jobs /\ Head(batch) = batch[1] /\ 1 \in DOMAIN batch
      /\ \A i \in DOMAIN batch' : i + 1 \in DOMAIN batch /\ batch'[i] = batch[i + 1] /\ i + 1 # 1
      /\ \A i, k \in DOMAIN batch' : i # k => i + 1 # k + 1
  BY <1>1
<1>3. \A i, k \in DOMAIN batch' : batch'[i] \notin heap' /\ (i # k => batch'[i] # batch'[k])
  BY <1>1, <1>2 DEF TypeOK
<1>4. left' \in [Jobs -> Int]
  <2>1. PICK d \in 0..MaxRun : left' = After(Head(batch), d)
    BY DEF RunJob
  <2>2. d \in Int
    BY ConstantsOK
  <2> QED  BY <2>1, <2>2 DEF After, TypeOK
<1> QED  BY <1>1, <1>2, <1>3, <1>4 DEF TypeOK, RunJob, calls

LEMMA CommandType ==
  ASSUME TypeOK, Command  PROVE TypeOK'
<1> DEFINE cmd == Head(commands)
<1>1. cmd \in Message /\ commands' \in Seq(Message)
  BY DEF Command, TypeOK
<1>2. cmd.job \in Jobs /\ cmd.interval \in Nat \ {0}
  BY <1>1 DEF Message
<1>3. batch = <<>> /\ UNCHANGED <<batch, settings, calls>>
  BY DEF Command
<1> HIDE DEF cmd
<1>4. heap' \subseteq Jobs /\ left' \in [Jobs -> Int] /\ interval' \in Intervals
  <2>1. /\ heap' = heap \cup {cmd.job} \/ heap' = heap
        /\ \/ UNCHANGED <<left, interval>>
           \/ /\ left' = [left EXCEPT ![cmd.job] = IF cmd.job \in heap THEN cmd.interval ELSE @]
              /\ interval' = [interval EXCEPT ![cmd.job] = IF cmd.job \in heap THEN cmd.interval ELSE @]
    BY DEF Command, cmd
  <2>2. heap \subseteq Jobs /\ left \in [Jobs -> Int] /\ interval \in Intervals /\ cmd.interval \in Int
    BY <1>2 DEF TypeOK, Intervals
  <2>3. heap' \subseteq Jobs
    BY <1>2, <2>1, <2>2
  <2>4. left' \in [Jobs -> Int]
    BY <1>2, <2>1, <2>2
  <2>5. interval' \in Intervals
    BY <1>2, <2>1, <2>2 DEF Intervals
  <2> QED  BY <2>3, <2>4, <2>5
<1> QED  BY <1>1, <1>3, <1>4 DEF TypeOK, calls, Intervals

LEMMA CallType ==
  ASSUME TypeOK, NEW c \in Calls, CallStep(c) \/ \E p \in Payload : SyncDiff(c, p)
  PROVE  TypeOK'
<1>1. UNCHANGED scheduler
  BY DEF CallStep, SyncStore, SyncSend, UpdatePollingInterval, SyncEnd, SyncDiff
<1>2. ASSUME NEW p \in Payload, SyncDiff(c, p)  PROVE TypeOK'
  <2>1. IntervalUpdates(settings, From(p)) \in Seq(Message)
    BY FromType, UpdatesType DEF TypeOK, Intervals
  <2> QED  BY <1>1, <1>2, <2>1 DEF SyncDiff, TypeOK, scheduler
<1>3. CASE SyncStore(c)
  <2>1. settings' \in Intervals
    BY <1>3, FromType DEF SyncStore, TypeOK
  <2> QED  BY <1>1, <1>3, <2>1 DEF SyncStore, TypeOK, scheduler, Intervals
<1>4. CASE SyncSend(c)
  <2>1. updates[c] \in Seq(Message) /\ updates[c] # <<>>
    BY <1>4 DEF SyncSend, TypeOK
  <2>2. Head(updates[c]) \in Message /\ Tail(updates[c]) \in Seq(Message)
    BY <2>1
  <2>3. commands' \in Seq(Message)
    BY <1>4, <2>2 DEF SyncSend, TypeOK
  <2> QED  BY <1>1, <1>4, <2>2, <2>3 DEF SyncSend, TypeOK, scheduler
<1>5. CASE UpdatePollingInterval(c)
  <2>1. payload[c].oc \in OcRates
    BY DEF TypeOK, Payload
  <2>2. payload[c].oc \in Nat \ {0}
    <3>1. \A r \in OcRates : r \in Nat /\ r >= Floor /\ r # 0
      BY ConstantsOK
    <3> QED  BY <2>1, <3>1
  <2>3. Update("gpu_overclock", payload[c].oc) \in Message
    BY <2>2 DEF Update, Message, Jobs
  <2>4. commands' \in Seq(Message)
    BY <1>5, <2>3 DEF UpdatePollingInterval, TypeOK
  <2> QED  BY <1>1, <1>5, <2>4 DEF UpdatePollingInterval, TypeOK, scheduler
<1>6. CASE SyncEnd(c)
  BY <1>1, <1>6 DEF SyncEnd, TypeOK, scheduler
<1> QED  BY <1>2, <1>3, <1>4, <1>5, <1>6 DEF CallStep

LEMMA PollingNext == TypeOK /\ [Next]_vars => TypeOK'
<1> SUFFICES ASSUME TypeOK, [Next]_vars  PROVE TypeOK'
  OBVIOUS
<1>1. CASE Tick
  BY <1>1 DEF Tick, TypeOK, calls
<1>2. CASE UNCHANGED vars
  BY <1>2 DEF vars, TypeOK, scheduler, calls
<1> QED  BY <1>1, <1>2, CommandType, CollectType, RunType, CallType DEF Next

\* Whatever rates clients send and whenever, no job spins, and none is queued twice.
THEOREM NoJobSpins == Spec => []TypeOK
  BY PollingInit, PollingNext, PTL DEF Spec

(***************************************************************************)
(* Lateness: of the jobs that wait at one time, the first may be two runs    *)
(* late, the second one, and the third is not late at all; every run of the  *)
(* batch makes all that wait one run later.                                  *)
(***************************************************************************)
Late == [n \in Int |-> -(n * MaxRun)]
Queued(j) == j \in heap \/ \E i \in DOMAIN batch : batch[i] = j

\* The n-th job of the batch has its n - 1 predecessors to wait for; a job that is
\* back on the heap, or not due, has the whole batch.
LateInv ==
  /\ \A j \in Jobs : ~Queued(j) => left[j] >= 0
  /\ \A i \in DOMAIN batch : left[batch[i]] >= Late[3 - i]
  /\ \A j \in heap : left[j] >= Late[2 - Len(batch)]
  /\ \A j, k \in heap :
       j # k => left[j] >= Late[1 - Len(batch)] \/ left[k] >= Late[1 - Len(batch)]
  /\ \A j, k, l \in heap :
       j # k /\ j # l /\ k # l => left[j] >= 0 \/ left[k] >= 0 \/ left[l] >= 0

LEMMA LateValues ==
  /\ \A n \in Int : Late[n] \in Int /\ Late[n + 1] = Late[n] - MaxRun
  /\ Late[0] = 0 /\ Late[1] = -MaxRun /\ Late[2] = -(2 * MaxRun)
  BY ConstantsOK DEF Late

\* A run makes whoever waits for it that much later.
LEMMA Later ==
  \A a, b, x, y \in Int : a >= x /\ b >= a - MaxRun /\ x - MaxRun = y => b >= y
  BY ConstantsOK

\* What TypeOK says of the batch and the heap.
Disjoint(b, h) ==
  /\ b \in Seq(Jobs) /\ h \subseteq Jobs
  /\ \A i \in DOMAIN b : b[i] \in Jobs /\ b[i] \notin h
  /\ \A i, k \in DOMAIN b : i # k => b[i] # b[k]

LEMMA TypeDisjoint == TypeOK => Disjoint(batch, heap)
<1> SUFFICES ASSUME TypeOK  PROVE Disjoint(batch, heap)
  OBVIOUS
<1>1. /\ batch \in Seq(Jobs) /\ heap \subseteq Jobs
      /\ \A i, k \in DOMAIN batch : batch[i] \notin heap /\ (i # k => batch[i] # batch[k])
  BY DEF TypeOK
<1>2. \A i \in DOMAIN batch : batch[i] \in Jobs
  BY <1>1
<1> QED  BY <1>1, <1>2 DEF Disjoint

\* There are three jobs: the more of them wait in the heap the fewer are in the batch.
LEMMA BatchShort ==
  ASSUME NEW b, NEW h, Disjoint(b, h)
  PROVE  /\ Len(b) \in 0..3 /\ DOMAIN b = 1..Len(b)
         /\ h # {} => Len(b) <= 2
         /\ (\E j, k \in h : j # k) => Len(b) <= 1
         /\ (\E j, k, l \in h : j # k /\ j # l /\ k # l) => b = <<>>
<1>1. b \in Seq(Jobs) /\ DOMAIN b = 1..Len(b) /\ Len(b) \in Nat /\ h \subseteq Jobs
  BY DEF Disjoint
<1>2. /\ \A i \in 1..Len(b) : b[i] \in Jobs /\ b[i] \notin h
      /\ \A i, k \in 1..Len(b) : i # k => b[i] # b[k]
  BY <1>1 DEF Disjoint
<1>4. ~(Len(b) >= 4)
  <2> SUFFICES ASSUME Len(b) >= 4  PROVE FALSE
    OBVIOUS
  <2>1. {1, 2, 3, 4} \subseteq 1..Len(b)
    BY <1>1
  <2> QED  BY <1>2, <2>1 DEF Jobs
<1>5. ASSUME NEW j \in h, Len(b) >= 3  PROVE FALSE
  <2>1. {1, 2, 3} \subseteq 1..Len(b) /\ j \in Jobs
    BY <1>1, <1>5
  <2> QED  BY <1>2, <1>5, <2>1 DEF Jobs
<1>6. ASSUME NEW j \in h, NEW k \in h, j # k, Len(b) >= 2  PROVE FALSE
  <2>1. {1, 2} \subseteq 1..Len(b) /\ j \in Jobs /\ k \in Jobs
    BY <1>1, <1>6
  <2> QED  BY <1>2, <1>6, <2>1 DEF Jobs
<1>7. ASSUME NEW j \in h, NEW k \in h, NEW l \in h, j # k, j # l, k # l, Len(b) >= 1
      PROVE FALSE
  <2>1. 1 \in 1..Len(b) /\ j \in Jobs /\ k \in Jobs /\ l \in Jobs
    BY <1>1, <1>7
  <2> QED  BY <1>2, <1>7, <2>1 DEF Jobs
<1>8. Len(b) = 0 => b = <<>>
  BY <1>1
<1>9. /\ h # {} => Len(b) <= 2
      /\ (\E j, k \in h : j # k) => Len(b) <= 1
  BY <1>1, <1>5, <1>6
<1>10. (\E j, k, l \in h : j # k /\ j # l /\ k # l) => b = <<>>
  BY <1>1, <1>7, <1>8
<1> QED  BY <1>1, <1>4, <1>9, <1>10

LEMMA LateBound ==
  \A n \in 0..2 : Late[n] \in Int /\ Late[n] >= -(2 * MaxRun)
  BY LateValues, ConstantsOK

LEMMA LateInit == Init => LateInv
<1> SUFFICES ASSUME Init  PROVE LateInv
  OBVIOUS
<1>1. heap = {} /\ DOMAIN batch = {} /\ \A j \in Jobs : left[j] = 0
  BY DEF Init
<1> QED  BY <1>1 DEF LateInv

\* The heap gives up the due jobs earliest first.
LEMMA CollectLate ==
  ASSUME TypeOK, TypeOK', LateInv, CollectDue  PROVE LateInv'
<1>1. /\ batch = <<>> /\ heap' = heap \ Due /\ left' = left
      /\ Due \subseteq heap /\ heap \subseteq Jobs /\ left \in [Jobs -> Int]
  BY DEF CollectDue, Due, TypeOK
<1>2. /\ DOMAIN batch' \subseteq 1..3 /\ Len(batch') \in 0..3
      /\ DOMAIN batch' = 1..Len(batch')
      /\ heap' # {} => Len(batch') <= 2
      /\ (\E j, k \in heap' : j # k) => Len(batch') <= 1
  <2>1. Disjoint(batch', heap')
    <3>1. /\ batch' \in Seq(Jobs) /\ heap' \subseteq Jobs
          /\ \A i, k \in DOMAIN batch' : batch'[i] \notin heap' /\ (i # k => batch'[i] # batch'[k])
      BY DEF TypeOK
    <3>2. \A i \in DOMAIN batch' : batch'[i] \in Jobs
      BY <3>1
    <3> QED  BY <3>1, <3>2 DEF Disjoint
  <2>2. /\ Len(batch') \in 0..3 /\ DOMAIN batch' = 1..Len(batch')
        /\ heap' # {} => Len(batch') <= 2
        /\ (\E j, k \in heap' : j # k) => Len(batch') <= 1
    BY <2>1, BatchShort
  <2>3. DOMAIN batch' \subseteq 1..3
    BY <2>2
  <2> QED  BY <2>2, <2>3
<1>3. Cardinality(Due) \in Nat
  <2>1. IsFiniteSet(Jobs)
    BY JobsFinite
  <2> QED  BY <1>1, <2>1, FS_Subset, FS_CardinalityType
<1>4. /\ \A i \in DOMAIN batch' : batch'[i] \in Due
      /\ \A i, k \in DOMAIN batch' :
           i < k => batch'[i] # batch'[k] /\ left[batch'[i]] <= left[batch'[k]]
  BY <1>3 DEF CollectDue, Collected
<1>5. \A j \in Due : \E i \in DOMAIN batch' : batch'[i] = j
  BY CollectAll
<1>6. /\ \A j \in heap : left[j] >= Late[2]
      /\ \A j, k \in heap : j # k => left[j] >= Late[1] \/ left[k] >= Late[1]
      /\ \A j, k, l \in heap :
           j # k /\ j # l /\ k # l => left[j] >= 0 \/ left[k] >= 0 \/ left[l] >= 0
  <2>1. Len(batch) = 0
    BY <1>1
  <2> QED  BY <2>1 DEF LateInv
<1>7. ASSUME NEW i \in DOMAIN batch'  PROVE left'[batch'[i]] >= Late[3 - i]
  <2>1. i \in 1..3 /\ {n \in 1..3 : n <= i} \subseteq DOMAIN batch'
    BY <1>2, <1>7
  <2>2. batch'[i] \in heap /\ left[batch'[i]] \in Int
    BY <1>1, <1>4
  <2>3. CASE i = 1
    BY <1>1, <1>6, <2>2, <2>3
  <2>4. CASE i = 2
    <3>1. 1 \in DOMAIN batch' /\ batch'[1] \in heap /\ left[batch'[1]] \in Int
      BY <1>1, <1>4, <2>1, <2>4
    <3>2. batch'[1] # batch'[2] /\ left[batch'[1]] <= left[batch'[2]]
      BY <1>4, <2>4, <3>1
    <3>3. left[batch'[2]] >= Late[1]
      BY <1>6, <2>2, <2>4, <3>1, <3>2, LateValues
    <3> QED  BY <1>1, <2>4, <3>3
  <2>5. CASE i = 3
    <3>1. /\ {1, 2} \subseteq DOMAIN batch' /\ batch'[1] \in heap /\ batch'[2] \in heap
          /\ left[batch'[1]] \in Int /\ left[batch'[2]] \in Int
      BY <1>1, <1>4, <2>1, <2>5
    <3>2. /\ batch'[1] # batch'[3] /\ left[batch'[1]] <= left[batch'[3]]
          /\ batch'[2] # batch'[3] /\ left[batch'[2]] <= left[batch'[3]]
          /\ batch'[1] # batch'[2]
      BY <1>4, <2>5, <3>1
    <3>3. left[batch'[3]] >= 0
      BY <1>6, <2>2, <2>5, <3>1, <3>2
    <3>4. 3 - i = 0 /\ batch'[i] = batch'[3]
      BY <2>5
    <3> QED  BY <1>1, <3>3, <3>4, LateValues
  <2> QED  BY <2>1, <2>3, <2>4, <2>5
<1>8. \A j \in heap' : j \in Jobs /\ left'[j] > 0 /\ left'[j] \in Int
  BY <1>1 DEF Due
<1>9. ASSUME NEW n \in {0, 1, 2}  PROVE Late[n] <= 0 /\ Late[n] \in Int
  BY LateValues, ConstantsOK
<1>10. \A j \in heap' : left'[j] >= Late[2 - Len(batch')]
  <2>1. heap' # {} => 2 - Len(batch') \in {0, 1, 2}
    BY <1>2
  <2>2. heap' # {} => Late[2 - Len(batch')] <= 0 /\ Late[2 - Len(batch')] \in Int
    BY <1>9, <2>1
  <2> QED  BY <1>1, <1>8, <2>2
<1>11. \A j, k \in heap' : j # k => left'[j] >= Late[1 - Len(batch')]
  <2>1. (\E j, k \in heap' : j # k) => 1 - Len(batch') \in {0, 1, 2}
    BY <1>2
  <2>2. (\E j, k \in heap' : j # k) => Late[1 - Len(batch')] <= 0 /\ Late[1 - Len(batch')] \in Int
    BY <1>9, <2>1
  <2> QED  BY <1>1, <1>8, <2>2
<1>12. \A j \in Jobs : ~Queued(j)' => left'[j] >= 0
  <2>1. \A j \in heap : Queued(j)'
    BY <1>1, <1>5 DEF Queued
  <2>2. \A j \in Jobs : ~Queued(j)' => ~Queued(j)
    BY <1>1, <2>1 DEF Queued
  <2> QED  BY <1>1, <2>2 DEF LateInv
<1> QED  BY <1>1, <1>7, <1>8, <1>10, <1>11, <1>12 DEF LateInv

\* A run ends its job's wait and adds its time to every other's.
LEMMA RunLate ==
  ASSUME TypeOK, LateInv, RunJob  PROVE LateInv'
<1> DEFINE h == Head(batch)
           n == Len(batch)
<1>1. PICK d \in 0..MaxRun : left' = After(h, d)
  BY DEF RunJob
<1>2. /\ batch \in Seq(Jobs) /\ batch # <<>> /\ batch' = Tail(batch) /\ heap' = heap \cup {h}
      /\ left \in [Jobs -> Int] /\ interval \in [Jobs -> Nat \ {0}] /\ heap \subseteq Jobs
      /\ d \in Int /\ 0 <= d /\ d <= MaxRun /\ MaxRun \in Nat
  BY ConstantsOK DEF TypeOK, RunJob
<1>3. /\ n \in 1..3 /\ DOMAIN batch = 1..n /\ h = batch[1] /\ h \in Jobs
      /\ heap # {} => n <= 2
      /\ (\E j, k \in heap : j # k) => n <= 1
  <2>1. n # 0
    BY <1>2
  <2> QED  BY <1>2, <2>1, BatchShort, TypeDisjoint
<1>4. /\ Len(batch') = n - 1 /\ DOMAIN batch' = 1..(n - 1)
      /\ \A i \in 1..(n - 1) : batch'[i] = batch[i + 1] /\ i + 1 \in 1..n
  BY <1>2, <1>3
<1>5. h \notin heap /\ \A i \in 2..n : batch[i] # h
  BY <1>3, TypeDisjoint DEF Disjoint
<1>6. ASSUME NEW j \in Jobs
      PROVE  /\ j = h => left'[j] >= 1
             /\ j # h /\ j \in heap => left'[j] >= left[j] - MaxRun
             /\ j # h /\ (\E i \in DOMAIN batch : batch[i] = j) => left'[j] >= left[j] - MaxRun
             /\ j \notin heap /\ (\A i \in DOMAIN batch : batch[i] # j) => left'[j] = left[j]
             /\ left[j] \in Int /\ left'[j] \in Int
  <2>1. left'[j] = IF j \notin Registered THEN left[j]
                   ELSE IF j = h THEN interval[j] ELSE left[j] - d
    BY <1>1 DEF After
  <2>2. j \in Registered <=> j \in heap \/ \E i \in DOMAIN batch : batch[i] = j
    BY DEF Registered
  <2>3. h \in Registered
    BY <1>3 DEF Registered
  <2>4. interval[j] \in Nat \ {0} /\ left[j] \in Int
    BY <1>2
  <2> HIDE DEF h
  <2> QED  BY <1>2, <2>1, <2>2, <2>3, <2>4
<1>7. ASSUME NEW m \in Int
      PROVE  Late[m] \in Int /\ Late[m] - MaxRun = Late[m + 1] /\ (m \in {0, 1, 2} => Late[m] <= 0)
  BY LateValues, ConstantsOK
<1> HIDE DEF h, n
<1>8. \A j \in Jobs : ~Queued(j)' => left'[j] >= 0
  <2> SUFFICES ASSUME NEW j \in Jobs, ~Queued(j)'  PROVE left'[j] >= 0
    OBVIOUS
  <2>1. j # h /\ j \notin heap
    BY <1>2 DEF Queued
  <2>2. \A i \in DOMAIN batch : batch[i] # j
    <3>1. \A i \in 1..n : i = 1 \/ (i - 1 \in 1..(n - 1) /\ batch'[i - 1] = batch[i])
      BY <1>3, <1>4
    <3> QED  BY <1>3, <1>4, <2>1, <3>1 DEF Queued
  <2>3. ~Queued(j)
    BY <2>1, <2>2 DEF Queued
  <2> QED  BY <1>6, <2>1, <2>2, <2>3 DEF LateInv
<1>9. \A i \in DOMAIN batch' : left'[batch'[i]] >= Late[3 - i]
  <2> SUFFICES ASSUME NEW i \in 1..(n - 1)  PROVE left'[batch[i + 1]] >= Late[3 - i]
    BY <1>4
  <2>1. i \in Int /\ i + 1 \in DOMAIN batch /\ batch[i + 1] \in Jobs /\ batch[i + 1] # h
    BY <1>2, <1>3, <1>5
  <2>2. left[batch[i + 1]] >= Late[3 - (i + 1)]
    BY <2>1 DEF LateInv
  <2>3. left'[batch[i + 1]] >= left[batch[i + 1]] - MaxRun
        /\ left[batch[i + 1]] \in Int /\ left'[batch[i + 1]] \in Int
    BY <1>6, <2>1
  <2>4. 3 - (i + 1) \in Int /\ (3 - (i + 1)) + 1 = 3 - i
    BY <2>1
  <2>5. Late[3 - (i + 1)] \in Int /\ Late[3 - i] = Late[3 - (i + 1)] - MaxRun
    BY <1>7, <2>4
  <2>6. Late[3 - i] \in Int
    BY <1>7, <2>1
  <2> QED  BY <2>2, <2>3, <2>5, <2>6, Later
<1>10. n \in Int /\ 1 - n \in Int /\ 2 - n \in Int /\ 2 - Len(batch') = (2 - n) + 1 /\ 1 - Len(batch') = (1 - n) + 1
  BY <1>3, <1>4
<1>11. \A j \in heap' : left'[j] >= Late[2 - Len(batch')]
  <2> SUFFICES ASSUME NEW j \in heap'  PROVE left'[j] >= Late[(2 - n) + 1]
    BY <1>10
  <2>1. CASE j = h
    <3>1. (2 - n) + 1 \in {0, 1, 2}
      BY <1>3
    <3>2. Late[(2 - n) + 1] <= 0 /\ Late[(2 - n) + 1] \in Int
      BY <1>7, <3>1
    <3>3. left'[h] >= 1 /\ left'[h] \in Int
      BY <1>3, <1>6
    <3> QED  BY <2>1, <3>2, <3>3
  <2>2. CASE j # h
    <3>1. j \in heap /\ j \in Jobs /\ left[j] >= Late[2 - n]
      BY <1>2, <2>2 DEF LateInv, n
    <3>2. Late[2 - n] \in Int /\ Late[2 - n] - MaxRun = Late[(2 - n) + 1]
      BY <1>7, <1>10
    <3>3. left'[j] >= left[j] - MaxRun /\ left[j] \in Int /\ left'[j] \in Int
      BY <1>6, <2>2, <3>1
    <3>4. Late[(2 - n) + 1] \in Int
      BY <1>7, <1>10
    <3> QED  BY <3>1, <3>2, <3>3, <3>4, Later
  <2> QED  BY <2>1, <2>2
<1>12. \A j, k \in heap' :
         j # k => left'[j] >= Late[1 - Len(batch')] \/ left'[k] >= Late[1 - Len(batch')]
  <2> SUFFICES ASSUME NEW j \in heap', NEW k \in heap', j # k
               PROVE  left'[j] >= Late[(1 - n) + 1] \/ left'[k] >= Late[(1 - n) + 1]
    BY <1>10
  <2>0. j \in Jobs /\ k \in Jobs
    BY <1>2, <1>3
  <2>1. CASE j = h \/ k = h
    <3>1. heap # {}
      BY <1>2, <2>1
    <3>2. (1 - n) + 1 \in {0, 1, 2}
      BY <1>3, <3>1
    <3>3. left'[h] >= 1 /\ left'[h] \in Int
      BY <1>3, <1>6
    <3>4. Late[(1 - n) + 1] <= 0 /\ Late[(1 - n) + 1] \in Int
      BY <1>7, <3>2
    <3> QED  BY <2>1, <3>3, <3>4
  <2>2. CASE j # h /\ k # h
    <3>1. j \in heap /\ k \in heap /\ (left[j] >= Late[1 - n] \/ left[k] >= Late[1 - n])
      BY <1>2, <2>2 DEF LateInv, n
    <3>2. Late[1 - n] \in Int /\ Late[1 - n] - MaxRun = Late[(1 - n) + 1]
      BY <1>7, <1>10
    <3>3. /\ left'[j] >= left[j] - MaxRun /\ left[j] \in Int /\ left'[j] \in Int
          /\ left'[k] >= left[k] - MaxRun /\ left[k] \in Int /\ left'[k] \in Int
      BY <1>6, <2>0, <2>2, <3>1
    <3>4. Late[(1 - n) + 1] \in Int
      BY <1>7, <1>10
    <3> QED  BY <3>1, <3>2, <3>3, <3>4, Later
  <2> QED  BY <2>1, <2>2
<1>13. \A j, k, l \in heap' :
         j # k /\ j # l /\ k # l => left'[j] >= 0 \/ left'[k] >= 0 \/ left'[l] >= 0
  <2> SUFFICES ASSUME NEW j \in heap', NEW k \in heap', NEW l \in heap', j # k, j # l, k # l
               PROVE  left'[j] >= 0 \/ left'[k] >= 0 \/ left'[l] >= 0
    OBVIOUS
  <2>1. j = h \/ k = h \/ l = h
    BY <1>2, <1>3, <1>5 DEF Jobs
  <2>2. left'[h] >= 1 /\ left'[h] \in Int
    BY <1>3, <1>6
  <2> QED  BY <2>1, <2>2
<1> QED  BY <1>8, <1>9, <1>11, <1>12, <1>13 DEF LateInv

\* A command makes a job due at once, or gives it a whole interval to wait.
LEMMA CommandLate ==
  ASSUME TypeOK, LateInv, Command  PROVE LateInv'
<1> DEFINE cmd == Head(commands)
<1>1. cmd \in Message
  BY DEF Command, TypeOK
<1>2. cmd.job \in Jobs /\ cmd.interval \in Nat \ {0}
  BY <1>1 DEF Message
<1>3. /\ batch = <<>> /\ batch' = <<>> /\ Len(batch) = 0 /\ Len(batch') = 0
      /\ DOMAIN batch = {} /\ DOMAIN batch' = {}
      /\ left \in [Jobs -> Int] /\ heap \subseteq Jobs
  BY DEF Command, TypeOK
<1>4. \/ cmd.type = "AddJob" /\ heap' = heap \cup {cmd.job} /\ left' = left
      \/ /\ heap' = heap
         /\ left' = [left EXCEPT ![cmd.job] = IF cmd.job \in heap THEN cmd.interval ELSE @]
  BY DEF Command
<1> HIDE DEF cmd
<1>5. /\ \A j \in heap : left[j] >= Late[2]
      /\ \A j, k \in heap : j # k => left[j] >= Late[1] \/ left[k] >= Late[1]
      /\ \A j, k, l \in heap :
           j # k /\ j # l /\ k # l => left[j] >= 0 \/ left[k] >= 0 \/ left[l] >= 0
      /\ \A j \in Jobs : j \notin heap => left[j] >= 0
  BY <1>3 DEF LateInv, Queued
<1>6. ASSUME NEW j \in Jobs
      PROVE  /\ left[j] \in Int /\ left'[j] \in Int
             /\ left'[j] = left[j] \/ left'[j] >= 0
             /\ left'[j] >= 0 \/ j \in heap
             /\ j \notin heap' => left'[j] >= 0
  BY <1>2, <1>3, <1>4, <1>5
<1>7. \A j \in heap' : j \in Jobs
  BY <1>2, <1>3, <1>4
<1>8. Late[1] <= 0 /\ Late[2] <= 0 /\ Late[1] \in Int /\ Late[2] \in Int
  BY LateValues, ConstantsOK
<1>9. /\ \A j \in heap' : left'[j] >= Late[2]
      /\ \A j, k \in heap' : j # k => left'[j] >= Late[1] \/ left'[k] >= Late[1]
      /\ \A j, k, l \in heap' :
           j # k /\ j # l /\ k # l => left'[j] >= 0 \/ left'[k] >= 0 \/ left'[l] >= 0
      /\ \A j \in Jobs : j \notin heap' => left'[j] >= 0
  <2>1. \A j \in heap' : left'[j] >= Late[2]
    BY <1>5, <1>6, <1>7, <1>8
  <2>2. ASSUME NEW j \in heap', NEW k \in heap', j # k
        PROVE  left'[j] >= Late[1] \/ left'[k] >= Late[1]
    BY <1>5, <1>6, <1>7, <1>8, <2>2
  <2>3. ASSUME NEW j \in heap', NEW k \in heap', NEW l \in heap', j # k, j # l, k # l
        PROVE  left'[j] >= 0 \/ left'[k] >= 0 \/ left'[l] >= 0
    BY <1>5, <1>6, <1>7, <2>3
  <2> QED  BY <1>6, <2>1, <2>2, <2>3
<1> QED  BY <1>3, <1>9 DEF LateInv, Queued

\* The task sleeps only while nothing is due.
LEMMA TickLate ==
  ASSUME TypeOK, LateInv, Tick  PROVE LateInv'
<1>1. /\ batch = <<>> /\ batch' = <<>> /\ Len(batch') = 0 /\ DOMAIN batch' = {} /\ heap' = heap
      /\ left \in [Jobs -> Int] /\ heap \subseteq Jobs
  BY DEF Tick, TypeOK
<1>2. \A j \in heap : left[j] > 0
  BY <1>1 DEF Tick, Due
<1>3. \A j \in Jobs : left'[j] >= 0 /\ left'[j] \in Int
  <2> SUFFICES ASSUME NEW j \in Jobs  PROVE left'[j] >= 0 /\ left'[j] \in Int
    OBVIOUS
  <2>1. left'[j] = IF j \in heap THEN left[j] - 1 ELSE left[j]
    BY DEF Tick
  <2>2. j \notin heap => left[j] >= 0
    BY <1>1 DEF LateInv, Queued
  <2> QED  BY <1>1, <1>2, <2>1, <2>2
<1>4. Late[1] <= 0 /\ Late[2] <= 0 /\ Late[1] \in Int /\ Late[2] \in Int
  BY LateValues, ConstantsOK
<1> QED  BY <1>1, <1>3, <1>4 DEF LateInv

\* No job is ever later than one run of every other, whatever its run time, the
\* rates and the settings that change on the way (BinaryHeap, execute_due_jobs).
THEOREM NobodyOvertakesTwice == Spec => []LatenessBounded
<1>1. TypeOK /\ LateInv => LatenessBounded
  <2> SUFFICES ASSUME TypeOK, LateInv, NEW j \in Jobs
               PROVE  left[j] >= -(Cardinality(Jobs) - 1) * MaxRun
    BY DEF LatenessBounded
  <2>1. /\ Cardinality(Jobs) = 3 /\ left[j] \in Int /\ MaxRun \in Nat
        /\ Len(batch) \in 0..3 /\ DOMAIN batch = 1..Len(batch) /\ (heap # {} => Len(batch) <= 2)
    BY JobsFinite, ConstantsOK, BatchShort, TypeDisjoint DEF TypeOK
  <2>2. left[j] >= -(2 * MaxRun)
    <3>1. CASE ~Queued(j)
      BY <2>1, <3>1 DEF LateInv
    <3>2. CASE j \in heap
      <4> DEFINE n == 2 - Len(batch)
      <4>1. left[j] >= Late[n] /\ n \in 0..2
        BY <2>1, <3>2 DEF LateInv
      <4> HIDE DEF n
      <4>2. Late[n] \in Int /\ Late[n] >= -(2 * MaxRun)
        BY <4>1, LateBound
      <4> QED  BY <2>1, <4>1, <4>2
    <3>3. ASSUME NEW i \in DOMAIN batch, batch[i] = j  PROVE left[j] >= -(2 * MaxRun)
      <4>1. left[j] >= Late[3 - i] /\ 3 - i \in 0..2
        BY <2>1, <3>3 DEF LateInv
      <4> QED  BY <2>1, <4>1, LateBound
    <3> QED  BY <3>1, <3>2, <3>3 DEF Queued
  <2> QED  BY <2>1, <2>2
<1>2. TypeOK /\ LateInv /\ [Next]_vars => LateInv'
  <2> SUFFICES ASSUME TypeOK, LateInv, [Next]_vars, TypeOK'  PROVE LateInv'
    BY PollingNext
  <2>1. ASSUME UNCHANGED <<left, heap, batch>>  PROVE LateInv'
    BY <2>1 DEF LateInv, Queued
  <2>2. ASSUME NEW c \in Calls, CallStep(c) \/ \E p \in Payload : SyncDiff(c, p)
        PROVE  UNCHANGED <<left, heap, batch>>
    BY <2>2 DEF CallStep, SyncStore, SyncSend, UpdatePollingInterval, SyncEnd, SyncDiff, scheduler
  <2> QED  BY <2>1, <2>2, CommandLate, CollectLate, RunLate, TickLate DEF Next, vars, scheduler
<1> QED  BY <1>1, <1>2, PollingInit, LateInit, PollingNext, PTL DEF Spec

(***************************************************************************)
(* The agreement of the intervals with the settings, for one client.  What  *)
(* a job is heading for is the newest update for it in the channel, and its  *)
(* own interval if there is none; an update is lost on a job that is not on  *)
(* the heap, so that the jobs have to be there before the first one.         *)
(***************************************************************************)
Els(q) == {q[i] : i \in DOMAIN q}
SentIn(q, j) == {i \in DOMAIN q : q[i] = Update(j, q[i].interval)}

\* With the commands q before it, a job of interval v0 ends up with v.
AheadIn(q, j, v0, v) ==
  \/ SentIn(q, j) = {} /\ v0 = v
  \/ \E i \in SentIn(q, j) : (\A k \in SentIn(q, j) : k <= i) /\ q[i].interval = v

Ahead(j, v) == AheadIn(commands, j, interval[j], v)
\* The same in the next state, of a v of this one.
Soon(j, v) == AheadIn(commands', j, interval'[j], v)

\* The updates a call is about to send say what is stored.
Truthful(q, s) == \A m \in Els(q) : m = Update(m.job, s[m.job])

AddsFirst ==
  /\ \A i, k \in DOMAIN commands :
       i < k /\ commands[k].type = "AddJob" => commands[i].type = "AddJob"
  /\ \A j \in Jobs : Queued(j) \/ \E m \in Els(commands) : m.type = "AddJob" /\ m.job = j

SyncInv(c) ==
  /\ pc[c] # "send" => \A j \in Jobs : Ahead(j, settings[j])
  /\ pc[c] = "store" => updates[c] = IntervalUpdates(settings, From(payload[c]))
  /\ pc[c] = "send" =>
       /\ settings = From(payload[c]) /\ Truthful(updates[c], settings)
       /\ \A j \in Jobs : Ahead(j, settings[j]) \/ \E m \in Els(updates[c]) : m.job = j

LEMMA AheadHeading ==
  ASSUME TypeOK, NEW j \in Jobs, NEW v, Ahead(j, v)  PROVE Heading(j) = v
<1> DEFINE sent == SentIn(commands, j)
<1>1. Heading(j) = IF sent = {} THEN interval[j]
                   ELSE commands[CHOOSE i \in sent : \A k \in sent : k <= i].interval
  BY DEF Heading, SentIn
<1>2. CASE sent = {}
  BY <1>1, <1>2 DEF Ahead, AheadIn
<1>3. CASE sent # {}
  <2>1. PICK i \in sent : (\A k \in sent : k <= i) /\ commands[i].interval = v
    BY <1>3 DEF Ahead, AheadIn
  <2>2. \A k \in sent : k \in Int
    BY DEF SentIn, TypeOK
  <2> DEFINE top == CHOOSE n \in sent : \A k \in sent : k <= n
  <2>3. top \in sent /\ \A k \in sent : k <= top
    BY <2>1
  <2> HIDE DEF top, sent
  <2>4. top \in Int /\ i \in Int /\ i <= top /\ top <= i
    BY <2>1, <2>2, <2>3
  <2>5. top = i
    BY <2>4
  <2> QED  BY <1>1, <1>3, <2>1, <2>5 DEF top
<1> QED  BY <1>2, <1>3

\* A command at the end of the channel decides for its own job and for no other.
LEMMA AheadAppend ==
  ASSUME NEW q \in Seq(Message), NEW n \in Message, NEW j \in Jobs, NEW v0, NEW v,
         \/ n = Update(j, v)
         \/ AheadIn(q, j, v0, v) /\ n # Update(j, n.interval)
  PROVE  AheadIn(Append(q, n), j, v0, v)
<1> DEFINE r == Append(q, n)
           l == Len(q) + 1
<1>1. /\ DOMAIN q = 1..Len(q) /\ DOMAIN r = 1..l /\ l \in DOMAIN r /\ r[l] = n /\ Len(q) \in Nat
      /\ \A i \in DOMAIN q : i \in DOMAIN r /\ r[i] = q[i] /\ i <= l
      /\ \A i \in DOMAIN r : i <= l /\ (i \in DOMAIN q \/ i = l)
  OBVIOUS
<1> HIDE DEF r, l
<1>2. CASE n = Update(j, v)
  <2>1. l \in SentIn(r, j) /\ r[l].interval = v
    <3>1. r[l] = Update(j, r[l].interval) /\ r[l].interval = v
      BY <1>1, <1>2 DEF Update
    <3> QED  BY <1>1, <3>1 DEF SentIn
  <2>2. \A k \in SentIn(r, j) : k <= l
    BY <1>1 DEF SentIn
  <2> QED  BY <2>1, <2>2 DEF AheadIn, r
<1>3. CASE AheadIn(q, j, v0, v) /\ n # Update(j, n.interval)
  <2>1. SentIn(r, j) = SentIn(q, j)
    BY <1>1, <1>3 DEF SentIn
  <2>2. \A i \in SentIn(q, j) : r[i] = q[i]
    BY <1>1 DEF SentIn
  <2> QED  BY <1>3, <2>1, <2>2 DEF AheadIn, r
<1> QED  BY <1>2, <1>3

\* The command at the front has its effect when it is taken.
LEMMA AheadTail ==
  ASSUME NEW q \in Seq(Message), q # <<>>, NEW j \in Jobs, NEW v0, NEW v1, NEW v,
         AheadIn(q, j, v0, v),
         v1 = IF Head(q) = Update(j, Head(q).interval) THEN Head(q).interval ELSE v0
  PROVE  AheadIn(Tail(q), j, v1, v)
<1> DEFINE r == Tail(q)
           s == SentIn(q, j)
           t == SentIn(r, j)
<1>1. /\ Head(q) = q[1] /\ 1 \in DOMAIN q
      /\ \A i \in DOMAIN q : i \in Nat \ {0} /\ (i = 1 \/ (i - 1 \in DOMAIN r /\ r[i - 1] = q[i]))
      /\ \A i \in DOMAIN r : i \in Nat \ {0} /\ i + 1 \in DOMAIN q /\ r[i] = q[i + 1]
  OBVIOUS
<1> HIDE DEF r
<1>2. /\ \A i \in s : i \in Nat \ {0} /\ (i = 1 \/ i - 1 \in t)
      /\ \A i \in t : i \in Nat \ {0} /\ i + 1 \in s
      /\ 1 \in s <=> Head(q) = Update(j, Head(q).interval)
  BY <1>1 DEF SentIn
<1>3. CASE s = {}
  <2>1. t = {} /\ 1 \notin s
    BY <1>2, <1>3
  <2> QED  BY <1>2, <1>3, <2>1 DEF AheadIn, r
<1>4. CASE s # {}
  <2>1. PICK i \in s : (\A k \in s : k <= i) /\ q[i].interval = v
    BY <1>4 DEF AheadIn
  <2>2. CASE i = 1
    <3>1. ASSUME NEW k \in t  PROVE FALSE
      <4>1. k \in Nat \ {0} /\ k + 1 \in s
        BY <1>2
      <4>2. k + 1 <= 1
        BY <2>1, <2>2, <4>1
      <4> QED  BY <4>1, <4>2
    <3> QED  BY <1>1, <1>2, <2>1, <2>2, <3>1 DEF AheadIn, r
  <2>3. CASE i # 1
    <3>1. i - 1 \in t /\ i \in DOMAIN q
      BY <1>2, <2>3 DEF SentIn
    <3>2. r[i - 1].interval = v
      BY <1>1, <2>1, <2>3, <3>1
    <3>3. \A k \in t : k <= i - 1
      BY <1>2, <2>1
    <3> HIDE DEF t
    <3> QED  BY <3>1, <3>2, <3>3 DEF AheadIn, r, t
  <2> QED  BY <2>2, <2>3
<1> QED  BY <1>3, <1>4

LEMMA Elements ==
  ASSUME NEW q \in Seq(Message)
  PROVE  /\ \A m \in Message : Els(Append(q, m)) = Els(q) \cup {m}
         /\ \A r \in Seq(Message) : Els(q \o r) = Els(q) \cup Els(r)
         /\ q # <<>> => Els(q) = {Head(q)} \cup Els(Tail(q))
<1>1. ASSUME NEW m \in Message  PROVE Els(Append(q, m)) = Els(q) \cup {m}
  <2>1. /\ Len(q) + 1 \in DOMAIN Append(q, m) /\ Append(q, m)[Len(q) + 1] = m
        /\ \A i \in DOMAIN q : i \in DOMAIN Append(q, m) /\ Append(q, m)[i] = q[i]
        /\ \A i \in DOMAIN Append(q, m) : i \in DOMAIN q \/ i = Len(q) + 1
    OBVIOUS
  <2> QED  BY <2>1 DEF Els
<1>2. ASSUME NEW r \in Seq(Message)  PROVE Els(q \o r) = Els(q) \cup Els(r)
  <2> DEFINE c == q \o r
  <2>1. /\ DOMAIN q = 1..Len(q) /\ DOMAIN r = 1..Len(r) /\ DOMAIN c = 1..(Len(q) + Len(r))
        /\ Len(q) \in Nat /\ Len(r) \in Nat
        /\ \A i \in 1..(Len(q) + Len(r)) : c[i] = IF i <= Len(q) THEN q[i] ELSE r[i - Len(q)]
    OBVIOUS
  <2> HIDE DEF c
  <2>2. ASSUME NEW i \in DOMAIN q  PROVE q[i] \in Els(c)
    <3>1. i \in DOMAIN c /\ c[i] = q[i]
      BY <2>1
    <3> QED  BY <3>1 DEF Els
  <2>3. ASSUME NEW i \in DOMAIN r  PROVE r[i] \in Els(c)
    <3> DEFINE k == i + Len(q)
    <3>1. k \in DOMAIN c /\ ~(k <= Len(q)) /\ k - Len(q) = i
      BY <2>1
    <3>2. c[k] = r[i]
      BY <2>1, <3>1
    <3> QED  BY <3>1, <3>2 DEF Els
  <2>4. ASSUME NEW i \in DOMAIN c  PROVE c[i] \in Els(q) \cup Els(r)
    <3>1. CASE i <= Len(q)
      <4>1. i \in DOMAIN q /\ c[i] = q[i]
        BY <2>1, <3>1
      <4> QED  BY <4>1 DEF Els
    <3>2. CASE ~(i <= Len(q))
      <4>1. i - Len(q) \in DOMAIN r /\ c[i] = r[i - Len(q)]
        BY <2>1, <3>2
      <4> QED  BY <4>1 DEF Els
    <3> QED  BY <3>1, <3>2
  <2> QED  BY <2>2, <2>3, <2>4 DEF Els, c
<1>3. ASSUME q # <<>>  PROVE Els(q) = {Head(q)} \cup Els(Tail(q))
  <2> DEFINE t == Tail(q)
  <2>1. /\ Head(q) = q[1] /\ 1 \in DOMAIN q
        /\ \A i \in DOMAIN q : i = 1 \/ (i - 1 \in DOMAIN t /\ t[i - 1] = q[i])
        /\ \A i \in DOMAIN t : i + 1 \in DOMAIN q /\ t[i] = q[i + 1]
    BY <1>3
  <2> HIDE DEF t
  <2>2. \A i \in DOMAIN q : q[i] \in {Head(q)} \cup Els(t)
    BY <2>1 DEF Els
  <2>3. \A i \in DOMAIN t : t[i] \in Els(q)
    BY <2>1 DEF Els
  <2>4. Head(q) \in Els(q)
    BY <2>1 DEF Els
  <2> QED  BY <2>2, <2>3, <2>4 DEF Els, t
<1> QED  BY <1>1, <1>2, <1>3

\* The difference of two settings holds the new interval of every job that changed.
LEMMA UpdatesSay ==
  ASSUME NEW prev \in Intervals, NEW next \in Intervals
  PROVE  /\ Truthful(IntervalUpdates(prev, next), next)
         /\ \A j \in Jobs : prev[j] # next[j] =>
              \E m \in Els(IntervalUpdates(prev, next)) : m.job = j
<1> DEFINE changed(j) == IF prev[j] # next[j] THEN <<Update(j, next[j])>> ELSE <<>>
           all == IntervalUpdates(prev, next)
<1>1. ASSUME NEW j \in Jobs
      PROVE  /\ changed(j) \in Seq(Message)
             /\ \A m \in Els(changed(j)) : m = Update(j, next[j])
             /\ prev[j] # next[j] => Update(j, next[j]) \in Els(changed(j))
  <2>1. Update(j, next[j]) \in Message
    BY DEF Update, Message, Intervals
  <2>2. Els(<<>>) = {} /\ Els(<<Update(j, next[j])>>) = {Update(j, next[j])}
    BY DEF Els
  <2> QED  BY <2>1, <2>2
<1>2. all = changed("hardware_monitor") \o changed("fan_control") \o changed("gpu_overclock")
  BY DEF IntervalUpdates
<1> HIDE DEF changed, all
<1>3. {"hardware_monitor", "fan_control", "gpu_overclock"} = Jobs
  BY DEF Jobs
<1>4. Els(all) = Els(changed("hardware_monitor")) \cup Els(changed("fan_control"))
                 \cup Els(changed("gpu_overclock"))
  <2>1. changed("hardware_monitor") \o changed("fan_control") \in Seq(Message)
    BY <1>1, <1>3
  <2>2. /\ changed("hardware_monitor") \in Seq(Message) /\ changed("fan_control") \in Seq(Message)
        /\ changed("gpu_overclock") \in Seq(Message)
    BY <1>1, <1>3
  <2>3. Els(changed("hardware_monitor") \o changed("fan_control"))
          = Els(changed("hardware_monitor")) \cup Els(changed("fan_control"))
    BY <2>2, Elements
  <2>4. Els(all) = Els(changed("hardware_monitor") \o changed("fan_control"))
                   \cup Els(changed("gpu_overclock"))
    BY <1>2, <2>1, <2>2, Elements
  <2> QED  BY <2>3, <2>4
<1>5. \A j \in Jobs : Update(j, next[j]).job = j
  BY DEF Update
<1>6. ASSUME NEW m \in Els(all)  PROVE m = Update(m.job, next[m.job])
  <2>1. PICK j \in Jobs : m \in Els(changed(j))
    BY <1>3, <1>4
  <2> QED  BY <1>1, <1>5, <2>1
<1>7. ASSUME NEW j \in Jobs, prev[j] # next[j]  PROVE \E m \in Els(all) : m.job = j
  <2>1. Update(j, next[j]) \in Els(all)
    BY <1>1, <1>3, <1>4, <1>7
  <2> QED  BY <1>5, <2>1
<1> QED  BY <1>6, <1>7 DEF Truthful, all

\* What is queued stays queued: a due job goes to the batch, one that ran to the heap.
LEMMA QueuedStays ==
  ASSUME TypeOK, CollectDue \/ RunJob \/ (heap \subseteq heap' /\ batch' = batch), NEW j \in Jobs, Queued(j)
  PROVE  Queued(j)'
<1>1. CASE CollectDue
  <2>1. batch = <<>> /\ heap' = heap \ Due /\ j \in heap
    BY <1>1 DEF CollectDue, Queued
  <2>2. CASE j \in Due
    BY <1>1, <2>2, CollectAll DEF Queued
  <2>3. CASE j \notin Due
    BY <2>1, <2>3 DEF Queued
  <2> QED  BY <2>2, <2>3
<1>2. CASE RunJob
  <2>1. batch \in Seq(Jobs) /\ batch # <<>> /\ batch' = Tail(batch) /\ heap' = heap \cup {Head(batch)}
    BY <1>2 DEF RunJob, TypeOK
  <2>2. \A i \in DOMAIN batch :
          batch[i] = Head(batch) \/ (i - 1 \in DOMAIN batch' /\ batch'[i - 1] = batch[i])
    BY <2>1
  <2> QED  BY <2>1, <2>2 DEF Queued
<1>3. CASE heap \subseteq heap' /\ batch' = batch
  BY <1>3 DEF Queued
<1> QED  BY <1>1, <1>2, <1>3

LEMMA AgreeInit == \A c \in Calls : Init => AddsFirst /\ SyncInv(c)
<1> SUFFICES ASSUME NEW c \in Calls, Init  PROVE AddsFirst /\ SyncInv(c)
  OBVIOUS
<1>1. /\ commands = <<Add("hardware_monitor"), Add("fan_control"), Add("gpu_overclock")>>
      /\ pc[c] = "idle" /\ interval = settings
  BY DEF Init
<1>2. \A j : Add(j).type = "AddJob" /\ Add(j).job = j
  BY DEF Add
<1>3. DOMAIN commands = {1, 2, 3} /\ \A i \in {1, 2, 3} : commands[i].type = "AddJob"
  BY <1>1, <1>2
<1>4. \A j \in Jobs : \E m \in Els(commands) : m.type = "AddJob" /\ m.job = j
  <2>1. Els(commands) = {Add("hardware_monitor"), Add("fan_control"), Add("gpu_overclock")}
    BY <1>1 DEF Els
  <2> QED  BY <1>2, <2>1 DEF Jobs
<1>5. AddsFirst
  BY <1>3, <1>4 DEF AddsFirst
<1>6. ASSUME NEW j \in Jobs  PROVE SentIn(commands, j) = {}
  <2>1. \A i : Update(j, i).type = "UpdateInterval"
    BY DEF Update
  <2> QED  BY <1>3, <2>1 DEF SentIn
<1> QED  BY <1>1, <1>5, <1>6 DEF SyncInv, Ahead, AheadIn

\* The scheduler takes a command: until every job is there, it is an AddJob.
LEMMA CommandAgrees ==
  ASSUME TypeOK, NEW c \in Calls, AddsFirst, SyncInv(c), Command
  PROVE  AddsFirst' /\ SyncInv(c)'
<1> DEFINE cmd == Head(commands)
<1>1. /\ commands \in Seq(Message) /\ commands # <<>> /\ commands' = Tail(commands)
      /\ interval \in Intervals /\ heap \subseteq Jobs /\ batch = <<>>
  BY DEF Command, TypeOK, Intervals
<1>2. cmd \in Message /\ cmd = commands[1] /\ 1 \in DOMAIN commands
  BY <1>1
<1>3. /\ UNCHANGED <<batch, settings, pc, payload, updates>>
      /\ \/ cmd.type = "AddJob" /\ heap' = heap \cup {cmd.job} /\ interval' = interval
         \/ /\ cmd.type # "AddJob" /\ heap' = heap
            /\ interval' = [interval EXCEPT ![cmd.job] =
                              IF cmd.job \in heap THEN cmd.interval ELSE @]
  BY DEF Command, calls
<1>4. /\ \A i \in DOMAIN commands' : i + 1 \in DOMAIN commands /\ commands'[i] = commands[i + 1]
      /\ \A i \in DOMAIN commands' : i \in Nat \ {0}
      /\ \A i \in DOMAIN commands : i \in Nat \ {0}
  BY <1>1
<1>5. Els(commands) = {cmd} \cup Els(commands')
  BY <1>1, Elements
<1> HIDE DEF cmd
<1>6. ASSUME cmd.type # "AddJob"  PROVE cmd.job \in heap
  <2>1. ASSUME NEW i \in DOMAIN commands  PROVE commands[i].type # "AddJob"
    <3>1. i = 1 \/ 1 < i
      BY <1>4
    <3> QED  BY <1>2, <1>6, <3>1 DEF AddsFirst
  <2>2. \A m \in Els(commands) : m.type # "AddJob"
    BY <2>1 DEF Els
  <2>3. cmd.job \in Jobs
    BY <1>2 DEF Message
  <2>4. Queued(cmd.job)
    BY <2>2, <2>3 DEF AddsFirst
  <2> QED  BY <1>1, <2>4 DEF Queued
<1>7. AddsFirst'
  <2>1. \A i, k \in DOMAIN commands' :
          i < k /\ commands'[k].type = "AddJob" => commands'[i].type = "AddJob"
    BY <1>4 DEF AddsFirst
  <2>2. ASSUME NEW j \in Jobs
        PROVE  Queued(j)' \/ \E m \in Els(commands') : m.type = "AddJob" /\ m.job = j
    <3>1. CASE Queued(j)
      BY <1>3, <3>1 DEF Queued
    <3>2. CASE \E m \in Els(commands) : m.type = "AddJob" /\ m.job = j
      BY <1>3, <1>5, <3>2 DEF Queued
    <3> QED  BY <3>1, <3>2 DEF AddsFirst
  <2> QED  BY <2>1, <2>2 DEF AddsFirst, Els
<1>8. ASSUME NEW j \in Jobs, NEW v, Ahead(j, v)  PROVE Soon(j, v)
  <2>1. interval'[j] = IF cmd = Update(j, cmd.interval) THEN cmd.interval ELSE interval[j]
    <3>1. cmd.type = "AddJob" => cmd # Update(j, cmd.interval)
      BY DEF Update
    <3>2. cmd.type # "AddJob" => (cmd = Update(j, cmd.interval) <=> cmd.job = j)
      <4>1. cmd.type # "AddJob" => cmd = Update(cmd.job, cmd.interval)
        BY <1>2 DEF Message, Update
      <4>2. Update(j, cmd.interval).job = j
        BY DEF Update
      <4> QED  BY <4>1, <4>2
    <3>3. cmd.job \in Jobs /\ interval \in [Jobs -> Nat \ {0}]
      BY <1>1, <1>2 DEF Message, Intervals
    <3> QED  BY <1>3, <1>6, <3>1, <3>2, <3>3
  <2>2. AheadIn(Tail(commands), j, interval'[j], v)
    BY <1>1, <1>8, <2>1, AheadTail DEF Ahead, cmd
  <2> QED  BY <1>1, <2>2 DEF Soon
<1>9. SyncInv(c)'
  <2>1. \A j \in Jobs : settings'[j] = settings[j]
    BY <1>3
  <2>2. \A j \in Jobs : Ahead(j, settings[j]) => Soon(j, settings'[j])
    BY <1>3, <1>8
  <2> QED  BY <1>3, <2>2 DEF SyncInv, Ahead, Soon
<1> QED  BY <1>7, <1>9

\* A call of the client: what it has yet to send is what has changed.
LEMMA CallAgrees ==
  ASSUME TypeOK, NEW c \in Calls, AddsFirst, SyncInv(c),
         CallStep(c) \/ \E p \in Payload : SyncDiff(c, p)
  PROVE  AddsFirst' /\ SyncInv(c)'
<1>1. /\ settings \in Intervals /\ commands \in Seq(Message) /\ updates[c] \in Seq(Message)
      /\ payload[c] \in Payload /\ pc[c] \in {"idle", "store", "send"}
      /\ pc \in [Calls -> {"idle", "store", "send"}] /\ updates \in [Calls -> Seq(Message)]
      /\ payload \in [Calls -> Payload]
  BY DEF TypeOK, Intervals
<1>2. UNCHANGED <<left, interval, heap, batch>>
  BY DEF CallStep, SyncStore, SyncSend, UpdatePollingInterval, SyncEnd, SyncDiff, scheduler
<1>3. ASSUME commands' = commands  PROVE AddsFirst' /\ \A j \in Jobs : \A v : Ahead(j, v) => Soon(j, v)
  BY <1>2, <1>3 DEF AddsFirst, Queued, Ahead, Soon
<1>4. ASSUME NEW m \in Message, m.type = "UpdateInterval", commands' = Append(commands, m)
      PROVE  /\ AddsFirst'
             /\ \A j \in Jobs : \A v : Ahead(j, v) /\ m # Update(j, m.interval) => Soon(j, v)
             /\ \A j \in Jobs : \A v : m = Update(j, v) => Soon(j, v)
  <2>1. AddsFirst'
    <3>1. /\ \A i \in DOMAIN commands' : commands'[i].type = "AddJob" => i \in DOMAIN commands
          /\ \A i \in DOMAIN commands : i \in Int /\ commands'[i] = commands[i]
          /\ \A i \in DOMAIN commands', k \in DOMAIN commands : i < k => i \in DOMAIN commands
      BY <1>1, <1>4
    <3>2. \A i, k \in DOMAIN commands' :
            i < k /\ commands'[k].type = "AddJob" => commands'[i].type = "AddJob"
      BY <3>1 DEF AddsFirst
    <3>3. Els(commands') = Els(commands) \cup {m}
      BY <1>1, <1>4, Elements
    <3>4. \A j \in Jobs : Queued(j)' \/ \E n \in Els(commands') : n.type = "AddJob" /\ n.job = j
      BY <1>2, <3>3 DEF AddsFirst, Queued
    <3> QED  BY <3>2, <3>4 DEF AddsFirst, Els
  <2>2. ASSUME NEW j \in Jobs, NEW v, m = Update(j, v) \/ (Ahead(j, v) /\ m # Update(j, m.interval))
        PROVE  Soon(j, v)
    <3>1. AheadIn(Append(commands, m), j, interval[j], v)
      BY <1>1, <2>2, AheadAppend DEF Ahead
    <3> QED  BY <1>2, <1>4, <3>1 DEF Soon
  <2> QED  BY <2>1, <2>2
<1>5. ASSUME NEW p \in Payload, SyncDiff(c, p)  PROVE AddsFirst' /\ SyncInv(c)'
  <2>1. /\ pc[c] = "idle" /\ pc'[c] = "store" /\ settings' = settings /\ commands' = commands
        /\ payload'[c] = p /\ updates'[c] = IntervalUpdates(settings, From(p))
    BY <1>1, <1>5 DEF SyncDiff
  <2> QED  BY <1>3, <2>1 DEF SyncInv, Ahead, Soon
<1>6. CASE SyncStore(c)
  <2>1. /\ pc[c] = "store" /\ pc'[c] = "send" /\ settings' = From(payload[c])
        /\ UNCHANGED <<commands, payload, updates>>
    BY <1>1, <1>6 DEF SyncStore
  <2>2. /\ updates[c] = IntervalUpdates(settings, settings') /\ settings' \in Intervals
        /\ \A j \in Jobs : Ahead(j, settings[j])
    BY <1>1, <2>1, FromType DEF SyncInv
  <2>3. /\ Truthful(updates[c], settings')
        /\ \A j \in Jobs : settings[j] # settings'[j] => \E m \in Els(updates[c]) : m.job = j
    BY <1>1, <2>2, UpdatesSay
  <2>4. \A j \in Jobs : Soon(j, settings'[j]) \/ \E m \in Els(updates[c]) : m.job = j
    BY <1>3, <2>1, <2>2, <2>3
  <2> QED  BY <1>3, <2>1, <2>3, <2>4 DEF SyncInv, Ahead, Soon
<1>7. CASE SyncSend(c)
  <2> DEFINE m == Head(updates[c])
  <2>1. /\ pc[c] = "send" /\ pc'[c] = "send" /\ updates[c] # <<>> /\ updates'[c] = Tail(updates[c])
        /\ commands' = Append(commands, m) /\ UNCHANGED <<settings, payload>>
    BY <1>1, <1>7 DEF SyncSend
  <2>2. m \in Message /\ Els(updates[c]) = {m} \cup Els(updates'[c])
    BY <1>1, <2>1, Elements
  <2> HIDE DEF m
  <2>3. m = Update(m.job, settings[m.job]) /\ Truthful(updates'[c], settings')
    BY <2>1, <2>2 DEF SyncInv, Truthful
  <2>4. m.type = "UpdateInterval" /\ \A j : m = Update(j, m.interval) => m.job = j
    BY <2>3 DEF Update
  <2>5. \A j \in Jobs : Soon(j, settings[j]) \/ \E n \in Els(updates'[c]) : n.job = j
    BY <1>4, <2>1, <2>2, <2>3, <2>4 DEF SyncInv
  <2>6. \A j \in Jobs : Soon(j, settings'[j]) \/ \E n \in Els(updates'[c]) : n.job = j
    BY <2>1, <2>5
  <2> QED  BY <1>4, <2>1, <2>2, <2>3, <2>4, <2>6 DEF SyncInv, Ahead, Soon
<1>8. ASSUME updates[c] = <<>>, pc[c] = "send"
      PROVE  settings = From(payload[c]) /\ \A j \in Jobs : Ahead(j, settings[j])
  <2>1. Els(<<>>) = {}
    BY DEF Els
  <2> QED  BY <1>8, <2>1 DEF SyncInv
<1>9. CASE UpdatePollingInterval(c)
  <2> DEFINE m == Update("gpu_overclock", payload[c].oc)
  <2>1. /\ pc[c] = "send" /\ pc'[c] = "idle" /\ updates[c] = <<>> /\ settings' = settings
        /\ commands' = Append(commands, m)
    BY <1>1, <1>9 DEF UpdatePollingInterval
  <2>2. payload[c].oc \in OcRates /\ \A r \in OcRates : r \in Nat /\ r >= Floor /\ r # 0 /\ Floor \in Nat
    BY <1>1, ConstantsOK DEF Payload
  <2>3. settings["gpu_overclock"] = payload[c].oc
    <3>1. AtLeast(payload[c].oc) = payload[c].oc
      BY <2>2 DEF AtLeast
    <3> QED  BY <1>8, <2>1, <3>1 DEF From
  <2>4. m \in Message /\ m.type = "UpdateInterval" /\ m.job = "gpu_overclock"
    BY <2>2 DEF Message, Update, Jobs
  <2>5. \A j : m = Update(j, m.interval) => j = "gpu_overclock"
    BY DEF Update
  <2>6. m = Update("gpu_overclock", settings["gpu_overclock"])
    BY <2>3
  <2> HIDE DEF m
  <2>7. \A j \in Jobs : Soon(j, settings[j])
    BY <1>4, <1>8, <2>1, <2>4, <2>5, <2>6
  <2>8. \A j \in Jobs : Soon(j, settings'[j])
    BY <2>1, <2>7
  <2> QED  BY <1>4, <2>1, <2>4, <2>8 DEF SyncInv, Ahead, Soon
<1>10. CASE SyncEnd(c)
  <2>1. /\ pc[c] = "send" /\ pc'[c] = "idle" /\ updates[c] = <<>>
        /\ UNCHANGED <<commands, settings, payload, updates>>
    BY <1>1, <1>10 DEF SyncEnd
  <2>2. \A j \in Jobs : Soon(j, settings'[j])
    BY <1>3, <1>8, <2>1
  <2> QED  BY <1>3, <2>1, <2>2 DEF SyncInv, Ahead, Soon
<1> QED  BY <1>5, <1>6, <1>7, <1>9, <1>10 DEF CallStep

\* With one client, whatever it sends and however its calls interleave with the
\* scheduler, every job runs or is about to run at the stored interval
\* (sync_from, compute_interval_updates, UpdatePollingInterval).  With two clients
\* the settings are compared and stored under two locks, and it does not hold.
THEOREM OneClientAgrees ==
  ASSUME NEW c, Calls = {c}
  PROVE  Spec => []IntervalsAgree
<1>1. c \in Calls
  OBVIOUS
<1>2. TypeOK /\ SyncInv(c) => IntervalsAgree
  <2> SUFFICES ASSUME TypeOK, SyncInv(c), pc[c] = "idle", NEW j \in Jobs  PROVE Heading(j) = settings[j]
    BY <1>1 DEF IntervalsAgree
  <2> QED  BY AheadHeading DEF SyncInv
<1>3. TypeOK /\ AddsFirst /\ SyncInv(c) /\ [Next]_vars => (AddsFirst /\ SyncInv(c))'
  <2> SUFFICES ASSUME TypeOK, AddsFirst, SyncInv(c), [Next]_vars  PROVE (AddsFirst /\ SyncInv(c))'
    OBVIOUS
  <2>1. ASSUME UNCHANGED <<interval, commands, settings, pc, payload, updates>>,
               CollectDue \/ RunJob \/ UNCHANGED <<heap, batch>>
        PROVE  (AddsFirst /\ SyncInv(c))'
    <3>1. SyncInv(c)'
      BY <2>1 DEF SyncInv, Ahead
    <3>2. \A j \in Jobs : Queued(j) => Queued(j)'
      BY <2>1, QueuedStays
    <3>3. AddsFirst'
      BY <2>1, <3>2 DEF AddsFirst
    <3> QED  BY <3>1, <3>3
  <2>2. CASE CollectDue \/ RunJob \/ Tick \/ UNCHANGED vars
    <3>1. UNCHANGED <<interval, commands, settings, pc, payload, updates>>
      BY <2>2 DEF CollectDue, RunJob, Tick, vars, scheduler, calls
    <3>2. CollectDue \/ RunJob \/ UNCHANGED <<heap, batch>>
      BY <2>2 DEF Tick, vars, scheduler
    <3> QED  BY <2>1, <3>1, <3>2
  <2>3. \A d \in Calls : d = c
    OBVIOUS
  <2> QED  BY <1>1, <2>2, <2>3, CommandAgrees, CallAgrees DEF Next
<1>4. Init => AddsFirst /\ SyncInv(c)
  BY <1>1, AgreeInit
<1> QED  BY <1>2, <1>3, <1>4, PollingInit, PollingNext, PTL DEF Spec
=============================================================================
