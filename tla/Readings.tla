------------------------------ MODULE Readings ------------------------------
(***************************************************************************)
(* Readings that are differences: the load of a processor, the throughput of *)
(* the wireless interface and of a disk, and the power of the package.  Each *)
(* is computed from a counter of the kernel and the sample that an earlier   *)
(* call left in a static.  The monitor's job and clients' calls that refresh *)
(* the cache take samples at once: the counter is read first, the static is  *)
(* locked later.                                                             *)
(***************************************************************************)
EXTENDS Integers

CONSTANTS
  Threads,    \* the threads that take samples
  Kinds,      \* of {"cpu", "net", "disk", "energy"}: the readings explored
  Takers,     \* per kind: the threads that take its samples
  MaxNow,     \* bound: ticks of the clock
  MaxCount,   \* bound: what a counter counts
  Wrap,       \* the energy counter starts again at this value
  IwFails     \* whether iw may fail to give the bytes of the association

None == -1
Rates == Kinds \ {"cpu"}
Nobody == [kind |-> "none", value |-> 0, total |-> 0, cpu |-> <<0, 0>>]

VARIABLES
  now,      \* the clock, in units of more than the ten milliseconds of try_rapl
  count,    \* per kind: what has been transferred or used since boot
  joined,   \* the bytes at which the wireless association began
  cpu,      \* the processor: <<work, rest>>
  prevCpu,  \* PREVIOUS_CPU_STATS
  prev,     \* PREVIOUS_NET_STATS, PREVIOUS_STORAGE_STATS, PREVIOUS_RAPL_STATS
  sample,   \* per thread: the counter it has read and not yet compared
  load,     \* the load published last, a fraction <<work, total>>
  rate      \* the rate published last: <<difference, elapsed, really counted>>

readingsVars == <<now, count, joined, cpu, prevCpu, prev, sample, load, rate>>

Missing == [value |-> None, at |-> 0, total |-> 0]

TypeOK ==
  /\ now \in 0..MaxNow /\ count \in [Rates -> 0..MaxCount] /\ joined \in 0..MaxCount
  /\ cpu \in (0..MaxCount) \X (0..MaxCount)
  /\ prevCpu \in {<<>>} \cup ((0..MaxCount) \X (0..MaxCount))
  /\ prev \in [Rates -> [value : None..MaxCount, at : 0..MaxNow, total : 0..MaxCount]]
  /\ \A t \in Threads : sample[t].kind \in Kinds \cup {"none"}

Init ==
  /\ now = 0 /\ count = [k \in Rates |-> 0] /\ joined = 0 /\ cpu = <<0, 0>>
  /\ prevCpu = <<>> /\ prev = [k \in Rates |-> Missing]
  /\ sample = [t \in Threads |-> Nobody] /\ load = <<0, 0>> /\ rate = <<0, 1, 0>>

-----------------------------------------------------------------------------
(* The machine.                                                             *)

Tick ==
  /\ now < MaxNow /\ now' = now + 1
  /\ UNCHANGED <<count, joined, cpu, prevCpu, prev, sample, load, rate>>

Transfer(k) ==
  /\ count[k] < MaxCount /\ count' = [count EXCEPT ![k] = @ + 1]
  /\ UNCHANGED <<now, joined, cpu, prevCpu, prev, sample, load, rate>>

Spend(c) ==
  /\ "cpu" \in Kinds
  /\ c \in {<<cpu[1] + 1, cpu[2]>>, <<cpu[1], cpu[2] + 1>>} \cap (0..MaxCount) \X (0..MaxCount)
  /\ cpu' = c
  /\ UNCHANGED <<now, count, joined, prevCpu, prev, sample, load, rate>>

\* The interface associates anew: iw counts from zero again.
Associate ==
  /\ "net" \in Kinds /\ joined # count["net"] /\ joined' = count["net"]
  /\ UNCHANGED <<now, count, cpu, prevCpu, prev, sample, load, rate>>

-----------------------------------------------------------------------------
(* A reading.                                                               *)

\* Mutant of Minus: a difference that does not stop at zero.
MinusSigned(a, b) == a - b

\* saturating_sub.
Minus(a, b) == IF a >= b THEN a - b ELSE 0

\* read_cpu_stats.
SampleCpu(t) ==
  /\ "cpu" \in Kinds
  /\ sample[t] = Nobody
  /\ sample' = [sample EXCEPT ![t] = [Nobody EXCEPT !.kind = "cpu", !.cpu = cpu]]
  /\ UNCHANGED <<now, count, joined, cpu, prevCpu, prev, load, rate>>

\* calculate_cpu_load: the first call and a call without any new tick give 0 %.
StoreCpu(t) ==
  /\ sample[t].kind = "cpu"
  /\ LET c == sample[t].cpu
         total == Minus(c[1] + c[2], prevCpu[1] + prevCpu[2])
     IN  /\ load' = IF prevCpu # <<>> /\ total > 0 THEN <<Minus(c[1], prevCpu[1]), total>> ELSE <<0, 0>>
         /\ prevCpu' = c
  /\ sample' = [sample EXCEPT ![t] = Nobody]
  /\ UNCHANGED <<now, count, joined, cpu, prev, rate>>

\* What the counter of a kind may read: the bytes of the association as iw gives
\* them, of the interface if it does not; the energy wraps.
Counter(k) ==
  CASE k = "net" -> {count[k] - joined} \cup (IF IwFails THEN {count[k]} ELSE {})
    [] k = "disk" -> {count[k]}
    [] k = "energy" -> {count[k] % Wrap}

SampleRate(t, k) ==
  /\ sample[t] = Nobody /\ t \in Takers[k]
  /\ \E v \in Counter(k) :
       sample' = [sample EXCEPT ![t] = [Nobody EXCEPT !.kind = k, !.value = v, !.total = count[k]]]
  /\ UNCHANGED <<now, count, joined, cpu, prevCpu, prev, load, rate>>

\* read_wifi_rates and calculate_storage_rates store every sample, and publish a
\* rate when time has passed; try_rapl gives up without storing when it is too
\* soon, and publishes nothing used when the counter has gone back.
StoreRate(t) ==
  LET k == sample[t].kind
      p == prev[k]
      elapsed == now - p.at
  IN  /\ k \in Rates
      /\ IF p.value # None /\ elapsed > 0
         THEN rate' = <<Minus(sample[t].value, p.value), elapsed, sample[t].total - p.total>>
         ELSE UNCHANGED rate
      /\ IF k = "energy" /\ p.value # None /\ elapsed = 0
         THEN UNCHANGED prev
         ELSE prev' = [prev EXCEPT ![k] = [value |-> sample[t].value, at |-> now, total |-> sample[t].total]]
      /\ sample' = [sample EXCEPT ![t] = Nobody]
      /\ UNCHANGED <<now, count, joined, cpu, prevCpu, load>>

Next ==
  \/ Tick \/ Associate
  \/ \E k \in Rates : Transfer(k)
  \/ \E c \in (0..MaxCount) \X (0..MaxCount) : Spend(c)
  \/ \E t \in Threads :
       \/ SampleCpu(t) \/ StoreCpu(t) \/ StoreRate(t)
       \/ \E k \in Rates : SampleRate(t, k)

Spec == Init /\ [][Next]_readingsVars

-----------------------------------------------------------------------------
(* Properties.                                                              *)

\* A load is between 0 and 100 %, also when samples are stored in another order
\* than they were taken (calculate_cpu_load).
LoadIsPercent == 0 <= load[1] /\ load[1] <= load[2]

\* A rate never claims more than was counted between the two samples it is made
\* from (get_wifi_info: "calculate actual throughput"): not when a counter begins
\* anew, if its samples are stored in order; not out of order, if it never does.
RateIsReal == 0 <= rate[1] /\ (IF rate[3] >= 0 THEN rate[1] <= rate[3] ELSE rate[1] = 0)
=============================================================================
