---------------------------- MODULE GpuIdentity -----------------------------
(***************************************************************************)
(* Which adapter an index of the driver's library stands for.  The library   *)
(* numbers the adapters in an order of its own, the kernel lists them by bus *)
(* address; the daemon learns the pairs from what the library says of each   *)
(* device (NVIDIA_BDF_BY_INDEX) and keeps what it has found out about a      *)
(* device (NVIDIA_METADATA_CACHE), so that later calls need not ask.         *)
(***************************************************************************)
EXTENDS Naturals, FiniteSets, Functions

CONSTANTS
  Gpus,      \* the adapters, by bus address: positive numbers
  Words,     \* the runtime status words of the kernel
  Readable   \* the sets of fields that a pass may be able to read

None == 0
Unknown == "unknown"
Indexes == 0..Cardinality(Gpus)-1

\* What is found out about a device: what the incomplete-check looks at, and the
\* rest (limits of power, supported states, architecture, size).
Checked == {"vram", "ranges", "offsets"}
Fields == Checked \cup {"rest"}

VARIABLES
  order,     \* the library's numbering
  word,      \* per adapter: its status word in sysfs
  learned,   \* NVIDIA_BDF_BY_INDEX
  slots,     \* the pass: the identities the library gave, per index
  statuses,  \* the pass: the status resolved per index
  todo,      \* the pass: the indexes still to be described
  meta,      \* NVIDIA_METADATA_CACHE: the fields known per index
  good,      \* history: the indexes described by a pass that could read all
  roused     \* history: a call asked or wrote an adapter while it was suspended

identityVars == <<order, word, learned, slots, statuses, todo, meta, good, roused>>

TypeOK ==
  /\ order \in [Indexes -> Gpus] /\ word \in [Gpus -> Words]
  /\ learned \in [Indexes -> Gpus \cup {None}]
  /\ slots \in [Indexes -> Gpus \cup {None}]
  /\ statuses \in [Indexes -> Words \cup {Unknown}]
  /\ todo \subseteq Indexes /\ good \subseteq Indexes /\ roused \in BOOLEAN
  /\ meta \in [Indexes -> [cached : BOOLEAN, fields : SUBSET Fields]]

Init ==
  /\ order \in Bijection(Indexes, Gpus) /\ word \in [Gpus -> Words]
  /\ learned = [i \in Indexes |-> None] /\ slots = learned
  /\ statuses = [i \in Indexes |-> Unknown]
  /\ todo = {} /\ good = {} /\ roused = FALSE
  /\ meta = [i \in Indexes |-> [cached |-> FALSE, fields |-> {}]]

-----------------------------------------------------------------------------
(* Pairing.                                                                 *)

\* Mutant of StatusOf: adapters are paired by their place in the two lists.
StatusByPlace(s) == [i \in Indexes |-> word[CHOOSE g \in Gpus : Cardinality({h \in Gpus : h < g}) = i]]

\* runtime_status_by_device: by identity; without one only a single adapter can
\* be meant.
StatusOf(s) ==
  [i \in Indexes |->
     IF s[i] # None THEN word[s[i]]
     ELSE IF Cardinality(Gpus) = 1 THEN word[CHOOSE g \in Gpus : TRUE] ELSE Unknown]

\* suspended_decision and is_gpu_suspended_by_index: what is not known counts as
\* suspended.
IsSuspended(i) ==
  IF learned[i] # None THEN word[learned[i]] = "suspended"
  ELSE Cardinality(Gpus) = 1 => \E g \in Gpus : word[g] = "suspended"

\* Mutant of WriteAllowed: an index that is not learned yet is let through.
WriteUnmapped(i) == learned[i] # None => word[learned[i]] \in {"active", "unsupported"}

\* gpu_write_allowed and gpu_write_gate.
WriteAllowed(i) == learned[i] # None /\ word[learned[i]] \in {"active", "unsupported"}

-----------------------------------------------------------------------------
(* A pass that may ask at least one adapter (GpuPolling says which).         *)

\* The library is asked for the identity of every device; it may fail to say.
Identify ==
  /\ todo = {}
  /\ \E said \in [Indexes -> BOOLEAN] :
       LET s == [i \in Indexes |-> IF said[i] THEN order[i] ELSE None]
       IN  /\ slots' = s
           /\ learned' = [i \in Indexes |-> IF said[i] THEN order[i] ELSE learned[i]]
           /\ statuses' = StatusOf(s)
  /\ todo' = Indexes
  /\ UNCHANGED <<order, word, meta, good, roused>>

\* Its tier keeps a device out of the pass, certainly so when it is suspended.
Skip(i) ==
  /\ i \in todo /\ todo' = todo \ {i}
  /\ UNCHANGED <<order, word, learned, slots, statuses, meta, good, roused>>

\* The first pass caches what it can read.  A later one retries what is missing
\* of the checked fields and takes the rest from the entry.
Refreshed(m, read) ==
  [cached |-> TRUE,
   fields |-> IF m.cached THEN m.fields \cup (read \cap Checked) ELSE read]

\* A device that may be asked is described; each field may be unreadable.  One whose
\* status is not known is described as well, asleep or not: what a pass asks of a sleeper
\* is the matter of GpuPolling, where Identify has woken it by now.
Describe(i) ==
  /\ i \in todo /\ todo' = todo \ {i}
  /\ statuses[i] # "suspended"
  /\ \E read \in Readable :
       /\ meta' = [meta EXCEPT ![i] = Refreshed(@, read)]
       /\ good' = IF read = Fields THEN good \cup {i} ELSE good
  /\ UNCHANGED <<order, word, learned, slots, statuses, roused>>

-----------------------------------------------------------------------------
(* Calls of the D-Bus interface and of the control path.                     *)

Rouse(i) == roused' = (roused \/ word[order[i]] = "suspended")

\* Mutant of MayQuery: the cache alone decides.
MayQueryUncached(i, field) == ~(meta[i].cached /\ field \in meta[i].fields)

\* The cache answers; if it cannot, a suspended adapter is left alone.
MayQuery(i, field) == ~(meta[i].cached /\ field \in meta[i].fields) /\ ~IsSuspended(i)

\* get_gpu_clock_ranges and the limits of the two offsets.
GetRanges(i) == MayQuery(i, "ranges") /\ Rouse(i)
GetOffsetLimits(i) == MayQuery(i, "offsets") /\ Rouse(i)

Write(i) == WriteAllowed(i) /\ Rouse(i)

Call(i) ==
  /\ GetRanges(i) \/ GetOffsetLimits(i) \/ Write(i)
  /\ UNCHANGED <<order, word, learned, slots, statuses, todo, meta, good>>

Power(g) ==
  /\ \E w \in Words \ {word[g]} : word' = [word EXCEPT ![g] = w]
  /\ UNCHANGED <<order, learned, slots, statuses, todo, meta, good, roused>>

Next ==
  \/ Identify
  \/ \E i \in Indexes : Skip(i) \/ Describe(i) \/ Call(i)
  \/ \E g \in Gpus : Power(g)

Spec == Init /\ [][Next]_identityVars

-----------------------------------------------------------------------------
(* Properties.                                                              *)

\* No call asks or writes an adapter that is suspended, in whatever order the
\* library numbers them and whatever has been learned (is_gpu_suspended_by_index:
\* "a wrong awake answer would wake the adapter").
SleepersLeftAlone == ~roused

\* A pass takes for a device the status of no other adapter (runtime_status_by_device:
\* "a permuted sysfs enumeration cannot hand one adapter's runtime state to another").
StatusIsItsOwn ==
  [][statuses' # statuses => \A i \in Indexes : statuses'[i] \in {word[order[i]], Unknown}]_identityVars

\* A pass that could read everything leaves nothing unknown about a device
\* (get_nvidia_gpu_info: an incomplete entry is retried, "this handles cases
\* where initial detection failed").
CompleteAfterGoodPass == \A i \in good : meta[i].fields = Fields
=============================================================================
