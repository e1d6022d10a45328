--------------------------- MODULE FrameRingProofs ---------------------------
(***************************************************************************)
(* The frame metrics, for every ring, every number of games, pids, instances, *)
(* segments and retries, and every interleaving.                             *)
(*                                                                         *)
(* NameInv: the file of a pid is its living writer's segment.  That is not   *)
(* inductive alone: a creation that is between its open and its header has   *)
(* the name and no writer yet, and a pid is one running process's at a time. *)
(*                                                                         *)
(* The seqlock keeps its promise: FrameRing implements FrameHistory, in two  *)
(* parts.  SegInv is about the writers: a segment with an even sequence is   *)
(* whole, and only its one holder makes it odd.  ReadInv is about a copy     *)
(* under way: as long as the sequence is the one it began with, nothing it   *)
(* has copied has changed.                                                   *)
(*                                                                         *)
(* ShownInv: how old the snapshot may be at each place of the worker.        *)
(***************************************************************************)
EXTENDS FrameRing, TLAPS

-----------------------------------------------------------------------------
(* The names.                                                               *)

Types ==
  /\ proc \in [Games -> {"new", "running", "dead"}]
  /\ writer \in [Games -> 0..MaxSegs]
  /\ pcw \in [Games -> {"idle", "header", "slot", "count", "even"}]
  /\ nseg \in 0..MaxSegs
  /\ name \in [Pids -> 0..MaxSegs]

\* A pid is one running process's.
OneRunning ==
  \A g, h \in Games : Pid[g] = Pid[h] /\ proc[g] = "running" /\ proc[h] = "running" => g = h

\* Only what runs has a writer, or is about to have one in the file of its name.
WritersRun == \A g \in Games : writer[g] # 0 => proc[g] = "running"
CreatorsHaveNames ==
  \A g \in Games : pcw[g] = "header" => proc[g] = "running" /\ name[Pid[g]] # 0

NameInv == Types /\ OneRunning /\ WritersRun /\ CreatorsHaveNames /\ WriterHasItsName

named == <<proc, writer, pcw, nseg, name>>

LEMMA PidIn ==
  \A g \in Games : Pid[g] \in Pids
BY DEF Pids

LEMMA NameInit == Init => NameInv
<1> SUFFICES ASSUME Init  PROVE NameInv
  OBVIOUS
<1>1. /\ \A g \in Games : proc[g] = "new" /\ writer[g] = 0 /\ pcw[g] = "idle"
      /\ 0 \in 0..MaxSegs
  BY ConstantsOK DEF Init
<1>2. Types
  BY <1>1 DEF Init, Types
<1> QED  BY <1>1, <1>2 DEF NameInv, OneRunning, WritersRun, CreatorsHaveNames, WriterHasItsName

\* What does not touch the names, the writers or the processes.
LEMMA NameKept ==
  ASSUME NameInv, UNCHANGED named  PROVE NameInv'
BY DEF NameInv, named, Types, OneRunning, WritersRun, CreatorsHaveNames, WriterHasItsName

\* A record moves its game alone, between places that are no creation's.
LEMMA RecordKept ==
  ASSUME NameInv, NEW g \in Games, NEW at \in {"idle", "slot", "count", "even"},
         pcw' = [pcw EXCEPT ![g] = at], UNCHANGED <<proc, writer, nseg, name>>
  PROVE  NameInv'
BY DEF NameInv, Types, OneRunning, WritersRun, CreatorsHaveNames, WriterHasItsName

LEMMA StartName ==
  ASSUME NameInv, NEW g \in Games, Start(g)  PROVE NameInv'
<1>1. Types'
  BY DEF Start, NameInv, Types
<1>2. OneRunning'
  BY DEF Start, NameInv, Types, OneRunning
<1>3. WritersRun' /\ CreatorsHaveNames' /\ WriterHasItsName'
  BY DEF Start, NameInv, Types, WritersRun, CreatorsHaveNames, WriterHasItsName
<1> QED  BY <1>1, <1>2, <1>3 DEF NameInv

LEMMA DieName ==
  ASSUME NameInv, NEW g \in Games, Die(g)  PROVE NameInv'
<1>1. Types'
  BY ConstantsOK DEF Die, NameInv, Types
<1>2. OneRunning' /\ WritersRun' /\ CreatorsHaveNames' /\ WriterHasItsName'
  BY DEF Die, NameInv, Types, OneRunning, WritersRun, CreatorsHaveNames, WriterHasItsName
<1> QED  BY <1>1, <1>2 DEF NameInv

\* A name is given only when nobody has it, so nobody's is taken away.
LEMMA CreateName ==
  ASSUME NameInv, NEW g \in Games, NEW i \in Instances, CreateInstance(g, i)  PROVE NameInv'
<1> USE PidIn DEF NameInv, Types
<1>1. CASE name[Pid[g]] # 0
  BY <1>1, NameKept DEF CreateInstance, named
<1>2. CASE name[Pid[g]] = 0
  <2>1. /\ name' = [name EXCEPT ![Pid[g]] = nseg + 1] /\ nseg' = nseg + 1
        /\ pcw' = [pcw EXCEPT ![g] = "header"] /\ proc' = proc /\ writer' = writer
        /\ nseg < MaxSegs /\ proc[g] = "running"
    BY <1>2 DEF CreateInstance, Idle
  <2>2. nseg + 1 \in 0..MaxSegs /\ nseg + 1 # 0
    BY <2>1, ConstantsOK
  <2>3. Types'
    BY <2>1, <2>2
  <2>4. OneRunning' /\ WritersRun' /\ CreatorsHaveNames'
    BY <2>1, <2>2 DEF OneRunning, WritersRun, CreatorsHaveNames
  <2>5. \A h \in Games : Pid[h] = Pid[g] => writer[h] = 0
    BY <1>2 DEF WriterHasItsName
  <2>6. WriterHasItsName'
    BY <2>1, <2>5 DEF WriterHasItsName
  <2> QED  BY <2>3, <2>4, <2>6
<1> QED  BY <1>1, <1>2

LEMMA HeaderName ==
  ASSUME NameInv, NEW g \in Games, WriteHeader(g)  PROVE NameInv'
<1> USE PidIn DEF NameInv, Types
<1>1. /\ writer' = [writer EXCEPT ![g] = name[Pid[g]]] /\ pcw' = [pcw EXCEPT ![g] = "idle"]
      /\ UNCHANGED <<proc, nseg, name>> /\ pcw[g] = "header"
  BY DEF WriteHeader
<1>2. Types' /\ OneRunning' /\ CreatorsHaveNames' /\ WritersRun' /\ WriterHasItsName'
  BY <1>1 DEF OneRunning, CreatorsHaveNames, WritersRun, WriterHasItsName
<1> QED  BY <1>2

\* The name goes with the writer, whichever instance of the process is destroyed.
LEMMA DestroyName ==
  ASSUME NameInv, NEW g \in Games, NEW i \in Instances, DestroyInstance(g, i)  PROVE NameInv'
<1> USE PidIn DEF NameInv, Types
<1>1. /\ writer' = [writer EXCEPT ![g] = 0] /\ UNCHANGED <<proc, pcw, nseg>>
      /\ name' = IF writer[g] = 0 THEN name ELSE [name EXCEPT ![Pid[g]] = 0]
      /\ proc[g] = "running" /\ pcw[g] = "idle" /\ 0 \in 0..MaxSegs
  BY ConstantsOK DEF DestroyInstance, Idle
<1>2. Types' /\ OneRunning' /\ WritersRun'
  BY <1>1 DEF OneRunning, WritersRun
<1>3. \A h \in Games : h # g /\ Pid[h] = Pid[g] => writer[h] = 0 /\ pcw[h] # "header"
  BY <1>1 DEF OneRunning, WritersRun, CreatorsHaveNames
<1>4. CreatorsHaveNames' /\ WriterHasItsName'
  BY <1>1, <1>3 DEF CreatorsHaveNames, WriterHasItsName
<1> QED  BY <1>2, <1>4

LEMMA GameName ==
  ASSUME NameInv, NEW g \in Games, GameStep(g)  PROVE NameInv'
<1>1. CASE CreateSwapchain(g) \/ PresentWithoutInterval(g)
  BY <1>1, NameKept DEF CreateSwapchain, PresentWithoutInterval, named
<1>2. CASE BeginRecord(g) \/ WriteSlot(g) \/ WriteCount(g) \/ EndRecord(g)
  BY <1>2, RecordKept DEF BeginRecord, WriteSlot, WriteCount, EndRecord
<1> QED
  BY <1>1, <1>2, StartName, DieName, CreateName, HeaderName, DestroyName DEF GameStep

\* The worker thread and the clock touch neither.
LEMMA ReaderKeepsNames ==
  ASSUME NameInv, ReaderStep \/ Tick \/ (\E b \in BOOLEAN : SetActive(b))  PROVE NameInv'
<1>1. UNCHANGED named
  BY DEF ReaderStep, ClearWhileInactive, BeginPoll, Open, Select, ReadSeq, ReadCount, ReadSlot,
         ReadAgain, TryAgain, Publish, Tick, SetActive, games, named
<1> QED  BY <1>1, NameKept

\* A writer that records can be found under its pid, whatever instances come and go, whoever
\* had the pid before and whenever a process is killed.
THEOREM WriterIsFound == Spec => []WriterHasItsName
<1>1. Init => NameInv
  BY NameInit
<1>2. NameInv /\ [Next]_vars => NameInv'
  <2> SUFFICES ASSUME NameInv, [Next]_vars  PROVE NameInv'
    OBVIOUS
  <2>1. CASE UNCHANGED vars
    BY <2>1, NameKept DEF vars, games, named
  <2> QED  BY <2>1, GameName, ReaderKeepsNames DEF Next
<1>3. NameInv => WriterHasItsName
  BY DEF NameInv
<1> QED  BY <1>1, <1>2, <1>3, PTL DEF Spec

-----------------------------------------------------------------------------
(* The segments.                                                            *)

Segment == [valid : BOOLEAN, seq : Nat, count : Nat, last : Int, ring : [0..Cap-1 -> Nat]]

SegTypes ==
  /\ seg \in [Segs -> Segment] /\ frames \in [Segs -> Nat]
  /\ last \in [Games -> Int]

\* A segment has one name, and none before it is created.
NamesDiffer ==
  /\ \A p, q \in Pids : name[p] = name[q] /\ name[p] # 0 => p = q
  /\ \A p \in Pids : name[p] <= nseg
  /\ \A s \in Segs : s > nseg => seg[s].seq = 0

\* The game that writes into a segment, or is about to.
Holds(g, s) == writer[g] = s \/ (pcw[g] = "header" /\ name[Pid[g]] = s)

\* The sequence is odd exactly while the holder is at work on an interval.
HoldersPhase ==
  /\ \A g \in Games : pcw[g] \in {"slot", "count", "even"} => writer[g] # 0
  /\ \A g \in Games, s \in Segs : Holds(g, s) =>
       /\ pcw[g] \in {"idle", "header"} <=> seg[s].seq % 2 = 0
       /\ pcw[g] = "even" => seg[s].count = frames[s]

\* The last Cap of k intervals are in their slots.
Laps(ring, k) == \A j \in Nat : j < k /\ k <= j + Cap => ring[j % Cap] = j + 1

Whole ==
  \A s \in Segs :
    /\ Laps(seg[s].ring, frames[s])
    /\ seg[s].seq % 2 = 0 => seg[s].count = frames[s]

SegInv == SegTypes /\ NamesDiffer /\ HoldersPhase /\ Whole

\* Arithmetic.
LEMMA Euclid ==
  ASSUME NEW c \in Nat \ {0}, NEW a \in Nat
  PROVE  a = (c * (a \div c)) + (a % c) /\ a \div c \in Int /\ a % c \in 0..c-1
OBVIOUS

LEMMA NoMultipleBetween ==
  ASSUME NEW c \in Nat \ {0}, NEW k \in Int, 0 < c * k, c * k < c  PROVE FALSE
OBVIOUS

LEMMA SlotsDiffer ==
  ASSUME NEW c \in Nat \ {0}, NEW a \in Nat, NEW b \in Nat, a < b, b < a + c
  PROVE  a % c # b % c
<1> SUFFICES ASSUME a % c = b % c  PROVE FALSE
  OBVIOUS
<1> DEFINE p == a \div c
           q == b \div c
           m == a % c
<1>1. a = (c * p) + m /\ p \in Int /\ b = (c * q) + m /\ q \in Int /\ m \in Int
  BY Euclid
<1> HIDE DEF p, q, m
<1>2. b - a = c * (q - p) /\ q - p \in Int
  BY <1>1
<1>3. 0 < c * (q - p) /\ c * (q - p) < c
  BY <1>2
<1> QED  BY <1>2, <1>3, NoMultipleBetween

LEMMA Parity ==
  ASSUME NEW a \in Nat
  PROVE  a % 2 = 0 <=> (a + 1) % 2 # 0
OBVIOUS

\* The next interval goes into the slot of the oldest.
LEMMA NextLap ==
  ASSUME NEW ring \in [0..Cap-1 -> Nat], NEW k \in Nat, Laps(ring, k)
  PROVE  /\ [ring EXCEPT ![k % Cap] = k + 1] \in [0..Cap-1 -> Nat]
         /\ Laps([ring EXCEPT ![k % Cap] = k + 1], k + 1)
<1> DEFINE new == [ring EXCEPT ![k % Cap] = k + 1]
<1>1. k % Cap \in 0..Cap-1 /\ new \in [0..Cap-1 -> Nat]
  BY Euclid, ConstantsOK
<1>2. ASSUME NEW j \in Nat, j < k + 1, k + 1 <= j + Cap  PROVE new[j % Cap] = j + 1
  <2>1. j % Cap \in 0..Cap-1
    BY Euclid, ConstantsOK
  <2>2. CASE j = k
    BY <1>1, <2>2
  <2>3. CASE j # k
    <3>1. j < k /\ k < j + Cap /\ k <= j + Cap
      BY <1>2, <2>3, ConstantsOK
    <3>2. j % Cap # k % Cap
      BY <3>1, SlotsDiffer, ConstantsOK
    <3>3. ring[j % Cap] = j + 1
      BY <3>1 DEF Laps
    <3> QED  BY <2>1, <3>2, <3>3
  <2> QED  BY <2>2, <2>3
<1> QED  BY <1>1, <1>2 DEF Laps

-----------------------------------------------------------------------------
(* The writers.                                                             *)

\* A segment has one holder, which has its name.
LEMMA OneHolder ==
  ASSUME NameInv, SegInv, NEW g \in Games, NEW h \in Games, NEW s \in Segs,
         Holds(g, s), Holds(h, s)
  PROVE  g = h
<1>1. s # 0
  BY DEF Segs
<1>2. name[Pid[g]] = s /\ name[Pid[h]] = s /\ proc[g] = "running" /\ proc[h] = "running"
  BY <1>1 DEF Holds, NameInv, WriterHasItsName, WritersRun, CreatorsHaveNames
<1>3. Pid[g] = Pid[h]
  BY <1>1, <1>2, PidIn DEF SegInv, NamesDiffer
<1> QED  BY <1>2, <1>3 DEF NameInv, OneRunning

LEMMA SegInit == Init => SegInv
<1> SUFFICES ASSUME Init  PROVE SegInv
  OBVIOUS
<1>1. Cap \in Nat \ {0} /\ MaxSegs \in Nat /\ Old \in Int
  BY ConstantsOK DEF Old, Top
<1>2. EmptyRing \in [0..Cap-1 -> Nat] /\ None \in Int
  BY DEF EmptyRing, None
<1>3. SegTypes
  BY <1>1, <1>2 DEF Init, SegTypes, Segment
<1>4. \A s \in Segs : seg[s].seq = 0 /\ seg[s].count = 0 /\ frames[s] = 0
  BY DEF Init
<1>5. NamesDiffer
  BY <1>4 DEF Init, NamesDiffer
<1>6. HoldersPhase
  BY <1>4 DEF Init, HoldersPhase, Holds, Segs
<1>7. Whole
  BY <1>4 DEF Whole, Laps
<1> QED  BY <1>3, <1>5, <1>6, <1>7 DEF SegInv

\* The contents of the segments are left alone ...
Same(s) ==
  /\ seg'[s].seq = seg[s].seq /\ seg'[s].count = seg[s].count /\ seg'[s].ring = seg[s].ring
  /\ frames'[s] = frames[s]

\* ... and so is who holds them, or somebody lets go.
LEMMA SegKept ==
  ASSUME SegInv, SegTypes', \A s \in Segs : Same(s), NamesDiffer',
         \A g \in Games : pcw'[g] \in {"slot", "count", "even"} => writer'[g] # 0,
         \A g \in Games, s \in Segs : Holds(g, s)' =>
           /\ Holds(g, s)
           /\ pcw[g] = pcw'[g] \/ (pcw[g] = "header" /\ pcw'[g] = "idle")
  PROVE  SegInv'
<1>1. HoldersPhase'
  BY DEF SegInv, HoldersPhase, Same
<1>2. Whole'
  BY DEF SegInv, Whole, Same
<1> QED  BY <1>1, <1>2 DEF SegInv

\* An interval: one step of the holder in its own segment.
LEMMA SegRecorded ==
  ASSUME NameInv, SegInv, NEW g \in Games, NEW s \in Segs, writer[g] = s,
         NEW at \in {"idle", "slot", "count", "even"}, pcw[g] # "header",
         pcw' = [pcw EXCEPT ![g] = at], UNCHANGED <<writer, nseg, name>>, SegTypes',
         \A x \in Segs \ {s} : Same(x),
         at = "idle" <=> seg'[s].seq % 2 = 0,
         at \in {"idle", "even"} => seg'[s].count = frames'[s],
         Laps(seg'[s].ring, frames'[s])
  PROVE  SegInv'
<1>1. NamesDiffer'
  <2>1. s <= nseg
    BY PidIn DEF NameInv, WriterHasItsName, SegInv, NamesDiffer, Segs
  <2>2. nseg \in Int
    BY DEF NameInv, Types
  <2> QED  BY <2>1, <2>2 DEF SegInv, NamesDiffer, Same, Segs
<1>2. \A h \in Games : h # g => pcw'[h] = pcw[h]
  BY DEF NameInv, Types
<1>3. pcw'[g] = at /\ s # 0
  BY DEF NameInv, Types, Segs
<1>4. \A h \in Games, x \in Segs : Holds(h, x)' /\ h # g => Holds(h, x) /\ x # s
  BY <1>2, OneHolder DEF Holds
<1>5. \A x \in Segs : Holds(g, x)' => x = s
  BY <1>3 DEF Holds
<1>6. HoldersPhase'
  <2>1. \A h \in Games : pcw'[h] \in {"slot", "count", "even"} => writer'[h] # 0
    BY <1>2, <1>3 DEF SegInv, HoldersPhase
  <2>2. ASSUME NEW h \in Games, NEW x \in Segs, Holds(h, x)', h # g
        PROVE  /\ pcw'[h] \in {"idle", "header"} <=> seg'[x].seq % 2 = 0
               /\ pcw'[h] = "even" => seg'[x].count = frames'[x]
    BY <1>2, <1>4, <2>2 DEF SegInv, HoldersPhase, Same
  <2>3. ASSUME NEW x \in Segs, Holds(g, x)'
        PROVE  /\ pcw'[g] \in {"idle", "header"} <=> seg'[x].seq % 2 = 0
               /\ pcw'[g] = "even" => seg'[x].count = frames'[x]
    BY <1>3, <1>5, <2>3
  <2> QED  BY <2>1, <2>2, <2>3 DEF HoldersPhase
<1>7. Whole'
  BY DEF SegInv, Whole, Same
<1> QED  BY <1>1, <1>6, <1>7 DEF SegInv

LEMMA WriterIsSeg ==
  ASSUME NameInv, NEW g \in Games, writer[g] # 0
  PROVE  writer[g] \in Segs
BY ConstantsOK DEF NameInv, Types, Segs

\* The clock: only ages.
LEMMA OlderType ==
  ASSUME NEW a \in Int  PROVE Older(a) \in Int
BY DEF Older

LEMMA TickSeg ==
  ASSUME NameInv, SegInv, Tick  PROVE SegInv' /\ \A s \in Segs : Same(s)
<1>1. /\ last' = [g \in Games |-> Older(last[g])]
      /\ seg' = [s \in Segs |-> [seg[s] EXCEPT !.last = Older(@)]]
      /\ UNCHANGED <<writer, pcw, frames, nseg, name>>
  BY DEF Tick
<1>2. ASSUME NEW s \in Segs  PROVE seg'[s] \in Segment /\ Same(s)
  <2>1. seg[s] \in Segment /\ seg'[s] = [seg[s] EXCEPT !.last = Older(seg[s].last)]
    BY <1>1 DEF SegInv, SegTypes
  <2>2. Older(seg[s].last) \in Int
    BY <2>1, OlderType DEF Segment
  <2> QED  BY <1>1, <2>1, <2>2 DEF Segment, Same
<1>3. SegTypes'
  BY <1>1, <1>2, OlderType DEF SegInv, SegTypes
<1>4. NamesDiffer'
  BY <1>1, <1>2 DEF SegInv, NamesDiffer, Same
<1>5. \A g \in Games, s \in Segs : Holds(g, s)' => Holds(g, s) /\ pcw[g] = pcw'[g]
  BY <1>1 DEF Holds
<1>6. \A g \in Games : pcw'[g] \in {"slot", "count", "even"} => writer'[g] # 0
  BY <1>1 DEF SegInv, HoldersPhase
<1> QED  BY <1>2, <1>3, <1>4, <1>5, <1>6, SegKept

\* A process that starts or dies: the segments stay as they are.
LEMMA ProcessSeg ==
  ASSUME NameInv, SegInv, NEW g \in Games, Start(g) \/ Die(g)
  PROVE  SegInv' /\ \A s \in Segs : Same(s)
<1>1. UNCHANGED <<seg, frames, nseg, name>> /\ \A s \in Segs : Same(s)
  BY DEF Start, Die, Same
<1>2. SegTypes' /\ NamesDiffer'
  <2>1. last' \in [Games -> Int]
    BY DEF Start, Die, SegInv, SegTypes, None
  <2> QED  BY <1>1, <2>1 DEF SegInv, SegTypes, NamesDiffer
<1>3. \A h \in Games, s \in Segs : Holds(h, s)' => Holds(h, s) /\ pcw[h] = pcw'[h]
  BY <1>1 DEF Start, Die, Holds, NameInv, Types, Segs
<1>4. \A h \in Games : pcw'[h] \in {"slot", "count", "even"} => writer'[h] # 0
  BY DEF Start, Die, NameInv, Types, SegInv, HoldersPhase
<1> QED  BY <1>1, <1>2, <1>3, <1>4, SegKept

\* A new segment is nobody's and untouched.
LEMMA CreateSeg ==
  ASSUME NameInv, SegInv, NEW g \in Games, NEW i \in Instances, CreateInstance(g, i)
  PROVE  SegInv' /\ \A s \in Segs : Same(s)
<1> USE PidIn
<1>1. UNCHANGED <<seg, frames, writer, last>> /\ \A s \in Segs : Same(s)
  BY DEF CreateInstance, Same
<1>2. SegTypes'
  BY <1>1 DEF SegInv, SegTypes
<1>3. CASE name[Pid[g]] # 0
  <2>1. UNCHANGED <<nseg, name, pcw>>
    BY <1>3 DEF CreateInstance
  <2>2. NamesDiffer'
    BY <1>1, <2>1 DEF SegInv, NamesDiffer
  <2>3. \A h \in Games, s \in Segs : Holds(h, s)' => Holds(h, s) /\ pcw[h] = pcw'[h]
    BY <1>1, <2>1 DEF Holds
  <2>4. \A h \in Games : pcw'[h] \in {"slot", "count", "even"} => writer'[h] # 0
    BY <1>1, <2>1 DEF SegInv, HoldersPhase
  <2> QED  BY <1>1, <1>2, <2>2, <2>3, <2>4, SegKept
<1>4. CASE name[Pid[g]] = 0
  <2>1. /\ nseg' = nseg + 1 /\ name' = [name EXCEPT ![Pid[g]] = nseg + 1]
        /\ pcw' = [pcw EXCEPT ![g] = "header"] /\ nseg < MaxSegs /\ pcw[g] = "idle"
    BY <1>4 DEF CreateInstance, Idle
  <2>2. /\ nseg \in Nat /\ MaxSegs \in Nat /\ nseg + 1 \in Segs /\ nseg + 1 # 0
        /\ name \in [Pids -> 0..MaxSegs] /\ pcw \in [Games -> {"idle", "header", "slot", "count", "even"}]
    BY <2>1, ConstantsOK DEF NameInv, Types, Segs
  <2>3. NamesDiffer'
    BY <1>1, <2>1, <2>2 DEF SegInv, NamesDiffer, Segs
  <2>4. seg[nseg + 1].seq = 0 /\ writer[g] = 0
    BY <1>4, <2>2 DEF SegInv, NamesDiffer, NameInv, WriterHasItsName
  <2>5. \A h \in Games : h # g => pcw'[h] = pcw[h]
    BY <2>1, <2>2
  <2>6. ASSUME NEW h \in Games, NEW s \in Segs, Holds(h, s)', h # g  PROVE Holds(h, s)
    <3>1. CASE writer'[h] = s
      BY <1>1, <3>1 DEF Holds
    <3>2. CASE pcw'[h] = "header" /\ name'[Pid[h]] = s
      <4>1. pcw[h] = "header" /\ Pid[h] # Pid[g]
        BY <1>4, <2>5, <2>6, <3>2 DEF NameInv, CreatorsHaveNames
      <4> QED  BY <2>1, <2>2, <3>2, <4>1 DEF Holds
    <3> QED  BY <2>6, <3>1, <3>2 DEF Holds
  <2>7. \A s \in Segs : Holds(g, s)' => s = nseg + 1
    BY <1>1, <2>1, <2>2, <2>4 DEF Holds, Segs
  <2>8. HoldersPhase'
    <3>1. \A h \in Games : pcw'[h] \in {"slot", "count", "even"} => writer'[h] # 0
      BY <1>1, <2>1, <2>2 DEF SegInv, HoldersPhase
    <3>2. ASSUME NEW h \in Games, NEW s \in Segs, Holds(h, s)'
          PROVE  /\ pcw'[h] \in {"idle", "header"} <=> seg'[s].seq % 2 = 0
                 /\ pcw'[h] = "even" => seg'[s].count = frames'[s]
      <4>1. CASE h # g
        BY <1>1, <2>5, <2>6, <3>2, <4>1 DEF SegInv, HoldersPhase
      <4>2. CASE h = g
        BY <1>1, <2>1, <2>2, <2>4, <2>7, <3>2, <4>2
      <4> QED  BY <4>1, <4>2
    <3> QED  BY <3>1, <3>2 DEF HoldersPhase
  <2>9. Whole'
    BY <1>1 DEF SegInv, Whole
  <2> QED  BY <1>1, <1>2, <2>3, <2>8, <2>9 DEF SegInv
<1> QED  BY <1>1, <1>3, <1>4

\* The header is written by the holder, who has not begun an interval.
LEMMA HeaderSeg ==
  ASSUME NameInv, SegInv, NEW g \in Games, WriteHeader(g)
  PROVE  SegInv' /\ \A s \in Segs : Same(s)
<1> USE PidIn
<1> DEFINE s == name[Pid[g]]
<1>1. /\ pcw[g] = "header" /\ seg' = [seg EXCEPT ![s].valid = TRUE]
      /\ writer' = [writer EXCEPT ![g] = s] /\ last' = [last EXCEPT ![g] = None]
      /\ pcw' = [pcw EXCEPT ![g] = "idle"] /\ UNCHANGED <<frames, nseg, name>>
  BY DEF WriteHeader
<1>2. s \in Segs
  BY <1>1, ConstantsOK DEF NameInv, Types, CreatorsHaveNames, Segs
<1>3. seg[s] \in Segment
  BY <1>2 DEF SegInv, SegTypes
<1>4. [seg[s] EXCEPT !.valid = TRUE] \in Segment
  BY <1>3 DEF Segment
<1> HIDE DEF s
<1>5. seg' \in [Segs -> Segment]
  BY <1>1, <1>2, <1>4 DEF SegInv, SegTypes
<1>6. \A x \in Segs : Same(x)
  <2>1. seg'[s] = [seg[s] EXCEPT !.valid = TRUE]
    BY <1>1, <1>2 DEF SegInv, SegTypes
  <2>2. \A x \in Segs : x # s => seg'[x] = seg[x]
    BY <1>1, <1>2 DEF SegInv, SegTypes
  <2>3. Same(s)
    BY <1>1, <1>3, <2>1 DEF Same, Segment
  <2> QED  BY <1>1, <2>2, <2>3 DEF Same
<1>7. SegTypes'
  BY <1>1, <1>5 DEF SegInv, SegTypes, None
<1>8. NamesDiffer'
  BY <1>1, <1>6 DEF SegInv, NamesDiffer, Same
<1>9. \A h \in Games, x \in Segs : Holds(h, x)' =>
        /\ Holds(h, x)
        /\ pcw[h] = pcw'[h] \/ (pcw[h] = "header" /\ pcw'[h] = "idle")
  BY <1>1 DEF Holds, NameInv, Types, s
<1>10. \A h \in Games : pcw'[h] \in {"slot", "count", "even"} => writer'[h] # 0
  BY <1>1 DEF SegInv, HoldersPhase, NameInv, Types
<1> QED  BY <1>6, <1>7, <1>8, <1>9, <1>10, SegKept

LEMMA DestroySeg ==
  ASSUME NameInv, SegInv, NEW g \in Games, NEW i \in Instances, DestroyInstance(g, i)
  PROVE  SegInv' /\ \A s \in Segs : Same(s)
<1> USE PidIn
<1>1. /\ UNCHANGED <<seg, frames, pcw, nseg>> /\ pcw[g] = "idle" /\ proc[g] = "running"
      /\ writer' = [writer EXCEPT ![g] = 0] /\ last' = [last EXCEPT ![g] = None]
      /\ name' = IF writer[g] = 0 THEN name ELSE [name EXCEPT ![Pid[g]] = 0]
  BY DEF DestroyInstance, Idle
<1>2. \A s \in Segs : Same(s)
  BY <1>1 DEF Same
<1>3. SegTypes'
  BY <1>1 DEF SegInv, SegTypes, None
<1>4. name \in [Pids -> 0..MaxSegs] /\ nseg \in Nat /\ writer \in [Games -> 0..MaxSegs]
  BY ConstantsOK DEF NameInv, Types
<1>5. NamesDiffer'
  BY <1>1, <1>4 DEF SegInv, NamesDiffer
<1>6. \A h \in Games, s \in Segs : Holds(h, s)' => Holds(h, s) /\ pcw[h] = pcw'[h]
  BY <1>1, <1>4 DEF Holds, Segs
<1>7. \A h \in Games : pcw'[h] \in {"slot", "count", "even"} => writer'[h] # 0
  BY <1>1, <1>4 DEF SegInv, HoldersPhase
<1> QED  BY <1>2, <1>3, <1>5, <1>6, <1>7, SegKept

\* One segment changes.
LEMMA OneSegment ==
  ASSUME SegInv, NEW s \in Segs, NEW r \in Segment, seg' = [seg EXCEPT ![s] = r]
  PROVE  /\ seg' \in [Segs -> Segment] /\ seg'[s] = r
         /\ \A x \in Segs \ {s} : seg'[x] = seg[x]
BY DEF SegInv, SegTypes

\* A new cadence, or a present that is no interval: ages alone.
LEMMA CadenceSeg ==
  ASSUME NameInv, SegInv, NEW g \in Games, CreateSwapchain(g) \/ PresentWithoutInterval(g)
  PROVE  SegInv' /\ \A s \in Segs : Same(s)
<1>1. UNCHANGED <<writer, pcw, frames, nseg, name>> /\ last' \in [Games -> Int]
  BY DEF CreateSwapchain, PresentWithoutInterval, SegInv, SegTypes, None
<1>2. seg' \in [Segs -> Segment] /\ \A s \in Segs : Same(s)
  <2>1. CASE CreateSwapchain(g)
    BY <2>1 DEF CreateSwapchain, SegInv, SegTypes, Same
  <2>2. CASE PresentWithoutInterval(g)
    <3> DEFINE s == writer[g]
               r == [seg[s] EXCEPT !.last = 0]
    <3>1. s \in Segs
      BY <2>2, WriterIsSeg DEF PresentWithoutInterval
    <3>2. seg[s] \in Segment
      BY <3>1 DEF SegInv, SegTypes
    <3>3. r \in Segment /\ r.seq = seg[s].seq /\ r.count = seg[s].count /\ r.ring = seg[s].ring
      BY <3>2 DEF Segment
    <3>4. seg' = [seg EXCEPT ![s] = r] /\ frames' = frames
      BY <2>2 DEF PresentWithoutInterval
    <3>5. /\ seg' \in [Segs -> Segment] /\ seg'[s] = r
          /\ \A x \in Segs \ {s} : seg'[x] = seg[x]
      <4> HIDE DEF r, s
      <4> QED  BY <3>1, <3>3, <3>4, OneSegment
    <3>6. ASSUME NEW x \in Segs  PROVE Same(x)
      <4>1. CASE x = s
        BY <3>3, <3>4, <3>5, <4>1 DEF Same
      <4>2. CASE x # s
        BY <3>4, <3>5, <4>2 DEF Same
      <4> QED  BY <4>1, <4>2
    <3> QED  BY <3>5, <3>6
  <2> QED  BY <2>1, <2>2
<1>3. SegTypes'
  BY <1>1, <1>2 DEF SegInv, SegTypes
<1>4. NamesDiffer'
  BY <1>1, <1>2 DEF SegInv, NamesDiffer, Same
<1>5. \A h \in Games, s \in Segs : Holds(h, s)' => Holds(h, s) /\ pcw[h] = pcw'[h]
  BY <1>1 DEF Holds
<1>6. \A h \in Games : pcw'[h] \in {"slot", "count", "even"} => writer'[h] # 0
  BY <1>1 DEF SegInv, HoldersPhase
<1> QED  BY <1>2, <1>3, <1>4, <1>5, <1>6, SegKept

\* What a step of an interval finds.
LEMMA Recording ==
  ASSUME NameInv, SegInv, NEW g \in Games, writer[g] # 0, pcw[g] # "header"
  PROVE  /\ writer[g] \in Segs /\ seg[writer[g]] \in Segment /\ frames[writer[g]] \in Nat
         /\ pcw[g] = "idle" <=> seg[writer[g]].seq % 2 = 0
         /\ pcw[g] \in {"idle", "even"} => seg[writer[g]].count = frames[writer[g]]
         /\ Laps(seg[writer[g]].ring, frames[writer[g]])
<1>1. writer[g] \in Segs
  BY WriterIsSeg
<1>2. Holds(g, writer[g])
  BY DEF Holds
<1>3. pcw[g] = "idle" <=> seg[writer[g]].seq % 2 = 0
  BY <1>1, <1>2 DEF SegInv, HoldersPhase
<1>4. pcw[g] \in {"idle", "even"} => seg[writer[g]].count = frames[writer[g]]
  BY <1>1, <1>2, <1>3 DEF SegInv, HoldersPhase, Whole
<1> QED  BY <1>1, <1>3, <1>4 DEF SegInv, SegTypes, Whole

\* The effect of a step of an interval on the segment: what the copy relies on.
Recorded(s) ==
  /\ frames[s] <= frames'[s] /\ seg[s].seq <= seg'[s].seq
  /\ seg'[s].seq = seg[s].seq /\ seg[s].seq % 2 = 0 => Same(s)

LEMMA BeginSeg ==
  ASSUME NameInv, SegInv, NEW g \in Games, BeginRecord(g)
  PROVE  SegInv' /\ \A x \in Segs : Recorded(x)
<1> DEFINE s == writer[g]
           r == [seg[s] EXCEPT !.seq = seg[s].seq + 1]
<1>1. /\ s # 0 /\ pcw[g] = "idle" /\ pcw' = [pcw EXCEPT ![g] = "slot"]
      /\ UNCHANGED <<writer, nseg, name, frames>> /\ last' \in [Games -> Int]
      /\ seg' = [seg EXCEPT ![s] = r]
  BY DEF BeginRecord, Idle, SegInv, SegTypes
<1>2. /\ s \in Segs /\ seg[s] \in Segment /\ frames[s] \in Nat
      /\ seg[s].seq % 2 = 0 /\ Laps(seg[s].ring, frames[s])
  BY <1>1, Recording
<1>3. /\ r \in Segment /\ r.seq = seg[s].seq + 1 /\ r.ring = seg[s].ring
      /\ seg[s].seq \in Nat /\ r.seq % 2 # 0
  <2>1. /\ r \in Segment /\ r.seq = seg[s].seq + 1 /\ r.ring = seg[s].ring
        /\ seg[s].seq \in Nat
    BY <1>2 DEF Segment
  <2> QED  BY <1>2, <2>1, Parity
<1> HIDE DEF r, s
<1>4. seg' \in [Segs -> Segment] /\ seg'[s] = r /\ \A x \in Segs \ {s} : seg'[x] = seg[x] /\ Same(x)
  BY <1>1, <1>2, <1>3, OneSegment DEF Same
<1>5. SegTypes'
  BY <1>1, <1>4 DEF SegInv, SegTypes
<1>6. SegInv'
  <2>1. Laps(seg'[s].ring, frames'[s])
    BY <1>1, <1>2, <1>3, <1>4
  <2> QED  BY <1>1, <1>2, <1>3, <1>4, <1>5, <2>1, SegRecorded DEF s
<1>7. ASSUME NEW x \in Segs  PROVE Recorded(x)
  <2>1. seg[x] \in Segment /\ frames[x] \in Nat
    BY DEF SegInv, SegTypes
  <2> QED  BY <1>1, <1>3, <1>4, <2>1 DEF Recorded, Same, Segment
<1> QED  BY <1>6, <1>7

LEMMA SlotSeg ==
  ASSUME NameInv, SegInv, NEW g \in Games, WriteSlot(g)
  PROVE  /\ SegInv' /\ \A x \in Segs : Recorded(x)
         /\ writer[g] \in Segs /\ frames' = [frames EXCEPT ![writer[g]] = @ + 1]
<1> DEFINE s == writer[g]
           ring == [seg[s].ring EXCEPT ![frames[s] % Cap] = frames[s] + 1]
           r == [seg[s] EXCEPT !.ring = ring]
<1>1. /\ pcw[g] = "slot" /\ pcw' = [pcw EXCEPT ![g] = "count"]
      /\ UNCHANGED <<writer, nseg, name, last>>
      /\ seg' = [seg EXCEPT ![s] = r] /\ frames' = [frames EXCEPT ![s] = @ + 1]
  BY DEF WriteSlot
<1>2. s # 0
  BY <1>1 DEF SegInv, HoldersPhase
<1>3. /\ s \in Segs /\ seg[s] \in Segment /\ frames[s] \in Nat
      /\ seg[s].seq % 2 # 0 /\ Laps(seg[s].ring, frames[s])
  BY <1>1, <1>2, Recording
<1>4. seg[s].ring \in [0..Cap-1 -> Nat]
  BY <1>3 DEF Segment
<1>5. ring \in [0..Cap-1 -> Nat] /\ Laps(ring, frames[s] + 1)
  BY <1>3, <1>4, NextLap
<1> HIDE DEF ring
<1>6. r \in Segment /\ r.seq = seg[s].seq /\ r.ring = ring
  BY <1>3, <1>5 DEF Segment
<1> HIDE DEF r, s
<1>7. /\ seg' \in [Segs -> Segment] /\ seg'[s] = r
      /\ \A x \in Segs \ {s} : seg'[x] = seg[x]
  BY <1>1, <1>3, <1>6, OneSegment
<1>8. /\ frames' \in [Segs -> Nat] /\ frames'[s] = frames[s] + 1
      /\ \A x \in Segs \ {s} : frames'[x] = frames[x]
  BY <1>1, <1>3 DEF SegInv, SegTypes
<1>9. SegTypes' /\ \A x \in Segs \ {s} : Same(x)
  BY <1>1, <1>7, <1>8 DEF SegInv, SegTypes, Same
<1>10. SegInv'
  <2>1. Laps(seg'[s].ring, frames'[s])
    BY <1>5, <1>6, <1>7, <1>8
  <2>2. seg'[s].seq % 2 # 0 /\ pcw[g] # "header"
    BY <1>1, <1>3, <1>6, <1>7
  <2>3. s = writer[g]
    BY DEF s
  <2> QED  BY <1>1, <1>3, <1>9, <2>1, <2>2, <2>3, SegRecorded
<1>11. ASSUME NEW x \in Segs  PROVE Recorded(x)
  <2>1. seg[x] \in Segment /\ frames[x] \in Nat
    BY DEF SegInv, SegTypes
  <2>2. CASE x = s
    BY <1>3, <1>6, <1>7, <1>8, <2>1, <2>2 DEF Recorded, Segment
  <2>3. CASE x # s
    BY <1>7, <1>8, <1>9, <2>1, <2>3 DEF Recorded, Segment
  <2> QED  BY <2>2, <2>3
<1> QED  BY <1>1, <1>3, <1>10, <1>11 DEF s

LEMMA CountSeg ==
  ASSUME NameInv, SegInv, NEW g \in Games, WriteCount(g)
  PROVE  SegInv' /\ \A x \in Segs : Recorded(x)
<1> DEFINE s == writer[g]
           r == [seg[s] EXCEPT !.last = last[g], !.count = frames[s]]
<1>1. /\ pcw[g] = "count" /\ pcw' = [pcw EXCEPT ![g] = "even"]
      /\ UNCHANGED <<writer, nseg, name, last, frames>>
      /\ seg' = [seg EXCEPT ![s] = r]
  BY DEF WriteCount
<1>2. s # 0
  BY <1>1 DEF SegInv, HoldersPhase
<1>3. /\ s \in Segs /\ seg[s] \in Segment /\ frames[s] \in Nat
      /\ seg[s].seq % 2 # 0 /\ Laps(seg[s].ring, frames[s])
  BY <1>1, <1>2, Recording
<1>4. /\ r \in Segment /\ r.seq = seg[s].seq /\ r.ring = seg[s].ring
      /\ r.count = frames[s]
  <2>1. last[g] \in Int
    BY DEF SegInv, SegTypes
  <2> QED  BY <1>3, <2>1 DEF Segment
<1> HIDE DEF r, s
<1>5. /\ seg' \in [Segs -> Segment] /\ seg'[s] = r
      /\ \A x \in Segs \ {s} : seg'[x] = seg[x] /\ Same(x)
  BY <1>1, <1>3, <1>4, OneSegment DEF Same
<1>6. SegTypes'
  BY <1>1, <1>5 DEF SegInv, SegTypes
<1>7. SegInv'
  <2>1. Laps(seg'[s].ring, frames'[s]) /\ seg'[s].count = frames'[s]
    BY <1>1, <1>3, <1>4, <1>5
  <2>2. seg'[s].seq % 2 # 0 /\ pcw[g] # "header"
    BY <1>1, <1>3, <1>4, <1>5
  <2>3. s = writer[g]
    BY DEF s
  <2> QED  BY <1>1, <1>3, <1>5, <1>6, <2>1, <2>2, <2>3, SegRecorded
<1>8. ASSUME NEW x \in Segs  PROVE Recorded(x)
  <2>1. seg[x] \in Segment /\ frames[x] \in Nat
    BY DEF SegInv, SegTypes
  <2> QED  BY <1>1, <1>3, <1>4, <1>5, <2>1 DEF Recorded, Same, Segment
<1> QED  BY <1>7, <1>8

LEMMA EndSeg ==
  ASSUME NameInv, SegInv, NEW g \in Games, EndRecord(g)
  PROVE  SegInv' /\ \A x \in Segs : Recorded(x)
<1> DEFINE s == writer[g]
           r == [seg[s] EXCEPT !.seq = seg[s].seq + 1]
<1>1. /\ pcw[g] = "even" /\ pcw' = [pcw EXCEPT ![g] = "idle"]
      /\ UNCHANGED <<writer, nseg, name, last, frames>>
      /\ seg' = [seg EXCEPT ![s] = r]
  BY DEF EndRecord
<1>2. s # 0
  BY <1>1 DEF SegInv, HoldersPhase
<1>3. /\ s \in Segs /\ seg[s] \in Segment /\ frames[s] \in Nat
      /\ seg[s].seq % 2 # 0 /\ Laps(seg[s].ring, frames[s]) /\ seg[s].count = frames[s]
  BY <1>1, <1>2, Recording
<1>4. /\ r \in Segment /\ r.seq = seg[s].seq + 1 /\ r.ring = seg[s].ring
      /\ r.count = seg[s].count /\ seg[s].seq \in Nat /\ r.seq % 2 = 0
  <2>1. /\ r \in Segment /\ r.seq = seg[s].seq + 1 /\ r.ring = seg[s].ring
        /\ r.count = seg[s].count /\ seg[s].seq \in Nat
    BY <1>3 DEF Segment
  <2> QED  BY <1>3, <2>1, Parity
<1> HIDE DEF r, s
<1>5. /\ seg' \in [Segs -> Segment] /\ seg'[s] = r
      /\ \A x \in Segs \ {s} : seg'[x] = seg[x] /\ Same(x)
  BY <1>1, <1>3, <1>4, OneSegment DEF Same
<1>6. SegTypes'
  BY <1>1, <1>5 DEF SegInv, SegTypes
<1>7. SegInv'
  <2>1. Laps(seg'[s].ring, frames'[s]) /\ seg'[s].count = frames'[s]
    BY <1>1, <1>3, <1>4, <1>5
  <2> QED  BY <1>1, <1>3, <1>4, <1>5, <1>6, <2>1, SegRecorded DEF s
<1>8. ASSUME NEW x \in Segs  PROVE Recorded(x)
  <2>1. seg[x] \in Segment /\ frames[x] \in Nat
    BY DEF SegInv, SegTypes
  <2> QED  BY <1>1, <1>4, <1>5, <2>1 DEF Recorded, Same, Segment
<1> QED  BY <1>7, <1>8

LEMMA SameRecorded ==
  ASSUME SegInv, \A s \in Segs : Same(s)  PROVE \A s \in Segs : Recorded(s)
<1> SUFFICES ASSUME NEW s \in Segs  PROVE Recorded(s)
  OBVIOUS
<1>1. seg[s] \in Segment /\ frames[s] \in Nat
  BY DEF SegInv, SegTypes
<1> QED  BY <1>1 DEF Recorded, Same, Segment

LEMMA GameSeg ==
  ASSUME NameInv, SegInv, NEW g \in Games, GameStep(g)
  PROVE  /\ SegInv' /\ \A s \in Segs : Recorded(s)
         /\ \/ frames' = frames
            \/ \E s \in Segs : frames' = [frames EXCEPT ![s] = @ + 1]
<1>1. CASE \/ Start(g) \/ Die(g) \/ WriteHeader(g) \/ CreateSwapchain(g) \/ PresentWithoutInterval(g)
           \/ \E i \in Instances : CreateInstance(g, i) \/ DestroyInstance(g, i)
  <2>1. SegInv' /\ \A s \in Segs : Same(s)
    BY <1>1, ProcessSeg, HeaderSeg, CadenceSeg, CreateSeg, DestroySeg
  <2>2. frames' = frames
    BY <1>1 DEF Start, Die, WriteHeader, CreateSwapchain, PresentWithoutInterval,
                CreateInstance, DestroyInstance
  <2> QED  BY <2>1, <2>2, SameRecorded
<1>2. CASE BeginRecord(g)
  BY <1>2, BeginSeg DEF BeginRecord
<1>3. CASE WriteSlot(g)
  BY <1>3, SlotSeg
<1>4. CASE WriteCount(g)
  BY <1>4, CountSeg DEF WriteCount
<1>5. CASE EndRecord(g)
  BY <1>5, EndSeg DEF EndRecord
<1> QED  BY <1>1, <1>2, <1>3, <1>4, <1>5 DEF GameStep

LEMMA GamesKept ==
  ASSUME SegInv, UNCHANGED games  PROVE SegInv'
<1>1. \A s \in Segs : Same(s)
  BY DEF games, Same
<1>2. SegTypes' /\ NamesDiffer'
  BY DEF games, SegInv, SegTypes, NamesDiffer
<1>3. \A g \in Games, s \in Segs : Holds(g, s)' => Holds(g, s) /\ pcw[g] = pcw'[g]
  BY DEF games, Holds
<1>4. \A g \in Games : pcw'[g] \in {"slot", "count", "even"} => writer'[g] # 0
  BY DEF games, SegInv, HoldersPhase
<1> QED  BY <1>1, <1>2, <1>3, <1>4, SegKept

-----------------------------------------------------------------------------
(* The reader.                                                              *)

ReadTypes ==
  /\ floor \in [Segs -> Nat] /\ \A s \in Segs : floor[s] <= frames[s]
  /\ \A f \in found : f.seg \in Segs
  /\ first \in [seq : Nat, count : Nat] /\ got \in Seq(Nat)
  /\ pcr \in {"seq", "count", "ring"} => cur \in Segs

\* What has been copied is worth something while the sequence is the one the copy began with.
Copying ==
  /\ pcr # "ring" => got = <<>>
  /\ pcr \in {"count", "ring"} => first.seq % 2 = 0 /\ first.seq <= seg[cur].seq
  /\ pcr = "ring" => Len(got) <= Wanted
  /\ pcr = "ring" /\ seg[cur].seq = first.seq =>
       /\ first.count = seg[cur].count
       /\ \A i \in 1..Len(got) : got[i] = first.count - Wanted + i

ReadInv == ReadTypes /\ Copying

LEMMA ReadInit == Init => ReadInv
<1> SUFFICES ASSUME Init  PROVE ReadInv
  OBVIOUS
<1>1. ReadTypes
  BY DEF Init, ReadTypes
<1>2. Copying
  BY DEF Init, Copying
<1> QED  BY <1>1, <1>2 DEF ReadInv

\* Whatever the games do, a copy that is still worth something stays so.
LEMMA CopyKept ==
  ASSUME SegInv, SegInv', ReadInv, \A s \in Segs : Recorded(s),
         UNCHANGED <<pcr, scan, read>>
  PROVE  ReadInv'
<1>1. ReadTypes'
  <2>1. ASSUME NEW s \in Segs  PROVE floor[s] <= frames'[s]
    BY DEF ReadInv, ReadTypes, Recorded, SegInv, SegTypes
  <2> QED  BY <2>1 DEF ReadInv, ReadTypes, scan, read
<1>2. ASSUME pcr \notin {"count", "ring"}  PROVE Copying'
  BY <1>2 DEF ReadInv, Copying, read
<1>3. ASSUME pcr \in {"count", "ring"}  PROVE Copying'
  <2>1. /\ cur \in Segs /\ seg[cur] \in Segment /\ seg'[cur] \in Segment
        /\ first \in [seq : Nat, count : Nat]
    BY <1>3 DEF ReadInv, ReadTypes, SegInv, SegTypes
  <2>2. /\ first.seq % 2 = 0 /\ first.seq <= seg[cur].seq /\ seg[cur].seq <= seg'[cur].seq
        /\ first.seq \in Nat /\ seg[cur].seq \in Nat /\ seg'[cur].seq \in Nat
    BY <1>3, <2>1 DEF ReadInv, Copying, Recorded, Segment
  <2>3. first.seq <= seg'[cur].seq
    BY <2>2
  <2>4. CASE seg'[cur].seq = first.seq
    <3>1. seg[cur].seq = first.seq
      BY <2>2, <2>4
    <3>2. seg'[cur].count = seg[cur].count
      BY <2>1, <2>2, <2>4, <3>1 DEF Recorded, Same
    <3> QED  BY <2>2, <2>3, <2>4, <3>1, <3>2 DEF ReadInv, Copying, read, Wanted
  <2>5. CASE seg'[cur].seq # first.seq
    BY <2>2, <2>3, <2>5 DEF ReadInv, Copying, read, Wanted
  <2> QED  BY <2>4, <2>5
<1> QED  BY <1>1, <1>2, <1>3 DEF ReadInv

\* A step of the reader keeps its invariant and is a step of the history, or none.
Simulated == ReadInv' /\ [History!Next]_History!vars

LEMMA PublishRead ==
  ASSUME SegInv, NEW x, NEW age, Publish(x, age)
  PROVE  ReadInv'
<1>1. UNCHANGED <<frames, seg>>
  BY DEF Publish, games
<1>2. ReadTypes'
  BY <1>1 DEF Publish, ReadTypes, SegInv, SegTypes
<1>3. Copying'
  BY DEF Publish, Copying
<1> QED  BY <1>2, <1>3 DEF ReadInv

LEMMA ClearRead ==
  ASSUME SegInv, NEW age, Publish(Nothing, age)  PROVE Simulated
<1>1. ReadInv'
  BY PublishRead
<1>2. History!Clear
  BY DEF Publish, History!Clear, History!Nothing, History!Zero, Nothing, games
<1> QED  BY <1>1, <1>2 DEF Simulated, History!Next

\* Neither the histories, nor where the poll began, nor what is shown.
LEMMA Stutters ==
  ASSUME UNCHANGED <<frames, floor, shown>>  PROVE [History!Next]_History!vars
BY DEF History!vars

LEMMA BeginPollRead ==
  ASSUME NameInv, SegInv, ReadInv, BeginPoll  PROVE Simulated
<1>1. UNCHANGED <<frames, seg>>
  BY DEF BeginPoll, games
<1>2. ReadTypes'
  BY <1>1 DEF BeginPoll, read, ReadInv, ReadTypes, SegInv, SegTypes
<1>3. Copying'
  BY DEF BeginPoll, read, ReadInv, Copying
<1>4. History!BeginPoll
  BY <1>1 DEF BeginPoll, History!BeginPoll
<1> QED  BY <1>2, <1>3, <1>4 DEF Simulated, ReadInv, History!Next

LEMMA OpenRead ==
  ASSUME NameInv, SegInv, ReadInv, NEW p \in Pids, Open(p)  PROVE Simulated
<1>1. UNCHANGED <<frames, seg, floor, shown, read, pcr>>
  BY DEF Open, games
<1>2. \A f \in found' : f.seg \in Segs
  <2>1. name[p] \in 0..MaxSegs
    BY DEF NameInv, Types
  <2>2. name[p] # 0 => name[p] \in Segs
    BY <2>1, ConstantsOK DEF Segs
  <2> QED  BY <2>2 DEF Open, ReadInv, ReadTypes
<1>3. ReadTypes'
  BY <1>1, <1>2 DEF read, ReadInv, ReadTypes
<1>4. Copying'
  BY <1>1 DEF read, ReadInv, Copying, Wanted
<1> QED  BY <1>1, <1>3, <1>4, Stutters DEF Simulated, ReadInv

LEMMA SelectRead ==
  ASSUME NameInv, SegInv, ReadInv, Select  PROVE Simulated
<1>1. CASE Publish(Nothing, 0)
  BY <1>1, ClearRead
<1>2. CASE /\ \E f \in Fresh : Best(f) /\ cur' = f.seg
           /\ pcr' = "seq" /\ pcr = "scan"
           /\ UNCHANGED <<games, scan, first, got, shown>>
  <2>1. cur' \in Segs
    BY <1>2 DEF Fresh, ReadInv, ReadTypes
  <2>2. ReadTypes'
    BY <1>2, <2>1 DEF scan, games, ReadInv, ReadTypes
  <2>3. Copying'
    BY <1>2 DEF ReadInv, Copying
  <2>4. UNCHANGED <<frames, floor, shown>>
    BY <1>2 DEF scan, games
  <2> QED  BY <2>2, <2>3, <2>4, Stutters DEF Simulated, ReadInv
<1> QED  BY <1>1, <1>2 DEF Select

LEMMA TryAgainRead ==
  ASSUME NameInv, SegInv, ReadInv, TryAgain, pcr \in {"seq", "ring"}  PROVE Simulated
<1>1. CASE Publish(Nothing, 0)
  BY <1>1, ClearRead
<1>2. CASE /\ pcr' = "seq" /\ got' = <<>>
           /\ UNCHANGED <<games, scan, cur, first, shown>>
  <2>1. cur' \in Segs /\ got' \in Seq(Nat)
    BY <1>2 DEF ReadInv, ReadTypes
  <2>2. ReadTypes'
    BY <1>2, <2>1 DEF scan, games, ReadInv, ReadTypes
  <2>3. Copying'
    BY <1>2 DEF ReadInv, Copying
  <2>4. UNCHANGED <<frames, floor, shown>>
    BY <1>2 DEF scan, games
  <2> QED  BY <2>2, <2>3, <2>4, Stutters DEF Simulated, ReadInv
<1> QED  BY <1>1, <1>2 DEF TryAgain

LEMMA ReadSeqRead ==
  ASSUME NameInv, SegInv, ReadInv, ReadSeq  PROVE Simulated
<1>1. CASE TryAgain
  BY <1>1, TryAgainRead DEF ReadSeq
<1>2. CASE /\ seg[cur].seq % 2 = 0 /\ pcr = "seq"
           /\ first' = [first EXCEPT !.seq = seg[cur].seq] /\ pcr' = "count"
           /\ UNCHANGED <<games, scan, cur, got, shown>>
  <2>1. /\ cur \in Segs /\ seg[cur] \in Segment /\ first \in [seq : Nat, count : Nat]
        /\ got = <<>>
    BY <1>2 DEF ReadInv, ReadTypes, Copying, SegInv, SegTypes
  <2>2. seg[cur].seq \in Nat
    BY <2>1 DEF Segment
  <2>3. first' \in [seq : Nat, count : Nat] /\ first'.seq = seg[cur].seq
    BY <1>2, <2>1, <2>2
  <2>4. ReadTypes'
    BY <1>2, <2>1, <2>3 DEF scan, games, ReadInv, ReadTypes
  <2>5. Copying'
    BY <1>2, <2>1, <2>2, <2>3 DEF games, Copying
  <2>6. UNCHANGED <<frames, floor, shown>>
    BY <1>2 DEF scan, games
  <2> QED  BY <2>4, <2>5, <2>6, Stutters DEF Simulated, ReadInv
<1> QED  BY <1>1, <1>2 DEF ReadSeq

LEMMA ReadCountRead ==
  ASSUME NameInv, SegInv, ReadInv, ReadCount  PROVE Simulated
<1>1. /\ pcr = "count" /\ first' = [first EXCEPT !.count = seg[cur].count] /\ pcr' = "ring"
      /\ UNCHANGED <<games, scan, cur, got, shown>>
  BY DEF ReadCount
<1>2. /\ cur \in Segs /\ seg[cur] \in Segment /\ first \in [seq : Nat, count : Nat]
      /\ got = <<>> /\ first.seq % 2 = 0 /\ first.seq <= seg[cur].seq
  BY <1>1 DEF ReadInv, ReadTypes, Copying, SegInv, SegTypes
<1>3. seg[cur].count \in Nat
  BY <1>2 DEF Segment
<1>4. /\ first' \in [seq : Nat, count : Nat] /\ first'.seq = first.seq
      /\ first'.count = seg[cur].count
  BY <1>1, <1>2, <1>3
<1>5. ReadTypes'
  BY <1>1, <1>2, <1>4 DEF scan, games, ReadInv, ReadTypes
<1>6. Wanted' \in Nat /\ Len(got') = 0
  BY <1>1, <1>2, <1>3, <1>4, ConstantsOK DEF Wanted
<1>7. Copying'
  BY <1>1, <1>2, <1>4, <1>6 DEF games, Copying
<1>8. UNCHANGED <<frames, floor, shown>>
  BY <1>1 DEF scan, games
<1> QED  BY <1>5, <1>7, <1>8, Stutters DEF Simulated, ReadInv

\* While the sequence is the first one, the segment is whole and has first.count intervals.
LEMMA FirstIsTrue ==
  ASSUME SegInv, ReadInv, pcr = "ring", seg[cur].seq = first.seq
  PROVE  /\ first.count = frames[cur] /\ Laps(seg[cur].ring, first.count)
         /\ floor[cur] <= first.count
<1>1. cur \in Segs /\ seg[cur].seq % 2 = 0 /\ first.count = seg[cur].count
  BY DEF ReadInv, ReadTypes, Copying
<1>2. first.count = frames[cur] /\ Laps(seg[cur].ring, frames[cur])
  BY <1>1 DEF SegInv, Whole
<1> QED  BY <1>1, <1>2 DEF ReadInv, ReadTypes

LEMMA SlotIndex ==
  ASSUME NEW c \in Nat, NEW w \in Nat, NEW l \in Nat, NEW k \in Nat, l < w, w <= k, w <= c
  PROVE  /\ c - w + l \in Nat /\ c - w + l < c /\ c <= (c - w + l) + k
         /\ (c - w + l) + 1 = c - w + (l + 1)
OBVIOUS

LEMMA ReadSlotRead ==
  ASSUME NameInv, SegInv, ReadInv, ReadSlot  PROVE Simulated
<1> DEFINE j == first.count - Wanted + Len(got)
<1>1. /\ pcr = "ring" /\ Len(got) < Wanted /\ got' = Append(got, seg[cur].ring[j % Cap])
      /\ UNCHANGED <<games, pcr, scan, cur, first, shown>>
  BY DEF ReadSlot
<1>2. /\ cur \in Segs /\ seg[cur] \in Segment /\ first \in [seq : Nat, count : Nat]
      /\ got \in Seq(Nat) /\ first.seq % 2 = 0 /\ first.seq <= seg[cur].seq
  BY <1>1 DEF ReadInv, ReadTypes, Copying, SegInv, SegTypes
<1>3. /\ Wanted \in Nat /\ Wanted <= Cap /\ Wanted <= first.count /\ first.count \in Nat
      /\ Cap \in Nat \ {0} /\ Len(got) \in Nat
  BY <1>2, ConstantsOK DEF Wanted
<1>4. /\ j \in Nat /\ j < first.count /\ first.count <= j + Cap
      /\ j + 1 = first.count - Wanted + (Len(got) + 1)
  <2>1. Len(got) < Wanted
    BY <1>1
  <2> QED  BY <1>3, <2>1, SlotIndex
<1>5. j % Cap \in 0..Cap-1
  BY <1>3, <1>4, Euclid
<1>6. seg[cur].ring[j % Cap] \in Nat
  BY <1>2, <1>5 DEF Segment
<1>7. /\ got' \in Seq(Nat) /\ Len(got') = Len(got) + 1
      /\ got'[Len(got) + 1] = seg[cur].ring[j % Cap]
      /\ \A i \in 1..Len(got) : got'[i] = got[i]
  BY <1>1, <1>2, <1>6
<1>8. ReadTypes'
  BY <1>1, <1>7 DEF scan, games, ReadInv, ReadTypes
<1>9. seg[cur].seq = first.seq =>
        /\ first.count = seg[cur].count
        /\ \A i \in 1..Len(got') : got'[i] = first.count - Wanted + i
  <2> SUFFICES ASSUME seg[cur].seq = first.seq
               PROVE  /\ first.count = seg[cur].count
                      /\ \A i \in 1..Len(got') : got'[i] = first.count - Wanted + i
    OBVIOUS
  <2>1. /\ first.count = seg[cur].count
        /\ \A i \in 1..Len(got) : got[i] = first.count - Wanted + i
    BY <1>1 DEF ReadInv, Copying
  <2>2. seg[cur].ring[j % Cap] = j + 1
    BY <1>1, <1>4, FirstIsTrue DEF Laps
  <2>3. got'[Len(got) + 1] = first.count - Wanted + (Len(got) + 1)
    BY <1>4, <1>7, <2>2
  <2>4. \A i \in 1..Len(got') : i \in 1..Len(got) \/ i = Len(got) + 1
    BY <1>3, <1>7
  <2> QED  BY <1>7, <2>1, <2>3, <2>4
<1> HIDE DEF j
<1>10. Wanted' = Wanted /\ Len(got') <= Wanted
  BY <1>1, <1>3, <1>7 DEF Wanted
<1>11. Copying'
  BY <1>1, <1>2, <1>9, <1>10 DEF games, Copying
<1>12. UNCHANGED <<frames, floor, shown>>
  BY <1>1 DEF scan, games
<1> QED  BY <1>8, <1>11, <1>12, Stutters DEF Simulated, ReadInv

\* The newest k intervals, oldest first.
LEMMA NewestIs ==
  ASSUME NEW k \in Nat, NEW w \in Nat, w = IF k < Cap THEN k ELSE Cap,
         NEW copy \in Seq(Nat), Len(copy) = w,
         \A i \in 1..Len(copy) : copy[i] = k - w + i
  PROVE  copy = History!Newest(k)
<1>1. copy = [i \in 1..w |-> copy[i]]
  OBVIOUS
<1>2. History!Newest(k) = [i \in 1..w |-> k - w + i]
  BY DEF History!Newest
<1>3. \A i \in 1..w : copy[i] = k - w + i
  OBVIOUS
<1> QED  BY <1>1, <1>2, <1>3

\* What is published is a history as it was at the second look.
LEMMA ReadAgainRead ==
  ASSUME NameInv, SegInv, ReadInv, ReadAgain  PROVE Simulated
<1>1. CASE seg[cur].seq # first.seq /\ TryAgain
  BY <1>1, TryAgainRead DEF ReadAgain
<1>2. CASE seg[cur].seq = first.seq /\ Publish([source |-> cur, frames |-> got], polled)
  <2>1. ReadInv'
    BY <1>2, PublishRead
  <2>2. /\ pcr = "ring" /\ Len(got) = Wanted /\ cur \in Segs
        /\ first \in [seq : Nat, count : Nat] /\ got \in Seq(Nat)
        /\ frames[cur] \in Nat /\ floor[cur] \in Nat
    BY DEF ReadAgain, ReadInv, ReadTypes, SegInv, SegTypes
  <2>3. first.count = frames[cur] /\ floor[cur] <= first.count /\ first.count \in Nat
    BY <1>2, <2>2, FirstIsTrue
  <2>4. \A i \in 1..Len(got) : got[i] = first.count - Wanted + i
    BY <1>2, <2>2 DEF ReadInv, Copying
  <2>5. Wanted \in Nat /\ Wanted = IF first.count < Cap THEN first.count ELSE Cap
    BY <2>3, ConstantsOK DEF Wanted
  <2>6. got = History!Newest(first.count)
    BY <2>2, <2>3, <2>4, <2>5, NewestIs
  <2>7. first.count \in floor[cur]..frames[cur]
    BY <2>2, <2>3
  <2>8. History!Publish(cur)
    BY <1>2, <2>6, <2>7 DEF Publish, games, History!Publish, History!Zero
  <2> QED  BY <2>1, <2>2, <2>8 DEF Simulated, History!Next
<1> QED  BY <1>1, <1>2 DEF ReadAgain

LEMMA ReaderSimulated ==
  ASSUME NameInv, SegInv, ReadInv, ReaderStep  PROVE Simulated
BY ClearRead, BeginPollRead, OpenRead, SelectRead, ReadSeqRead, ReadCountRead, ReadSlotRead,
   ReadAgainRead DEF ReaderStep, ClearWhileInactive

RingInv == NameInv /\ SegInv /\ ReadInv

LEMMA RingNext ==
  ASSUME RingInv, [Next]_vars
  PROVE  RingInv' /\ [History!Next]_History!vars
<1>1. NameInv'
  <2>1. CASE UNCHANGED vars
    BY <2>1, NameKept DEF RingInv, vars, games, named
  <2> QED  BY <2>1, GameName, ReaderKeepsNames DEF RingInv, Next
<1>2. ASSUME NEW g \in Games, GameStep(g)
      PROVE  SegInv' /\ ReadInv' /\ [History!Next]_History!vars
  <2>1. UNCHANGED reader
    BY <1>2 DEF GameStep, Start, Die, CreateInstance, WriteHeader, DestroyInstance, CreateSwapchain,
                PresentWithoutInterval, BeginRecord, WriteSlot, WriteCount, EndRecord
  <2>2. /\ SegInv' /\ \A s \in Segs : Recorded(s)
        /\ \/ frames' = frames
           \/ \E s \in Segs : frames' = [frames EXCEPT ![s] = @ + 1]
    BY <1>2, GameSeg DEF RingInv
  <2>3. ReadInv'
    BY <2>1, <2>2, CopyKept DEF RingInv, reader
  <2>4. UNCHANGED <<floor, shown>>
    BY <2>1 DEF reader, scan
  <2>5. CASE frames' = frames
    BY <2>2, <2>3, <2>4, <2>5, Stutters
  <2>6. ASSUME NEW s \in Segs, frames' = [frames EXCEPT ![s] = @ + 1]
        PROVE  [History!Next]_History!vars
    BY <2>4, <2>6 DEF History!Next, History!Record
  <2> QED  BY <2>2, <2>3, <2>5, <2>6
<1>3. CASE ReaderStep
  <2>1. Simulated
    BY <1>3, ReaderSimulated DEF RingInv
  <2>2. UNCHANGED games
    BY <1>3 DEF ReaderStep, ClearWhileInactive, BeginPoll, Open, Select, ReadSeq, ReadCount,
                ReadSlot, ReadAgain, TryAgain, Publish
  <2> QED  BY <1>1, <2>1, <2>2, GamesKept DEF Simulated, RingInv
<1>4. CASE Tick
  <2>1. SegInv' /\ \A s \in Segs : Recorded(s)
    BY <1>4, TickSeg, SameRecorded DEF RingInv
  <2>2. UNCHANGED <<frames, pcr, scan, read, shown>>
    BY <1>4 DEF Tick
  <2>3. ReadInv'
    BY <2>1, <2>2, CopyKept DEF RingInv
  <2> QED  BY <1>1, <2>1, <2>2, <2>3, Stutters DEF scan, RingInv
<1>5. CASE (\E b \in BOOLEAN : SetActive(b)) \/ UNCHANGED vars
  <2>1. UNCHANGED <<games, reader>>
    BY <1>5 DEF SetActive, vars
  <2>2. SegInv' /\ \A s \in Segs : Recorded(s)
    <3>1. \A s \in Segs : Same(s)
      BY <2>1 DEF games, Same
    <3> QED  BY <2>1, <3>1, GamesKept, SameRecorded DEF RingInv
  <2>3. ReadInv'
    BY <2>1, <2>2, CopyKept DEF RingInv, reader
  <2> QED  BY <1>1, <2>1, <2>2, <2>3, Stutters DEF games, reader, scan, RingInv
<1> QED  BY <1>1, <1>2, <1>3, <1>4, <1>5 DEF RingInv, Next

\* What the panel shows are the newest intervals of one game, as they were at one moment of
\* the poll: no torn copy, no mixture of two laps or two games, whatever the games do while
\* they are read, and whenever one is killed in the middle of an interval.
THEOREM RingIsHistory == Spec => HistoryImplemented
<1>1. Init => RingInv
  BY NameInit, SegInit, ReadInit DEF RingInv
<1>2. Init => History!Init
  BY DEF Init, History!Init, History!Zero, History!Nothing, Nothing
<1>3. RingInv /\ [Next]_vars => RingInv' /\ [History!Next]_History!vars
  BY RingNext
<1> QED  BY <1>1, <1>2, <1>3, PTL DEF Spec, HistoryImplemented, History!Spec

-----------------------------------------------------------------------------
(* The snapshot's age.                                                      *)

LEMMA Bound ==
  /\ Old \in Nat /\ MaxPoll <= Old /\ 0 \in Ages /\ None \in Int
  /\ MaxPoll \in Nat /\ MaxSleep \in Nat /\ MaxSegs \in Nat /\ Cap \in Nat /\ Retries \in Nat \ {0}
BY ConstantsOK DEF Old, Top, Ages, None

\* A clock that goes on: ages grow up to Old.
LEMMA OlderIs ==
  ASSUME NEW a \in Ages  PROVE Older(a) \in Ages /\ Older(a) <= a + 1
BY Bound DEF Older, Ages, None

LEMMA OlderMaybe ==
  ASSUME NEW a \in Ages \cup {None}  PROVE Older(a) \in Ages \cup {None}
BY Bound DEF Older, Ages, None

Snapshot == [source : 0..MaxSegs, frames : Seq(Nat)]

\* The types that the other invariants do not give: of the games ...
GameAges ==
  /\ inst \in [Games -> SUBSET Instances] /\ active \in BOOLEAN
  /\ last \in [Games -> Ages \cup {None}]
  /\ \A s \in Segs : seg[s].last \in Ages
  /\ \A g \in Games : pcw[g] \in {"slot", "count"} => last[g] \in Ages

\* ... of the worker ...
WorkerTypes ==
  /\ pcr \in {"asleep", "scan", "select", "seq", "count", "ring", "again"}
  /\ todo \subseteq Pids
  /\ found \subseteq [pid : Pids, seg : Segs, age : -MaxPoll..Old]
  /\ cur \in 0..MaxSegs /\ tries \in 0..Retries
  /\ Len(got) <= Cap

\* ... and of what it shows.
SnapshotTypes ==
  /\ shown \in Snapshot
  /\ polled \in 0..MaxPoll /\ shownAge \in Ages /\ slept \in 0..MaxSleep

\* A snapshot is as old as the poll it came from, then as the sleep after it, then as the
\* poll that will take its place.
Aging ==
  IF shown = Nothing THEN shownAge = 0
  ELSE shownAge <= MaxPoll + IF pcr = "asleep" THEN slept ELSE MaxSleep + polled

ShownInv == GameAges /\ WorkerTypes /\ SnapshotTypes /\ Aging

LEMMA NothingIs == Nothing \in Snapshot
BY Bound DEF Nothing, Snapshot

LEMMA ShownInit == Init => ShownInv
<1> SUFFICES ASSUME Init  PROVE ShownInv
  OBVIOUS
<1>1. GameAges
  <2>1. Old \in Ages
    BY Bound DEF Ages
  <2>2. inst \in [Games -> SUBSET Instances] /\ active \in BOOLEAN
    BY DEF Init
  <2>3. last \in [Games -> Ages \cup {None}] /\ \A s \in Segs : seg[s].last \in Ages
    BY <2>1 DEF Init
  <2>4. \A g \in Games : pcw[g] = "idle"
    BY DEF Init
  <2> QED  BY <2>2, <2>3, <2>4 DEF GameAges
<1>2. WorkerTypes
  BY Bound DEF Init, WorkerTypes
<1>3. SnapshotTypes /\ Aging
  BY Bound, NothingIs DEF Init, SnapshotTypes, Aging
<1> QED  BY <1>1, <1>2, <1>3 DEF ShownInv

\* An interval is recorded with the age of a present.
LEMMA GameShown ==
  ASSUME NameInv, SegInv, ShownInv, NEW g \in Games, GameStep(g)  PROVE ShownInv'
<1> USE Bound DEF ShownInv, GameAges
<1>1. UNCHANGED <<active, reader>>
  BY DEF GameStep, Start, Die, CreateInstance, WriteHeader, DestroyInstance, CreateSwapchain,
         PresentWithoutInterval, BeginRecord, WriteSlot, WriteCount, EndRecord
<1>2. WorkerTypes' /\ SnapshotTypes' /\ Aging'
  BY <1>1 DEF reader, scan, read, WorkerTypes, SnapshotTypes, Aging
<1>3. inst' \in [Games -> SUBSET Instances]
  <2>1. ASSUME NEW i \in Instances, CreateInstance(g, i) \/ DestroyInstance(g, i)
        PROVE  inst' \in [Games -> SUBSET Instances]
    <3>1. inst[g] \cup {i} \in SUBSET Instances /\ inst[g] \ {i} \in SUBSET Instances
      OBVIOUS
    <3> QED  BY <2>1, <3>1 DEF CreateInstance, DestroyInstance
  <2>2. CASE Die(g)
    <3>1. inst' = [inst EXCEPT ![g] = {}] /\ {} \in SUBSET Instances
      BY <2>2 DEF Die
    <3> QED  BY <3>1
  <2> QED
    BY <2>1, <2>2 DEF GameStep, Start, WriteHeader, CreateSwapchain, PresentWithoutInterval,
                      BeginRecord, WriteSlot, WriteCount, EndRecord
<1>4. last' \in [Games -> Ages \cup {None}]
  <2>1. CASE \/ Die(g) \/ WriteHeader(g) \/ CreateSwapchain(g)
             \/ \E i \in Instances : DestroyInstance(g, i)
    BY <2>1 DEF Die, WriteHeader, CreateSwapchain, DestroyInstance
  <2>2. CASE PresentWithoutInterval(g) \/ BeginRecord(g)
    BY <2>2 DEF PresentWithoutInterval, BeginRecord
  <2> QED
    BY <2>1, <2>2 DEF GameStep, Start, CreateInstance, WriteSlot, WriteCount, EndRecord
<1>5. ASSUME NEW h \in Games, pcw'[h] \in {"slot", "count"}  PROVE last'[h] \in Ages
  <2>1. pcw \in [Games -> {"idle", "header", "slot", "count", "even"}]
    BY DEF NameInv, Types
  <2>2. CASE h # g
    BY <1>5, <2>1, <2>2 DEF GameStep, Start, Die, CreateInstance, WriteHeader, DestroyInstance,
       CreateSwapchain, PresentWithoutInterval, BeginRecord, WriteSlot, WriteCount, EndRecord
  <2>3. CASE h = g /\ (BeginRecord(g) \/ WriteSlot(g) \/ WriteCount(g) \/ EndRecord(g))
    BY <1>5, <2>1, <2>3 DEF BeginRecord, WriteSlot, WriteCount, EndRecord
  <2>4. CASE h = g /\ ~(BeginRecord(g) \/ WriteSlot(g) \/ WriteCount(g) \/ EndRecord(g))
    BY <1>5, <2>1, <2>4 DEF GameStep, Start, Die, CreateInstance, WriteHeader, DestroyInstance,
       CreateSwapchain, PresentWithoutInterval, Idle
  <2> QED  BY <2>2, <2>3, <2>4
<1>6. ASSUME NEW s \in Segs  PROVE seg'[s].last \in Ages
  <2>1. seg \in [Segs -> Segment]
    BY DEF SegInv, SegTypes
  <2>2. seg[s] \in Segment
    BY <2>1
  <2>4. CASE PresentWithoutInterval(g)
    BY <2>1, <2>2, <2>4 DEF PresentWithoutInterval, Segment
  <2>5. CASE BeginRecord(g)
    BY <2>1, <2>2, <2>5 DEF BeginRecord, Segment
  <2>6. CASE WriteSlot(g)
    BY <2>1, <2>2, <2>6 DEF WriteSlot, Segment
  <2>7. CASE EndRecord(g)
    BY <2>1, <2>2, <2>7 DEF EndRecord, Segment
  <2>8. CASE WriteHeader(g)
    BY <2>1, <2>2, <2>8 DEF WriteHeader, Segment
  <2>3. CASE WriteCount(g)
    <3>1. last[g] \in Ages
      BY <2>3 DEF WriteCount
    <3> QED  BY <2>1, <2>3, <3>1 DEF WriteCount, Segment
  <2> QED
    BY <2>3, <2>4, <2>5, <2>6, <2>7, <2>8
       DEF GameStep, Start, Die, CreateInstance, DestroyInstance, CreateSwapchain
<1> QED  BY <1>1, <1>2, <1>3, <1>4, <1>5, <1>6

\* A step of the worker that changes no game.
LEMMA PublishShown ==
  ASSUME ShownInv, NEW x \in Snapshot, NEW age \in Ages, Publish(x, age),
         x = Nothing => age = 0, age <= MaxPoll
  PROVE  ShownInv'
<1>1. GameAges'
  BY DEF Publish, games, ShownInv, GameAges
<1>2. WorkerTypes'
  BY Bound DEF Publish, WorkerTypes
<1>3. SnapshotTypes'
  BY Bound DEF Publish, SnapshotTypes
<1>4. Aging'
  <2>1. shown' = x /\ shownAge' = age /\ pcr' = "asleep" /\ slept' = 0
    BY DEF Publish
  <2>2. age <= MaxPoll + 0
    BY Bound DEF Ages
  <2> QED  BY <2>1, <2>2 DEF Aging
<1> QED  BY <1>1, <1>2, <1>3, <1>4 DEF ShownInv

LEMMA ClearShown ==
  ASSUME ShownInv, Publish(Nothing, 0)  PROVE ShownInv'
BY PublishShown, NothingIs, Bound

\* A step within a poll.
LEMMA PollShown ==
  ASSUME ShownInv, WorkerTypes', UNCHANGED <<games, active, shown, polled, shownAge, slept>>,
         pcr # "asleep", pcr' # "asleep"
  PROVE  ShownInv'
<1>1. GameAges'
  BY DEF games, ShownInv, GameAges
<1>2. SnapshotTypes' /\ Aging'
  BY DEF ShownInv, SnapshotTypes, Aging
<1> QED  BY <1>1, <1>2 DEF ShownInv

LEMMA TryAgainShown ==
  ASSUME ShownInv, TryAgain, pcr # "asleep"  PROVE ShownInv'
<1>1. CASE Publish(Nothing, 0)
  BY <1>1, ClearShown
<1>2. CASE ~Publish(Nothing, 0)
  <2>1. /\ tries > 1 /\ tries' = tries - 1 /\ pcr' = "seq" /\ got' = <<>>
        /\ UNCHANGED <<games, active, scan, cur, first, shown, polled, shownAge, slept>>
    BY <1>2 DEF TryAgain
  <2>2. WorkerTypes'
    BY <2>1, Bound DEF ShownInv, WorkerTypes, scan
  <2> QED  BY <2>1, <2>2, PollShown
<1> QED  BY <1>1, <1>2

\* The age of a segment is that of its last present when the poll began.
LEMMA OpenShown ==
  ASSUME NameInv, ShownInv, NEW p \in Pids, Open(p)  PROVE ShownInv'
<1>1. name[p] \in 0..MaxSegs
  BY DEF NameInv, Types
<1>2. ASSUME name[p] # 0
      PROVE  [pid |-> p, seg |-> name[p], age |-> seg[name[p]].last - polled]
               \in [pid : Pids, seg : Segs, age : -MaxPoll..Old]
  <2>1. name[p] \in Segs
    BY <1>1, <1>2, Bound DEF Segs
  <2>2. seg[name[p]].last - polled \in -MaxPoll..Old
    BY <2>1, Bound DEF ShownInv, GameAges, SnapshotTypes, Ages
  <2> QED  BY <2>1, <2>2
<1>3. found' \subseteq [pid : Pids, seg : Segs, age : -MaxPoll..Old]
  BY <1>2 DEF Open, ShownInv, WorkerTypes
<1>4. WorkerTypes'
  BY <1>3 DEF Open, read, ShownInv, WorkerTypes
<1> QED  BY <1>4, PollShown DEF Open

LEMMA SelectShown ==
  ASSUME ShownInv, Select  PROVE ShownInv'
<1>1. CASE Publish(Nothing, 0)
  BY <1>1, ClearShown
<1>2. CASE ~Publish(Nothing, 0)
  <2>1. PICK f \in Fresh : Best(f) /\ cur' = f.seg
    BY <1>2 DEF Select
  <2>2. /\ tries' = Retries /\ pcr' = "seq" /\ pcr = "scan"
        /\ UNCHANGED <<games, active, scan, first, got, shown, polled, shownAge, slept>>
    BY <1>2 DEF Select
  <2>3. cur' \in 0..MaxSegs
    BY <2>1, Bound DEF Fresh, ShownInv, WorkerTypes, Segs
  <2>4. WorkerTypes'
    BY <2>2, <2>3, Bound DEF ShownInv, WorkerTypes, scan
  <2> QED  BY <2>2, <2>4, PollShown
<1> QED  BY <1>1, <1>2

LEMMA ReadShown ==
  ASSUME ReadInv, ShownInv, ReadSeq \/ ReadCount \/ ReadSlot \/ ReadAgain  PROVE ShownInv'
<1>1. CASE ReadSeq
  <2>1. CASE TryAgain
    BY <1>1, <2>1, TryAgainShown DEF ReadSeq
  <2>2. CASE ~TryAgain
    <3>1. WorkerTypes'
      BY <1>1, <2>2 DEF ReadSeq, scan, ShownInv, WorkerTypes
    <3> QED  BY <1>1, <2>2, <3>1, PollShown DEF ReadSeq
  <2> QED  BY <2>1, <2>2
<1>2. CASE ReadCount
  <2>1. WorkerTypes'
    BY <1>2 DEF ReadCount, scan, ShownInv, WorkerTypes
  <2> QED  BY <1>2, <2>1, PollShown DEF ReadCount
<1>3. CASE ReadSlot
  <2>1. Len(got') = Len(got) + 1 /\ Len(got) \in Nat
    BY <1>3 DEF ReadSlot, ReadInv, ReadTypes
  <2>2. Len(got) < Wanted /\ Wanted \in Nat /\ Wanted <= Cap
    BY <1>3, Bound DEF ReadSlot, Wanted, ReadInv, ReadTypes
  <2>3. Len(got') <= Cap
    BY <2>1, <2>2, Bound
  <2>4. WorkerTypes'
    BY <1>3, <2>3 DEF ReadSlot, scan, ShownInv, WorkerTypes
  <2> QED  BY <1>3, <2>4, PollShown DEF ReadSlot
<1>4. CASE ReadAgain
  <2>1. CASE TryAgain
    BY <1>4, <2>1, TryAgainShown DEF ReadAgain
  <2>2. CASE Publish([source |-> cur, frames |-> got], polled)
    <3>1. [source |-> cur, frames |-> got] \in Snapshot
      BY DEF Snapshot, ShownInv, WorkerTypes, ReadInv, ReadTypes
    <3>2. polled \in Ages /\ polled <= MaxPoll
      BY Bound DEF ShownInv, SnapshotTypes, Ages
    <3>3. [source |-> cur, frames |-> got] # Nothing
      <4>1. cur \in Segs
        BY <1>4 DEF ReadAgain, ReadInv, ReadTypes
      <4> QED  BY <4>1 DEF Segs, Nothing
    <3> QED  BY <2>2, <3>1, <3>2, <3>3, PublishShown
  <2> QED  BY <1>4, <2>1, <2>2 DEF ReadAgain
<1> QED  BY <1>1, <1>2, <1>3, <1>4

LEMMA ReaderShown ==
  ASSUME NameInv, ReadInv, ShownInv, ReaderStep  PROVE ShownInv'
<1>1. CASE BeginPoll
  <2>1. WorkerTypes'
    BY <1>1 DEF BeginPoll, read, ShownInv, WorkerTypes
  <2>2. GameAges'
    BY <1>1 DEF BeginPoll, games, ShownInv, GameAges
  <2>3. SnapshotTypes'
    BY <1>1, Bound DEF BeginPoll, ShownInv, SnapshotTypes
  <2>4. Aging'
    BY <1>1, Bound DEF BeginPoll, ShownInv, SnapshotTypes, Aging, Ages
  <2> QED  BY <2>1, <2>2, <2>3, <2>4 DEF ShownInv
<1> QED
  BY <1>1, ClearShown, OpenShown, SelectShown, ReadShown DEF ReaderStep, ClearWhileInactive

LEMMA TickShown ==
  ASSUME SegInv, ShownInv, Tick  PROVE ShownInv'
<1>1. last' \in [Games -> Ages \cup {None}]
  BY OlderMaybe DEF Tick, ShownInv, GameAges
<1>2. ASSUME NEW s \in Segs  PROVE seg'[s].last \in Ages
  <2>1. seg'[s] = [seg[s] EXCEPT !.last = Older(seg[s].last)] /\ seg[s] \in Segment
    BY DEF Tick, SegInv, SegTypes
  <2>2. seg'[s].last = Older(seg[s].last)
    BY <2>1 DEF Segment
  <2> QED  BY <2>2, OlderIs DEF ShownInv, GameAges
<1>3. ASSUME NEW g \in Games, pcw'[g] \in {"slot", "count"}  PROVE last'[g] \in Ages
  BY <1>3, OlderIs DEF Tick, ShownInv, GameAges
<1>4. GameAges'
  BY <1>1, <1>2, <1>3 DEF Tick, ShownInv, GameAges
<1>5. WorkerTypes'
  BY DEF Tick, scan, read, ShownInv, WorkerTypes
<1>6. shownAge' \in Ages /\ (shown = Nothing => shownAge' = 0) /\ shownAge' <= shownAge + 1
  BY OlderIs, Bound DEF Tick, ShownInv, SnapshotTypes, Ages
<1>7. SnapshotTypes'
  BY <1>6, Bound DEF Tick, ShownInv, SnapshotTypes
<1>8. Aging'
  BY <1>6, Bound DEF Tick, ShownInv, SnapshotTypes, Aging, Ages
<1> QED  BY <1>4, <1>5, <1>7, <1>8 DEF ShownInv

LEMMA ShownNext ==
  ASSUME RingInv, ShownInv, [Next]_vars  PROVE ShownInv'
<1>1. CASE (\E b \in BOOLEAN : SetActive(b)) \/ UNCHANGED vars
  <2>1. UNCHANGED <<games, reader>> /\ active' \in BOOLEAN
    BY <1>1 DEF SetActive, vars, ShownInv, GameAges
  <2> QED  BY <2>1 DEF games, reader, scan, read, ShownInv, GameAges, WorkerTypes, SnapshotTypes, Aging
<1> QED  BY <1>1, GameShown, ReaderShown, TickShown DEF RingInv, Next

LEMMA ShownGives ==
  ASSUME RingInv, ShownInv  PROVE ShownIsTrue
<1> USE DEF RingInv, ShownInv
<1>1. seg \in [Segs -> [valid : BOOLEAN, seq : Nat, count : Nat,
                        last : Ages, ring : [0..Cap-1 -> Nat]]]
  <2>1. ASSUME NEW s \in Segs
        PROVE  seg[s] \in [valid : BOOLEAN, seq : Nat, count : Nat,
                           last : Ages, ring : [0..Cap-1 -> Nat]]
    BY DEF SegInv, SegTypes, Segment, GameAges
  <2> QED  BY <2>1 DEF SegInv, SegTypes
<1>2. TypeOK
  BY <1>1 DEF TypeOK, NameInv, Types, SegInv, SegTypes, ReadInv, ReadTypes, GameAges, WorkerTypes,
              SnapshotTypes, Snapshot
<1>3. ShownIsRecent
  BY Bound DEF ShownIsRecent, SnapshotTypes, Aging, Ages
<1> QED  BY <1>2, <1>3 DEF ShownIsTrue

\* What the panel shows was presented no longer ago than two polls and the sleep between them,
\* however long the panel was off the screen and whatever was killed; and all the state is of
\* its types.
THEOREM ShownWasPresented == Spec => []ShownIsTrue
<1>1. Init => RingInv /\ ShownInv
  BY NameInit, SegInit, ReadInit, ShownInit DEF RingInv
<1>2. RingInv /\ ShownInv /\ [Next]_vars => RingInv' /\ ShownInv'
  BY RingNext, ShownNext
<1>3. RingInv /\ ShownInv => ShownIsTrue
  BY ShownGives
<1> QED  BY <1>1, <1>2, <1>3, PTL DEF Spec
=============================================================================
