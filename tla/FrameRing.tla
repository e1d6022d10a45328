----------------------------- MODULE FrameRing -----------------------------
(***************************************************************************)
(* The frame metrics, from the Vulkan layer inside the games to the number  *)
(* the panel shows: games create, write and remove segments of shared       *)
(* memory, and die at any moment; one worker thread of the GUI scans the    *)
(* directory, selects a segment and reads it through its sequence number.   *)
(*                                                                         *)
(* The interval with number n is the n-th its writer put into the ring; an  *)
(* unwritten slot holds 0.  Stores of a writer are seen in program order    *)
(* (x86), and a header is copied in the order of its addresses.             *)
(*                                                                         *)
(* Time is kept as ages that saturate at Old; a tick is about a second.     *)
(***************************************************************************)
EXTENDS Integers, Sequences, FiniteSets

CONSTANTS
  Games,      \* processes with the layer in them
  Pid,        \* their pids; a pid is used again when its process is gone
  Instances,  \* the VkInstance handles a process may create
  Cap,        \* RING_CAPACITY
  Retries,    \* READ_RETRIES
  Stale,      \* STALE_AFTER, in ticks
  Gap,        \* the longest interval that is a frame (10 s), in ticks
  MaxPoll,    \* assumed: a poll takes no more ticks than this
  MaxSleep,   \* assumed: nor does the sleep between two polls
  MaxSegs,    \* bound: segments created in a behaviour
  MaxFrames   \* bound: per segment, the intervals recorded

ASSUME ConstantsOK ==
  /\ Pid \in [Games -> Nat]
  /\ Cap \in Nat \ {0} /\ Retries \in Nat \ {0}
  /\ Stale \in Nat \ {0} /\ Gap \in Nat /\ MaxPoll \in Nat /\ MaxSleep \in Nat
  /\ MaxSegs \in Nat /\ MaxFrames \in [1..MaxSegs -> Nat]

Pids == {Pid[g] : g \in Games}
Segs == 1..MaxSegs
Top(a, b) == IF a < b THEN b ELSE a
\* Older than anything a comparison tells apart.
Old == Top(Gap + 1, Stale + MaxPoll)
Ages == 0..Old
None == -1   \* last_ns = 0: no present yet

VARIABLES
  proc,      \* per game: "new", "running" or "dead"
  inst,      \* per game: its live VkInstances
  writer,    \* per game: the segment in WRITER, 0 for none
  last,      \* per game: the age of the writer's last_ns
  pcw,       \* per game: where the writer is
  frames,    \* per segment: the writer's own count of intervals
  seg,       \* per segment: what is in the shared memory
  nseg,      \* the segments created so far
  name,      \* per pid: the segment frames-<pid> names, 0 for no file
  active,    \* the panel is on the screen
  pcr,       \* where the worker is
  todo,      \* the pids the scan has yet to open
  found,     \* the segments the scan has opened
  floor,     \* history: the intervals recorded when this poll began
  cur,       \* the segment being read
  tries,     \* attempts left
  first,     \* the first header: its sequence and count
  got,       \* the intervals copied so far
  shown,     \* the snapshot
  polled,    \* the age of the poll's now_ns
  shownAge,  \* the age of the now_ns the snapshot was made with
  slept      \* ticks slept

games == <<proc, inst, writer, last, pcw, frames, seg, nseg, name>>
scan == <<todo, found, floor>>
read == <<cur, tries, first, got>>
reader == <<pcr, scan, read, shown, polled, shownAge, slept>>
vars == <<games, active, reader>>

Nothing == [source |-> 0, frames |-> <<>>]
EmptyRing == [i \in 0..Cap-1 |-> 0]

TypeOK ==
  /\ proc \in [Games -> {"new", "running", "dead"}]
  /\ inst \in [Games -> SUBSET Instances]
  /\ writer \in [Games -> 0..MaxSegs]
  /\ last \in [Games -> Ages \cup {None}]
  /\ pcw \in [Games -> {"idle", "header", "slot", "count", "even"}]
  /\ frames \in [Segs -> Nat]
  /\ seg \in [Segs -> [valid : BOOLEAN, seq : Nat, count : Nat,
                       last : Ages, ring : [0..Cap-1 -> Nat]]]
  /\ nseg \in 0..MaxSegs
  /\ name \in [Pids -> 0..MaxSegs]
  /\ active \in BOOLEAN
  /\ pcr \in {"asleep", "scan", "select", "seq", "count", "ring", "again"}
  /\ todo \subseteq Pids
  /\ found \subseteq [pid : Pids, seg : Segs, age : -MaxPoll..Old]
  /\ floor \in [Segs -> Nat]
  /\ cur \in 0..MaxSegs /\ tries \in 0..Retries
  /\ first \in [seq : Nat, count : Nat]
  /\ got \in Seq(Nat) /\ Len(got) <= Cap
  /\ shown \in [source : 0..MaxSegs, frames : Seq(Nat)]
  /\ polled \in 0..MaxPoll /\ shownAge \in Ages /\ slept \in 0..MaxSleep

Init ==
  /\ proc = [g \in Games |-> "new"]
  /\ inst = [g \in Games |-> {}]
  /\ writer = [g \in Games |-> 0]
  /\ last = [g \in Games |-> None]
  /\ pcw = [g \in Games |-> "idle"]
  /\ frames = [s \in Segs |-> 0]
  /\ seg = [s \in Segs |-> [valid |-> FALSE, seq |-> 0, count |-> 0, last |-> Old,
                            ring |-> EmptyRing]]
  /\ nseg = 0
  /\ name = [p \in Pids |-> 0]
  /\ active = FALSE
  /\ pcr = "asleep"
  /\ todo = {} /\ found = {} /\ floor = frames
  /\ cur = 0 /\ tries = 0
  /\ first = [seq |-> 0, count |-> 0] /\ got = <<>>
  /\ shown = Nothing
  /\ polled = 0 /\ shownAge = 0 /\ slept = 0

-----------------------------------------------------------------------------
(* The layer in a game.                                                     *)

Idle(g) == proc[g] = "running" /\ pcw[g] = "idle"

Start(g) ==
  /\ proc[g] = "new"
  /\ \A h \in Games \ {g} : Pid[h] = Pid[g] => proc[h] # "running"
  /\ proc' = [proc EXCEPT ![g] = "running"]
  /\ UNCHANGED <<inst, writer, last, pcw, frames, seg, nseg, name, active, reader>>

\* SIGKILL, at any point of a present or of a creation.
Die(g) ==
  /\ proc[g] = "running"
  /\ proc' = [proc EXCEPT ![g] = "dead"]
  /\ writer' = [writer EXCEPT ![g] = 0]
  /\ inst' = [inst EXCEPT ![g] = {}]
  /\ last' = [last EXCEPT ![g] = None]
  /\ pcw' = [pcw EXCEPT ![g] = "idle"]
  /\ UNCHANGED <<frames, seg, nseg, name, active, reader>>

\* vk_create_instance, with the open(O_EXCL) and the ftruncate of Writer::create:
\* a name that is taken makes the creation fail, and WRITER is left as it was.
CreateInstance(g, i) ==
  /\ Idle(g) /\ i \notin inst[g]
  /\ inst' = [inst EXCEPT ![g] = @ \cup {i}]
  /\ IF name[Pid[g]] = 0
     THEN /\ nseg < MaxSegs
          /\ nseg' = nseg + 1
          /\ name' = [name EXCEPT ![Pid[g]] = nseg + 1]
          /\ pcw' = [pcw EXCEPT ![g] = "header"]
     ELSE UNCHANGED <<nseg, name, pcw>>
  /\ UNCHANGED <<proc, writer, last, frames, seg, active, reader>>

\* The header is written into the mapping and the writer put into WRITER.
WriteHeader(g) ==
  /\ pcw[g] = "header"
  /\ LET s == name[Pid[g]] IN
       /\ seg' = [seg EXCEPT ![s].valid = TRUE]
       /\ writer' = [writer EXCEPT ![g] = s]
  /\ last' = [last EXCEPT ![g] = None]
  /\ pcw' = [pcw EXCEPT ![g] = "idle"]
  /\ UNCHANGED <<proc, inst, frames, nseg, name, active, reader>>

\* Mutant of DestroyInstance: the slot keeps the destroyed writer.
DestroyInstanceKeepingSlot(g, i) ==
  /\ Idle(g) /\ i \in inst[g]
  /\ inst' = [inst EXCEPT ![g] = @ \ {i}]
  /\ name' = IF writer[g] = 0 THEN name ELSE [name EXCEPT ![Pid[g]] = 0]
  /\ UNCHANGED <<proc, writer, last, pcw, frames, seg, nseg, active, reader>>

\* vk_destroy_instance: Writer::destroy unmaps and unlinks, whichever instance
\* of the process goes.
DestroyInstance(g, i) ==
  /\ Idle(g) /\ i \in inst[g]
  /\ inst' = [inst EXCEPT ![g] = @ \ {i}]
  /\ name' = IF writer[g] = 0 THEN name ELSE [name EXCEPT ![Pid[g]] = 0]
  /\ writer' = [writer EXCEPT ![g] = 0]
  /\ last' = [last EXCEPT ![g] = None]
  /\ UNCHANGED <<proc, pcw, frames, seg, nseg, active, reader>>

\* vk_create_swapchain_khr: a new cadence.
CreateSwapchain(g) ==
  /\ Idle(g) /\ writer[g] # 0 /\ last[g] # None
  /\ last' = [last EXCEPT ![g] = None]
  /\ UNCHANGED <<proc, inst, writer, pcw, frames, seg, nseg, name, active, reader>>

(* vk_queue_present_khr: Writer::record.  The first present of a cadence and *)
(* one after a gap refresh last_present_ns alone.                            *)
PresentWithoutInterval(g) ==
  /\ Idle(g) /\ writer[g] # 0
  /\ last[g] = None \/ last[g] > Gap
  /\ last' = [last EXCEPT ![g] = 0]
  /\ seg' = [seg EXCEPT ![writer[g]].last = 0]
  /\ UNCHANGED <<proc, inst, writer, pcw, frames, nseg, name, active, reader>>

\* Mutant of BeginRecord: the sequence does not turn odd.
BeginRecordEven(g) ==
  /\ Idle(g) /\ writer[g] # 0
  /\ last[g] \in 0..Gap
  /\ frames[writer[g]] < MaxFrames[writer[g]]
  /\ last' = [last EXCEPT ![g] = 0]
  /\ pcw' = [pcw EXCEPT ![g] = "slot"]
  /\ UNCHANGED <<proc, inst, writer, frames, seg, nseg, name, active, reader>>

BeginRecord(g) ==
  /\ Idle(g) /\ writer[g] # 0
  /\ last[g] \in 0..Gap
  /\ frames[writer[g]] < MaxFrames[writer[g]]
  /\ last' = [last EXCEPT ![g] = 0]
  /\ seg' = [seg EXCEPT ![writer[g]].seq = @ + 1]
  /\ pcw' = [pcw EXCEPT ![g] = "slot"]
  /\ UNCHANGED <<proc, inst, writer, frames, nseg, name, active, reader>>

WriteSlot(g) ==
  /\ pcw[g] = "slot"
  /\ LET s == writer[g] IN
       /\ seg' = [seg EXCEPT ![s].ring[frames[s] % Cap] = frames[s] + 1]
       /\ frames' = [frames EXCEPT ![s] = @ + 1]
  /\ pcw' = [pcw EXCEPT ![g] = "count"]
  /\ UNCHANGED <<proc, inst, writer, last, nseg, name, active, reader>>

WriteCount(g) ==
  /\ pcw[g] = "count"
  /\ LET s == writer[g] IN
       seg' = [seg EXCEPT ![s].last = last[g], ![s].count = frames[s]]
  /\ pcw' = [pcw EXCEPT ![g] = "even"]
  /\ UNCHANGED <<proc, inst, writer, last, frames, nseg, name, active, reader>>

EndRecord(g) ==
  /\ pcw[g] = "even"
  /\ seg' = [seg EXCEPT ![writer[g]].seq = @ + 1]
  /\ pcw' = [pcw EXCEPT ![g] = "idle"]
  /\ UNCHANGED <<proc, inst, writer, last, frames, nseg, name, active, reader>>

-----------------------------------------------------------------------------
(* The worker thread of the panel.                                          *)

SetActive(b) ==
  /\ active # b
  /\ active' = b
  /\ UNCHANGED <<games, reader>>

\* The end of every round: a snapshot is published and the worker sleeps.
Publish(s, age) ==
  /\ shown' = s /\ shownAge' = age
  /\ pcr' = "asleep" /\ polled' = 0 /\ slept' = 0
  /\ todo' = {} /\ found' = {} /\ floor' = [x \in Segs |-> 0]
  /\ cur' = 0 /\ tries' = 0 /\ first' = [seq |-> 0, count |-> 0] /\ got' = <<>>
  /\ UNCHANGED <<games, active>>

\* Mutant of ClearWhileInactive: the last snapshot stays.
ClearNothing ==
  /\ pcr = "asleep" /\ ~active
  /\ Publish(shown, shownAge)

\* run, off the screen: no file is touched, and the snapshot is cleared.
ClearWhileInactive ==
  /\ pcr = "asleep" /\ ~active
  /\ Publish(Nothing, 0)

\* Poller::poll takes the clock and lists the directory.
BeginPoll ==
  /\ pcr = "asleep" /\ active
  /\ todo' = {p \in Pids : name[p] # 0} /\ found' = {} /\ floor' = frames
  /\ pcr' = "scan" /\ polled' = 0
  /\ UNCHANGED <<games, active, read, shown, shownAge, slept>>

\* Segment::open: a file that has gone, or whose header is not there yet, is
\* refused; last_present_ns is the header's at this moment.
Open(p) ==
  /\ pcr = "scan" /\ p \in todo
  /\ todo' = todo \ {p}
  /\ LET s == name[p] IN
       found' = IF s = 0 \/ ~seg[s].valid THEN found
                ELSE found \cup {[pid |-> p, seg |-> s, age |-> seg[s].last - polled]}
  /\ UNCHANGED <<games, active, pcr, floor, read, shown, polled, shownAge, slept>>

\* Mutant of Fresh: an old segment is a source like any other.
FreshOrNot == found

\* select_index: the most recent present wins, then the larger pid.
Fresh == {f \in found : f.age < Stale}
Better(f, g) == f.age < g.age \/ (f.age = g.age /\ f.pid >= g.pid)
Best(f) == f \in Fresh /\ \A g \in Fresh : Better(f, g)

Select ==
  /\ pcr = "scan" /\ todo = {}
  /\ \/ /\ Fresh = {}
        /\ Publish(Nothing, 0)
     \/ /\ \E f \in Fresh : Best(f) /\ cur' = f.seg
        /\ tries' = Retries /\ pcr' = "seq"
        /\ UNCHANGED <<games, active, scan, first, got, shown, polled, shownAge, slept>>

\* An attempt that saw a writer at work: another one, or the poll shows nothing.
TryAgain ==
  \/ /\ tries = 1
     /\ Publish(Nothing, 0)
  \/ /\ tries > 1
     /\ tries' = tries - 1 /\ pcr' = "seq" /\ got' = <<>>
     /\ UNCHANGED <<games, active, scan, cur, first, shown, polled, shownAge, slept>>

\* Segment::read, the first header: the sequence, and then the count behind it.
ReadSeq ==
  /\ pcr = "seq"
  /\ \/ seg[cur].seq % 2 = 1 /\ TryAgain
     \/ /\ seg[cur].seq % 2 = 0
        /\ first' = [first EXCEPT !.seq = seg[cur].seq] /\ pcr' = "count"
        /\ UNCHANGED <<games, active, scan, cur, tries, got, shown, polled, shownAge, slept>>

ReadCount ==
  /\ pcr = "count"
  /\ first' = [first EXCEPT !.count = seg[cur].count] /\ pcr' = "ring"
  /\ UNCHANGED <<games, active, scan, cur, tries, got, shown, polled, shownAge, slept>>

\* read_newest: the caller asks for the whole ring, copied oldest slot first.
Wanted == IF first.count < Cap THEN first.count ELSE Cap

ReadSlot ==
  /\ pcr = "ring" /\ Len(got) < Wanted
  /\ got' = Append(got, seg[cur].ring[(first.count - Wanted + Len(got)) % Cap])
  /\ UNCHANGED <<games, active, pcr, scan, cur, tries, first, shown, polled, shownAge, slept>>

\* Mutant of ReadAgain: the second look at the sequence is left out.
ReadOnce ==
  /\ pcr = "ring" /\ Len(got) = Wanted
  /\ Publish([source |-> cur, frames |-> got], polled)

\* The second header decides.
ReadAgain ==
  /\ pcr = "ring" /\ Len(got) = Wanted
  /\ \/ seg[cur].seq = first.seq /\ Publish([source |-> cur, frames |-> got], polled)
     \/ seg[cur].seq # first.seq /\ TryAgain

-----------------------------------------------------------------------------
\* Mutant of Older: ages grow for ever.
OlderForEver(a) == IF a = None THEN a ELSE a + 1

Older(a) == IF a = None \/ a = Old THEN a ELSE a + 1

Tick ==
  /\ IF pcr = "asleep" THEN slept < MaxSleep ELSE polled < MaxPoll
  /\ IF pcr = "asleep" THEN slept' = slept + 1 /\ UNCHANGED polled
                       ELSE polled' = polled + 1 /\ UNCHANGED slept
  /\ last' = [g \in Games |-> Older(last[g])]
  /\ seg' = [s \in Segs |-> [seg[s] EXCEPT !.last = Older(@)]]
  /\ shownAge' = IF shown = Nothing THEN 0 ELSE Older(shownAge)
  /\ UNCHANGED <<proc, inst, writer, pcw, frames, nseg, name, active,
                 pcr, scan, read, shown>>

ReaderStep ==
  \/ ClearWhileInactive \/ BeginPoll \/ (\E p \in Pids : Open(p)) \/ Select
  \/ ReadSeq \/ ReadCount \/ ReadSlot \/ ReadAgain

GameStep(g) ==
  \/ Start(g) \/ Die(g)
  \/ \E i \in Instances : CreateInstance(g, i) \/ DestroyInstance(g, i)
  \/ WriteHeader(g) \/ CreateSwapchain(g)
  \/ PresentWithoutInterval(g) \/ BeginRecord(g)
  \/ WriteSlot(g) \/ WriteCount(g) \/ EndRecord(g)

Next ==
  \/ \E g \in Games : GameStep(g)
  \/ \E b \in BOOLEAN : SetActive(b)
  \/ ReaderStep
  \/ Tick

Spec == Init /\ [][Next]_vars

\* The worker is a thread that goes on, and the clock does too, whatever the
\* worker is at.
FairSpec == Spec /\ WF_vars(ReaderStep) /\ SF_vars(Tick)

-----------------------------------------------------------------------------
(* Properties.                                                              *)

\* What the panel is given is what the seqlock promises: the newest intervals
\* of one writer as they were at one moment of the poll, never a mixture of two
\* laps of the ring and never older than the beginning of the poll (shm.rs,
\* Segment::read).
History == INSTANCE FrameHistory WITH
  Sources <- Segs, recorded <- frames, published <- shown
HistoryImplemented == History!Spec

\* A snapshot is never kept: not while the panel was off the screen, and not
\* across a poll that found nothing (mod.rs, run).
ShownIsRecent == shown # Nothing => shownAge <= 2 * MaxPoll + MaxSleep

\* The types, and what is shown: numbers that were presented a short time ago (source.rs).
ShownIsTrue == TypeOK /\ ShownIsRecent

\* A writer that records can be found: the file of its pid is its segment,
\* whatever instances come and go and whoever had the pid before (Writer::create
\* and Writer::destroy).
WriterHasItsName == \A g \in Games : writer[g] # 0 => name[Pid[g]] = writer[g]

\* The last number of a game that is gone leaves the panel, although its file
\* stays when it was killed (source.rs, STALE_AFTER).
Written(s) == \E g \in Games : writer[g] = s
DeadGoesDark ==
  \A s \in Segs : (shown.source = s /\ ~Written(s)) ~> (shown.source # s)
=============================================================================
