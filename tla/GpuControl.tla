----------------------------- MODULE GpuControl -----------------------------
(***************************************************************************)
(* The GPU side of the daemon: ApplyProfile calls arriving over D-Bus, the  *)
(* gpu_overclock poll job, and the runtime-PM write gate of the adapter.    *)
(* They meet in the globals GPU_DAEMON_STATE, PENDING_GPU_SETTINGS,         *)
(* GPU_APPLY_GEN, LAST_APPLIED_PROFILE, IDLE_OC_STATE,                      *)
(* LAST_APPLIED_OFFSET, MANUAL_GPU_OFFSETS and DEFERRED_GPU_REPORT.         *)
(*                                                                         *)
(* The adapter has two registers: "core" (the clock offset) and "clocks"    *)
(* (the locked range).  The memory offset is written wherever the core      *)
(* offset is, and the power limit and the fans are further operations of a  *)
(* static apply: none of them has control flow of its own.                  *)
(***************************************************************************)
EXTENDS Integers, Sequences

CONSTANTS
  Calls,        \* the D-Bus calls that can be in flight at once
  Job,          \* the thread that runs the gpu_overclock poll job
  Profiles,     \* the profiles a client may apply
  Gpu,          \* Gpu[p]: the GPU settings of profile p
  Offsets,      \* the core offsets that occur; 0 is the cleared one
  Clocks,       \* the locked clock ranges that occur
  Unlocked,     \* the range after reset_gpu_clocks
  Unsupported,  \* the registers whose writes NVML answers NotSupported
  Breakable,    \* the registers whose writes may fail for another reason
  StepsMayFail, \* whether a step of a profile outside the GPU may fail
  DirectOffsets,\* the offsets a client sets through SetGpuCoreOffset
  MaxApplies,   \* bound: profile applies started in a behaviour
  None          \* no profile, step, offset, report or lock holder

Regs == {"core", "clocks"}
Threads == Calls \cup {Job}

GpuSettings == [idle : BOOLEAN,      \* release_oc_when_idle
                advanced : BOOLEAN,  \* advanced_control
                manual : BOOLEAN,    \* manual_clocks
                core : Offsets \cup {None},
                clocks : Clocks]

ASSUME ConstantsOK ==
  /\ Job \notin Calls /\ None \notin Threads \cup Profiles \cup Offsets
  /\ Gpu \in [Profiles -> GpuSettings]
  /\ 0 \in Offsets /\ Unlocked \in Clocks
  /\ Unsupported \subseteq Regs /\ Breakable \subseteq Regs
  /\ StepsMayFail \in BOOLEAN
  /\ DirectOffsets \subseteq Offsets
  /\ MaxApplies \in Nat

VARIABLES
  gate,        \* what gpu_write_allowed answers for the adapter
  hw,          \* the adapter's registers
  manual,      \* MANUAL_GPU_OFFSETS: the core offset last written, or None
  gpuState,    \* GPU_DAEMON_STATE: the profile whose settings it holds
  lastProfile, \* LAST_APPLIED_PROFILE: the marker
  gen,         \* GPU_APPLY_GEN
  pending,     \* PENDING_GPU_SETTINGS: a deferred step, or None
  lock,        \* the thread that holds the mutex of PENDING_GPU_SETTINGS
  report,      \* DEFERRED_GPU_REPORT
  idle,        \* IDLE_OC_STATE
  lastOffset,  \* LAST_APPLIED_OFFSET: the dynamic offset last written
  pc,          \* where each thread is
  cfg,         \* a call's profile, or the job's snapshot of gpuState
  todo,        \* the register writes a thread has yet to make
  bad,         \* the failures those writes have met so far
  outcome      \* a call's GPU outcome; the origin of the job's attempt

hardware == <<gate, hw>>
control  == <<gpuState, lastProfile, gen>>
deferral == <<pending, lock>>
jobState == <<idle, lastOffset>>
threads  == <<pc, cfg, todo, bad, outcome>>
vars == <<hardware, manual, control, deferral, report, jobState, threads>>

Origins == {"ProfileApply", "IdleRestore"}
Kinds == {"Unsupported", "GateClosed", "Failed"}
Failures == SUBSET (Regs \X Kinds)
Step == [settings : Profiles, origin : Origins]
ASSUME NoneOK == None \notin Step

Op == [reg : {"core"}, val : Offsets] \cup [reg : {"clocks"}, val : Clocks]

\* idle_since is None, less than IDLE_RELEASE_AFTER ago ("young") or at least
\* that long ("old"); retry tells whether last_release_attempt lets another
\* attempt be made.
IdleState == [since : {"none", "young", "old"}, released : BOOLEAN,
              relPending : BOOLEAN, retry : BOOLEAN, seenGen : Nat]

CallPcs == {"idle", "check", "cpu", "gpu", "ops", "rest"}
JobPcs == {"idle", "pend", "ops", "publish", "decide", "rel", "restore", "dyn", "clear"}

(***************************************************************************)
(* Gpu operations.                                                         *)
(***************************************************************************)
HasGate(b) == \E r \in Regs : <<r, "GateClosed">> \in b

\* split_gpu_failures: everything but Unsupported is fatal.
Fatal(b) == \E r \in Regs : \E k \in {"GateClosed", "Failed"} : <<r, k>> \in b

\* Mutants of Consumed: a refused step is dropped; every failed step is kept.
ConsumedAlways(b) == TRUE
ConsumedIfClean(b) == b = {}

\* A refusal by the gate is transient: only then is the step kept.
Consumed(b) == ~HasGate(b)

\* The writes of apply_gpu_static: an absent core offset is not written, and
\* the clocks are either locked or reset.
StaticOps(g) ==
  (IF g.core = None THEN <<>> ELSE <<[reg |-> "core", val |-> g.core]>>)
    \o <<[reg |-> "clocks", val |-> g.clocks]>>

ReleaseOps == <<[reg |-> "clocks", val |-> Unlocked], [reg |-> "core", val |-> 0]>>

\* What one gated write can answer; "ok" is the success.
Answers(r) ==
  IF ~gate THEN {"GateClosed"}
  ELSE IF r \in Unsupported THEN {"Unsupported"}
  ELSE {"ok"} \cup (IF r \in Breakable THEN {"Failed"} ELSE {})

\* The effect of a write answered a: a successful core write is recorded in
\* MANUAL_GPU_OFFSETS as well.
Effect(op, a) ==
  /\ hw' = IF a = "ok" THEN [hw EXCEPT ![op.reg] = op.val] ELSE hw
  /\ manual' = IF a = "ok" /\ op.reg = "core" THEN op.val ELSE manual

(***************************************************************************)
(* Initial state: nothing applied, the adapter in any power state.         *)
(***************************************************************************)
Init ==
  /\ gate \in BOOLEAN
  /\ hw = [core |-> 0, clocks |-> Unlocked]
  /\ manual = None
  /\ gpuState = None /\ lastProfile = None /\ gen = 0
  /\ pending = None /\ lock = None
  /\ report = [pending |-> None, last |-> None]
  /\ idle = [since |-> "none", released |-> FALSE, relPending |-> FALSE,
             retry |-> TRUE, seenGen |-> 0]
  /\ lastOffset = None
  /\ pc = [t \in Threads |-> "idle"]
  /\ cfg = [t \in Threads |-> None]
  /\ todo = [t \in Threads |-> <<>>]
  /\ bad = [t \in Threads |-> {}]
  /\ outcome = [t \in Threads |-> "ok"]

Goto(t, l) == pc' = [pc EXCEPT ![t] = l]

\* A call replies or a tick ends: its locals go with it.
End(t) == Goto(t, "idle") /\ cfg' = [cfg EXCEPT ![t] = None]

\* A static attempt or an idle release starts on its list of writes.
Begin(t, l, ops) ==
  /\ Goto(t, l)
  /\ todo' = [todo EXCEPT ![t] = ops]
  /\ bad' = [bad EXCEPT ![t] = {}]

\* One write of t's list; a failure is recorded and the list goes on.
Write(t) ==
  /\ pc[t] \in {"ops", "rel"} /\ todo[t] # <<>>
  /\ \E a \in Answers(Head(todo[t]).reg) :
       /\ Effect(Head(todo[t]), a)
       /\ bad' = [bad EXCEPT ![t] = IF a = "ok" THEN @ ELSE @ \cup {<<Head(todo[t]).reg, a>>}]
  /\ todo' = [todo EXCEPT ![t] = Tail(@)]
  /\ UNCHANGED <<gate, control, deferral, report, jobState, pc, cfg, outcome>>

(***************************************************************************)
(* ApplyProfile: a D-Bus call, on a thread of its own.                     *)
(***************************************************************************)
\* The handler stores the settings for the job before anything is applied.
ApplyProfile(c, p) ==
  /\ pc[c] = "idle" /\ gen < MaxApplies
  /\ gpuState' = p
  /\ cfg' = [cfg EXCEPT ![c] = p]
  /\ outcome' = [outcome EXCEPT ![c] = "ok"]
  /\ Goto(c, "check")
  /\ UNCHANGED <<hardware, manual, lastProfile, gen, deferral, report, jobState, todo, bad>>

\* "already applied, skipping": the call answers Ok and touches no hardware.
SkipApplied(c) ==
  /\ pc[c] = "check" /\ lastProfile = cfg[c]
  /\ End(c)
  /\ UNCHANGED <<hardware, manual, control, deferral, report, jobState, todo, bad, outcome>>

StartApply(c) ==
  /\ pc[c] = "check" /\ lastProfile # cfg[c]
  /\ Goto(c, "cpu")
  /\ UNCHANGED <<hardware, manual, control, deferral, report, jobState, cfg, todo, bad, outcome>>

\* The generation, then the steps before the GPU one: any may fail and end
\* the apply.
CpuSteps(c) ==
  /\ pc[c] = "cpu"
  /\ gen' = gen + 1
  /\ \/ Goto(c, "gpu") /\ UNCHANGED outcome
     \/ /\ StepsMayFail
        /\ Goto(c, "rest")
        /\ outcome' = [outcome EXCEPT ![c] = "err"]
  /\ UNCHANGED <<hardware, manual, gpuState, lastProfile, deferral, report, jobState, cfg, todo, bad>>

ProfileStep(p) == [settings |-> p, origin |-> "ProfileApply"]

\* pending_after_profile_apply.
PendingAfterApply(consumed, p) == IF consumed THEN None ELSE ProfileStep(p)

\* The gate refuses the pre-check: nothing is attempted, the step is deferred.
DeferGpuStep(c) ==
  /\ pc[c] = "gpu" /\ lock = None /\ ~gate
  /\ pending' = PendingAfterApply(FALSE, cfg[c])
  /\ outcome' = [outcome EXCEPT ![c] = "deferred"]
  /\ Goto(c, "rest")
  /\ UNCHANGED <<hardware, manual, control, lock, report, jobState, cfg, todo, bad>>

\* The writes are made with the mutex held.
BeginGpuStep(c) ==
  /\ pc[c] = "gpu" /\ lock = None /\ gate
  /\ lock' = c
  /\ Begin(c, "ops", StaticOps(Gpu[cfg[c]]))
  /\ UNCHANGED <<hardware, manual, control, pending, report, jobState, cfg, outcome>>

\* A fatal failure becomes the call's error in profile_gpu_result, at the end;
\* a refusal by the gate is one of them although the step is kept.
EndGpuStep(c) ==
  /\ pc[c] = "ops" /\ todo[c] = <<>>
  /\ pending' = PendingAfterApply(Consumed(bad[c]), cfg[c])
  /\ lock' = None
  /\ outcome' = [outcome EXCEPT ![c] = IF Fatal(bad[c]) THEN "err" ELSE "ok"]
  /\ Goto(c, "rest")
  /\ bad' = [bad EXCEPT ![c] = {}]
  /\ UNCHANGED <<hardware, manual, control, report, jobState, cfg, todo>>

\* Mutants of MarkerAfter: a deferred apply counts as applied; a failed one
\* leaves the old marker.
MarkerIfDeferred(o, p) == IF o # "err" THEN p ELSE None
MarkerKept(o, p) == IF o = "ok" THEN p ELSE lastProfile

\* marker_after_apply, and the clearing of the marker on an error.
MarkerAfter(o, p) == IF o = "ok" THEN p ELSE None

\* The steps after the GPU one, any of which may fail, the marker, the reply.
FinishApply(c) ==
  /\ pc[c] = "rest"
  /\ \E o \in {outcome[c]} \cup (IF StepsMayFail THEN {"err"} ELSE {}) :
       /\ outcome' = [outcome EXCEPT ![c] = o]
       /\ lastProfile' = MarkerAfter(o, cfg[c])
  /\ End(c)
  /\ UNCHANGED <<hardware, manual, gpuState, gen, deferral, report, jobState, todo, bad>>

\* SetGpuCoreOffset: a direct call, one gated write.
SetGpuCoreOffset(v) ==
  /\ \E a \in Answers("core") : Effect([reg |-> "core", val |-> v], a)
  /\ UNCHANGED <<gate, control, deferral, report, jobState, threads>>

\* TakeDeferredGpuReport.
TakeReport ==
  /\ report.pending # None
  /\ report' = [report EXCEPT !.pending = None]
  /\ UNCHANGED <<hardware, manual, control, deferral, jobState, threads>>

(***************************************************************************)
(* The gpu_overclock job.                                                  *)
(***************************************************************************)
\* A tick begins with a copy of the settings.
Snapshot ==
  /\ pc[Job] = "idle"
  /\ cfg' = [cfg EXCEPT ![Job] = gpuState]
  /\ Goto(Job, "pend")
  /\ UNCHANGED <<hardware, manual, control, deferral, report, jobState, todo, bad, outcome>>

\* apply_pending_gpu with nothing to do, or refused by the pre-check.
NothingPending ==
  /\ pc[Job] = "pend" /\ lock = None /\ (pending = None \/ ~gate)
  /\ Goto(Job, "decide")
  /\ UNCHANGED <<hardware, manual, control, deferral, report, jobState, cfg, todo, bad, outcome>>

\* Mutant of BeginPending: the mutex is released before the writes.
BeginPendingUnlocked ==
  /\ pc[Job] = "pend" /\ lock = None /\ pending # None /\ gate
  /\ outcome' = [outcome EXCEPT ![Job] = pending.origin]
  /\ Begin(Job, "ops", StaticOps(Gpu[pending.settings]))
  /\ UNCHANGED <<hardware, manual, control, deferral, report, jobState, cfg>>

\* Mutant of BeginPending: the origin of the step is not handed on.
BeginPendingNoOrigin ==
  /\ pc[Job] = "pend" /\ lock = None /\ pending # None /\ gate
  /\ lock' = Job
  /\ Begin(Job, "ops", StaticOps(Gpu[pending.settings]))
  /\ UNCHANGED <<hardware, manual, control, pending, report, jobState, cfg, outcome>>

\* apply_pending_gpu attempts the step that is pending, with the mutex held.
BeginPending ==
  /\ pc[Job] = "pend" /\ lock = None /\ pending # None /\ gate
  /\ lock' = Job
  /\ outcome' = [outcome EXCEPT ![Job] = pending.origin]
  /\ Begin(Job, "ops", StaticOps(Gpu[pending.settings]))
  /\ UNCHANGED <<hardware, manual, control, pending, report, jobState, cfg>>

EndPending ==
  /\ pc[Job] = "ops" /\ todo[Job] = <<>>
  /\ lock' = None
  /\ IF Consumed(bad[Job])
     THEN pending' = None /\ Goto(Job, "publish")
     ELSE UNCHANGED pending /\ Goto(Job, "decide")
  /\ UNCHANGED <<hardware, manual, control, report, jobState, cfg, todo, bad, outcome>>

\* publish_deferred_gpu_report: the text of a report is its set of failures.
Published(r, origin, b) ==
  IF b = {}
  THEN [last |-> None,
        pending |-> IF origin = "ProfileApply" THEN [text |-> b, origin |-> origin]
                                               ELSE r.pending]
  ELSE IF r.last = b THEN r
  ELSE [last |-> b, pending |-> [text |-> b, origin |-> origin]]

Publish ==
  /\ pc[Job] = "publish"
  /\ report' = Published(report, outcome[Job], bad[Job])
  /\ Goto(Job, "decide")
  /\ UNCHANGED <<hardware, manual, control, deferral, jobState, cfg, todo, bad, outcome>>

\* has_oc.
HasOC(g) == g.manual \/ g.core \notin {None, 0} \/ g.clocks # Unlocked

\* reset_idle_oc_state.
ResetIdle(i, present, hasOC) ==
  IF i.seenGen # gen \/ ~present \/ ~hasOC
  THEN [since |-> "none", released |-> FALSE, relPending |-> FALSE,
        retry |-> TRUE, seenGen |-> gen]
  ELSE i

\* next_idle_since: the idle period starts at the first tick whose load is low.
NextSince(since, load, eligible) ==
  IF eligible /\ load = "low" THEN (IF since = "none" THEN "young" ELSE since)
                              ELSE "none"

\* Mutant of IdleAction: a release in doubt is never undone.
IdleActionForgets(eligible, i, load) ==
  IF ~eligible THEN "None"
  ELSE IF i.relPending /\ load = "high" THEN "Restore"
  ELSE IF ~i.released /\ gate /\ i.retry /\ i.since = "old" THEN "Release"
  ELSE "None"

\* idle_oc_action_with_retry; eligible is flag /\ has_oc.
IdleAction(eligible, i, load) ==
  IF ~eligible THEN "None"
  ELSE IF (i.released \/ i.relPending) /\ load = "high" THEN "Restore"
  ELSE IF ~i.released /\ gate /\ i.retry /\ i.since = "old" THEN "Release"
  ELSE "None"

\* Mutant of RunDynamic: a release that failed half-way does not count.
RunDynamicEarly(action, i) == action = "None" /\ ~i.released /\ i.since # "old"

\* should_run_gpu_dynamic, and no release under way.
RunDynamic(action, i) ==
  action = "None" /\ ~i.released /\ ~i.relPending /\ i.since # "old"

\* The idle-OC decision of a tick: load is what LAST_GPU_LOAD holds, "none" when
\* the last reading failed.
Decide(load) ==
  /\ pc[Job] = "decide"
  /\ LET s == cfg[Job]
         hasOC == s # None /\ HasOC(Gpu[s])
         eligible == hasOC /\ Gpu[s].idle
         i0 == ResetIdle(idle, s # None, hasOC)
         i1 == [i0 EXCEPT !.since =
                  NextSince(i0.since, load, eligible /\ gate /\ ~i0.released)]
         action == IdleAction(eligible, i1, load)
     IN /\ idle' = IF action = "Release"
                   THEN [i1 EXCEPT !.relPending = TRUE, !.retry = FALSE] ELSE i1
        /\ \/ /\ action = "Release"
              /\ Begin(Job, "rel", ReleaseOps)
              /\ UNCHANGED cfg
           \/ /\ action = "Restore" \/ RunDynamic(action, i1)
              /\ Goto(Job, IF action = "Restore" THEN "restore" ELSE "dyn")
              /\ bad' = [bad EXCEPT ![Job] = {}]
              /\ UNCHANGED <<cfg, todo>>
           \/ /\ action = "None" /\ ~RunDynamic(action, i1)
              /\ End(Job)
              /\ bad' = [bad EXCEPT ![Job] = {}]
              /\ UNCHANGED todo
  /\ outcome' = [outcome EXCEPT ![Job] = "ok"]
  /\ UNCHANGED <<hardware, manual, control, deferral, report, lastOffset>>

\* Mutant of EndRelease: the failures of the writes are ignored.
EndReleaseBlind ==
  /\ pc[Job] = "rel" /\ todo[Job] = <<>>
  /\ idle' = [idle EXCEPT !.since = "none", !.released = TRUE,
                          !.relPending = FALSE, !.retry = TRUE]
  /\ lastOffset' = 0
  /\ bad' = [bad EXCEPT ![Job] = {}]
  /\ End(Job)
  /\ UNCHANGED <<hardware, manual, control, deferral, report, todo, outcome>>

\* finish_idle_oc_release: only a release whose writes all succeeded counts.
EndRelease ==
  /\ pc[Job] = "rel" /\ todo[Job] = <<>>
  /\ IF bad[Job] = {}
     THEN /\ idle' = [idle EXCEPT !.since = "none", !.released = TRUE,
                                  !.relPending = FALSE, !.retry = TRUE]
          /\ lastOffset' = 0
     ELSE /\ idle' = [idle EXCEPT !.released = FALSE, !.relPending = TRUE]
          /\ UNCHANGED lastOffset
  /\ bad' = [bad EXCEPT ![Job] = {}]
  /\ End(Job)
  /\ UNCHANGED <<hardware, manual, control, deferral, report, todo, outcome>>

\* The restore queues the tick's copy of the settings, whatever is pending.
Restore ==
  /\ pc[Job] = "restore" /\ lock = None
  /\ pending' = [settings |-> cfg[Job], origin |-> "IdleRestore"]
  /\ idle' = [idle EXCEPT !.since = "none", !.released = FALSE,
                          !.relPending = FALSE, !.retry = TRUE]
  /\ End(Job)
  /\ UNCHANGED <<hardware, manual, control, lock, report, lastOffset, todo, bad, outcome>>

(***************************************************************************)
(* apply_gpu_overclocking, with the tick's copy of the settings.           *)
(***************************************************************************)
Steered(s) == s # None /\ Gpu[s].advanced /\ Gpu[s].manual

\* Without advanced control the last dynamic offset is forgotten; without
\* manual clocks a recorded offset is cleared as well, errors ignored.
DynamicOff ==
  /\ pc[Job] = "dyn" /\ ~Steered(cfg[Job])
  /\ lastOffset' = None
  /\ IF cfg[Job] # None /\ ~Gpu[cfg[Job]].manual /\ manual # 0 /\ gate
     THEN /\ \E a \in Answers("core") \cup {"GateClosed"} : Effect([reg |-> "core", val |-> 0], a)
          /\ Goto(Job, "clear") /\ UNCHANGED cfg
     ELSE End(Job) /\ UNCHANGED <<hw, manual>>
  /\ UNCHANGED <<gate, control, deferral, report, idle, todo, bad, outcome>>

\* The cleared offset is recorded, whatever has been written since.
DynamicCleared ==
  /\ pc[Job] = "clear"
  /\ manual' = 0 /\ End(Job)
  /\ UNCHANGED <<hardware, control, deferral, report, jobState, todo, bad, outcome>>

\* The gate is closed, or the telemetry shows no performance state.
DynamicSkip ==
  /\ pc[Job] = "dyn" /\ Steered(cfg[Job])
  /\ End(Job)
  /\ UNCHANGED <<hardware, manual, control, deferral, report, jobState, todo, bad, outcome>>

\* apply_offset_target: outside P0 the target is 0, at P0 what the curves give.
\* It is written when it changes, and remembered when the write succeeded.
DynamicOffset(target) ==
  /\ pc[Job] = "dyn" /\ Steered(cfg[Job]) /\ gate
  /\ lastOffset # target
  /\ \E a \in Answers("core") :
       /\ Effect([reg |-> "core", val |-> target], a)
       /\ lastOffset' = IF a = "ok" THEN target ELSE lastOffset
  /\ End(Job)
  /\ UNCHANGED <<gate, control, deferral, report, idle, todo, bad, outcome>>

(***************************************************************************)
(* The environment: the adapter suspends and resumes, time passes.         *)
(***************************************************************************)
GateFlips ==
  /\ gate' = ~gate
  /\ UNCHANGED <<hw, manual, control, deferral, report, jobState, threads>>

\* IDLE_RELEASE_AFTER, 30 s, goes by.  Two timing assumptions: a call takes
\* less, and so does the attempt of a step that is pending on an adapter which
\* every tick of these 30 s finds writable.
IdleElapses ==
  /\ idle.since = "young" /\ pending = None
  /\ \A c \in Calls : pc[c] = "idle"
  /\ idle' = [idle EXCEPT !.since = "old"]
  /\ UNCHANGED <<hardware, manual, control, deferral, report, lastOffset, threads>>

\* IDLE_RELEASE_RETRY_AFTER, 5 s, goes by.
RetryElapses ==
  /\ ~idle.retry
  /\ idle' = [idle EXCEPT !.retry = TRUE]
  /\ UNCHANGED <<hardware, manual, control, deferral, report, lastOffset, threads>>

CallStep(c) ==
  \/ SkipApplied(c) \/ StartApply(c) \/ CpuSteps(c)
  \/ DeferGpuStep(c) \/ BeginGpuStep(c) \/ Write(c) \/ EndGpuStep(c)
  \/ FinishApply(c)

JobStep ==
  \/ Snapshot \/ NothingPending \/ BeginPending \/ Write(Job) \/ EndPending
  \/ Publish \/ (\E load \in {"none", "low", "high"} : Decide(load))
  \/ EndRelease \/ Restore
  \/ DynamicOff \/ DynamicCleared \/ DynamicSkip \/ (\E v \in Offsets : DynamicOffset(v))

Next ==
  \/ \E c \in Calls : CallStep(c) \/ (\E p \in Profiles : ApplyProfile(c, p))
  \/ JobStep
  \/ TakeReport
  \/ \E v \in DirectOffsets : SetGpuCoreOffset(v)
  \/ GateFlips \/ IdleElapses \/ RetryElapses

Spec == Init /\ [][Next]_vars

\* The adapter is writable again and again for long enough, GPU work comes back
\* again and again, and the scheduler and the calls keep running.
Fairness ==
  /\ WF_vars(JobStep)
  /\ \A c \in Calls : WF_vars(CallStep(c))
  /\ SF_vars(Decide("high"))

FairSpec == Spec /\ Fairness

(***************************************************************************)
(* Properties.                                                             *)
(***************************************************************************)
Report == [text : Failures, origin : Origins]

\* Every variable has its type.
TypeOK ==
  /\ gate \in BOOLEAN
  /\ hw \in [core : Offsets, clocks : Clocks]
  /\ manual \in Offsets \cup {None}
  /\ gpuState \in Profiles \cup {None} /\ lastProfile \in Profiles \cup {None}
  /\ gen \in Nat
  /\ pending \in Step \cup {None}
  /\ lock \in Threads \cup {None}
  /\ report \in [pending : Report \cup {None}, last : Failures \cup {None}]
  /\ idle \in IdleState
  /\ lastOffset \in Offsets \cup {None}
  /\ pc \in [Threads -> CallPcs \cup JobPcs]
  /\ (\A c \in Calls : pc[c] \in CallPcs) /\ pc[Job] \in JobPcs
  /\ cfg \in [Threads -> Profiles \cup {None}]
  /\ \A c \in Calls : pc[c] # "idle" => cfg[c] # None
  /\ todo \in [Threads -> Seq(Op)]
  /\ bad \in [Threads -> Failures]
  /\ outcome \in [Threads -> {"ok", "deferred", "err"} \cup Origins]

\* Two static attempts never interleave their writes: a thread makes them
\* exactly while it holds the mutex of the pending slot.
StaticWritesExclusive == \A t \in Threads : pc[t] = "ops" <=> lock = t

\* While an applied profile's GPU step is deferred nothing counts as already
\* applied, so that going back to an older profile is not skipped
\* (marker_after_apply: A, then B deferred, then A).
MarkerClearedWhileDeferred ==
  pending # None /\ (\A c \in Calls : pc[c] # "rest") /\ lastProfile # None
    => pending.origin # "ProfileApply"

\* The registers that are written by profiles alone, and can be written.
ProfileRegs == Regs \ (Unsupported \cup IF DirectOffsets = {} THEN {} ELSE {"core"})

\* Those registers hold what profile p asks for.
Matches(p) ==
  \A r \in ProfileRegs :
    (r = "core" /\ Gpu[p].core = None) \/ hw[r] = Gpu[p][r]

\* A profile whose offset and clocks the job should leave as they are.
HoldsStill(p) == Gpu[p].manual /\ ~Gpu[p].advanced /\ ~Gpu[p].idle

\* The marker names a profile only while the adapter is in that profile, so
\* that skipping its next apply is right.
MarkerMeansHardware ==
  lastProfile # None /\ (\A c \in Calls : pc[c] \notin {"ops", "rest"})
    => (HoldsStill(lastProfile) => Matches(lastProfile))

\* A profile whose apply is over is on the adapter or still pending: neither a
\* gate that closes half-way nor a newer deferral loses it.
NothingLost ==
  /\ (\A c \in Calls : pc[c] = "idle") /\ lock = None
  /\ pending = None /\ gpuState # None /\ HoldsStill(gpuState)
  => Matches(gpuState)

\* No offset is steered on an adapter that is released, or whose release has
\* not succeeded yet.
NoSteeringWhileReleased ==
  pc[Job] = "dyn" => ~idle.released /\ ~idle.relPending

\* A released adapter is really cleared, however the writes of the attempts
\* before failed, until a newer apply, which bumps the generation.
ReleasedIsCleared ==
  idle.released /\ idle.seenGen = gen /\ (\A c \in Calls : pc[c] \notin {"ops", "rest"})
    /\ lock = None
    => hw.clocks = Unlocked /\ hw.core = 0

\* A marker and a pending step never disagree: hardware that is about to move
\* on cannot be skipped against a stale marker.
MarkerNamesPending ==
  lastProfile # None /\ pending # None /\ (\A c \in Calls : pc[c] = "idle")
    => pending.settings = lastProfile

\* Once the adapter stays writable a deferred step is applied or replaced.
DeferredEventuallyApplied == <>[]gate => [](pending # None => <>(pending = None))

\* Once the adapter stays writable, work that comes back gets the overclock
\* back: a release never outlives the idleness it was for.
WorkRestores ==
  <>[]gate =>
    []((idle.released /\ idle.seenGen = gen)
         => <>(gpuState # None /\ hw.clocks = Gpu[gpuState].clocks))
=============================================================================
