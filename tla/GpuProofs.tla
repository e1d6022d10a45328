------------------------------ MODULE GpuProofs ------------------------------
(***************************************************************************)
(* What GpuControl promises for every set of calls and profiles: the types   *)
(* and the mutex of the writes, that nothing is steered while a release is   *)
(* in force, and that a release leaves no offset.                            *)
(*                                                                         *)
(* And for one client, whose calls follow one another (the GUI's D-Bus       *)
(* worker): what the marker of the last applied profile means, and that a    *)
(* profile is in the adapter, pending or reported as failed.                 *)
(*                                                                         *)
(* And that the banner of the startup apply tells the truth, for one client, *)
(* any profiles and any number of applies.                                  *)
(***************************************************************************)
EXTENDS StartupApply, SequenceTheorems, TLAPS

\* The origin and the settings that a tick carries from one step to the next.
JobLocals ==
  /\ pc[Job] \in {"ops", "publish"} => outcome[Job] \in Origins
  /\ pc[Job] = "restore" => cfg[Job] # None

Inv == TypeOK /\ JobLocals

USE ConstantsOK

\* The writes of a static attempt, of any profile, are writes of known values.
LEMMA StaticOpsType ==
  ASSUME NEW g \in GpuSettings
  PROVE  StaticOps(g) \in Seq(Op)
<1>1. <<[reg |-> "clocks", val |-> g.clocks]>> \in Seq(Op)
  BY DEF GpuSettings, Op
<1>2. CASE g.core = None
  BY <1>1, <1>2 DEF StaticOps
<1>3. CASE g.core # None
  <2>1. <<[reg |-> "core", val |-> g.core]>> \in Seq(Op)
    BY <1>3 DEF GpuSettings, Op
  <2> QED  BY <1>1, <1>3, <2>1 DEF StaticOps
<1> QED  BY <1>2, <1>3

\* So are those of an idle release.
LEMMA ReleaseOpsType == ReleaseOps \in Seq(Op)
  BY DEF ReleaseOps, Op

\* A write either succeeds or fails in one of the three ways the code tells apart.
LEMMA AnswersType ==
  ASSUME NEW r, NEW a \in Answers(r)
  PROVE  a = "ok" \/ a \in Kinds
  BY DEF Answers, Kinds

\* The daemon starts in a state of the right type.
LEMMA InitInv == Init => Inv
  BY DEF Init, Inv, TypeOK, JobLocals, Regs, Threads, Origins, Failures, IdleState,
         CallPcs, JobPcs, Step, Report, Op

\* A write keeps the type of everything it changes.
LEMMA WriteInv ==
  ASSUME Inv, NEW t \in Threads, Write(t)
  PROVE  Inv'
<1> USE DEF Inv, TypeOK, JobLocals, hardware, control, deferral, jobState, threads
<1> DEFINE op == Head(todo[t])
<1>1. PICK a \in Answers(op.reg) :
        /\ Effect(op, a)
        /\ bad' = [bad EXCEPT ![t] = IF a = "ok" THEN @ ELSE @ \cup {<<op.reg, a>>}]
  BY DEF Write
<1>2. op \in Op /\ Tail(todo[t]) \in Seq(Op)
  BY DEF Write
<1>3. op.reg \in Regs
  BY <1>2 DEF Op, Regs
<1>4. bad' \in [Threads -> Failures]
  BY <1>1, <1>3, AnswersType DEF Failures
<1>5. hw' \in [core : Offsets, clocks : Clocks] /\ manual' \in Offsets \cup {None}
  BY <1>1, <1>2 DEF Effect, Op
<1>6. todo' \in [Threads -> Seq(Op)]
  BY <1>2 DEF Write
<1> QED  BY <1>4, <1>5, <1>6 DEF Write

\* Every step of an ApplyProfile call keeps the types.
LEMMA CallInv ==
  ASSUME Inv, NEW c \in Calls,
         CallStep(c) \/ (\E p \in Profiles : ApplyProfile(c, p))
  PROVE  Inv'
<1> USE DEF Inv, TypeOK, JobLocals, Threads, hardware, control, deferral, jobState, threads
<1>1. ASSUME NEW p \in Profiles, ApplyProfile(c, p) PROVE Inv'
  BY <1>1 DEF ApplyProfile, Goto, CallPcs
<1>2. CASE SkipApplied(c)
  BY <1>2 DEF SkipApplied, End, Goto, CallPcs
<1>3. CASE StartApply(c)
  BY <1>3 DEF StartApply, Goto, CallPcs
<1>4. CASE CpuSteps(c)
  <2>1. pc[c] = "cpu" /\ gen' \in Nat
    BY <1>4 DEF CpuSteps
  <2>2. CASE Goto(c, "gpu") /\ UNCHANGED outcome
    BY <1>4, <2>1, <2>2 DEF CpuSteps, Goto, CallPcs
  <2>3. CASE Goto(c, "rest") /\ outcome' = [outcome EXCEPT ![c] = "err"]
    BY <1>4, <2>1, <2>3 DEF CpuSteps, Goto, CallPcs
  <2> QED  BY <1>4, <2>2, <2>3 DEF CpuSteps
<1>5. CASE DeferGpuStep(c)
  BY <1>5 DEF DeferGpuStep, PendingAfterApply, ProfileStep, Step, Origins, Goto, CallPcs
<1>6. CASE BeginGpuStep(c)
  BY <1>6, StaticOpsType DEF BeginGpuStep, Begin, Goto, CallPcs, Failures
<1>7. CASE Write(c)
  BY <1>7, WriteInv
<1>8. CASE EndGpuStep(c)
  BY <1>8 DEF EndGpuStep, PendingAfterApply, ProfileStep, Step, Origins, Goto, CallPcs, Failures
<1>9. CASE FinishApply(c)
  BY <1>9 DEF FinishApply, MarkerAfter, End, Goto, CallPcs
<1> QED  BY <1>1, <1>2, <1>3, <1>4, <1>5, <1>6, <1>7, <1>8, <1>9 DEF CallStep

\* What is published is a report.
LEMMA PublishedType ==
  ASSUME NEW r \in [pending : Report \cup {None}, last : Failures \cup {None}],
         NEW origin \in Origins, NEW b \in Failures
  PROVE  Published(r, origin, b) \in [pending : Report \cup {None}, last : Failures \cup {None}]
  BY DEF Published, Report

\* A tick's decision keeps the type of the idle state.
LEMMA ResetIdleType ==
  ASSUME NEW i \in IdleState, gen \in Nat, NEW present \in BOOLEAN, NEW hasOC \in BOOLEAN
  PROVE  ResetIdle(i, present, hasOC) \in IdleState
  BY DEF ResetIdle, IdleState

\* The idle clock is unset, running or expired.
LEMMA NextSinceType ==
  ASSUME NEW since \in {"none", "young", "old"}, NEW load, NEW eligible
  PROVE  NextSince(since, load, eligible) \in {"none", "young", "old"}
  BY DEF NextSince

\* The job may set the clock and the retry of an idle state.
LEMMA IdleStateUpdate ==
  ASSUME NEW i \in IdleState, NEW b \in BOOLEAN
  PROVE  /\ [i EXCEPT !.retry = b] \in IdleState
         /\ [i EXCEPT !.relPending = TRUE, !.retry = b] \in IdleState
  BY DEF IdleState

\* A tick's decision keeps the types, and a restore has settings to restore.
LEMMA DecideInv ==
  ASSUME Inv, NEW load \in {"none", "low", "high"}, Decide(load)
  PROVE  Inv'
<1> USE DEF Inv, TypeOK, JobLocals, Threads, hardware, control, deferral, jobState, threads
<1> DEFINE s == cfg[Job]
           hasOC == s # None /\ HasOC(Gpu[s])
           eligible == hasOC /\ Gpu[s].idle
           i0 == ResetIdle(idle, s # None, hasOC)
           i1 == [i0 EXCEPT !.since =
                    NextSince(i0.since, load, eligible /\ gate /\ ~i0.released)]
           action == IdleAction(eligible, i1, load)
<1>1. i0 \in IdleState
  BY ResetIdleType
<1>2. i1 \in IdleState
  BY <1>1, NextSinceType DEF IdleState
<1>3. idle' \in IdleState
  <2>1. idle' = IF action = "Release"
                THEN [i1 EXCEPT !.relPending = TRUE, !.retry = FALSE] ELSE i1
    BY DEF Decide
  <2> HIDE DEF i1, action
  <2> QED  BY <1>2, <2>1, IdleStateUpdate
<1>4. CASE /\ action = "Release"
           /\ Begin(Job, "rel", ReleaseOps)
           /\ UNCHANGED cfg
  BY <1>3, <1>4, ReleaseOpsType DEF Decide, Begin, Goto, JobPcs, Failures
<1>5. CASE /\ action = "Restore" \/ RunDynamic(action, i1)
           /\ Goto(Job, IF action = "Restore" THEN "restore" ELSE "dyn")
           /\ bad' = [bad EXCEPT ![Job] = {}]
           /\ UNCHANGED <<cfg, todo>>
  <2>1. action = "Restore" => cfg[Job] # None
    BY DEF IdleAction
  <2>2. /\ pc' = [pc EXCEPT ![Job] = "restore"] /\ cfg[Job] # None
        \/ pc' = [pc EXCEPT ![Job] = "dyn"]
    BY <1>5, <2>1 DEF Goto
  <2>3. bad' \in [Threads -> Failures] /\ UNCHANGED <<cfg, todo>>
    BY <1>5 DEF Failures
  <2>4. /\ outcome' = [outcome EXCEPT ![Job] = "ok"]
        /\ UNCHANGED <<hardware, manual, control, deferral, report, lastOffset>>
    BY DEF Decide
  <2>5. pc' \in [Threads -> CallPcs \cup JobPcs] /\ pc'[Job] \in JobPcs /\ \A c \in Calls : pc'[c] = pc[c]
    BY <1>3, <2>2 DEF JobPcs
  <2> QED  BY <1>3, <2>2, <2>3, <2>4, <2>5
<1>6. CASE /\ action = "None" /\ ~RunDynamic(action, i1)
           /\ End(Job)
           /\ bad' = [bad EXCEPT ![Job] = {}]
           /\ UNCHANGED todo
  BY <1>3, <1>6 DEF Decide, End, Goto, JobPcs, Failures
<1> QED  BY <1>4, <1>5, <1>6 DEF Decide

\* Every step of the gpu_overclock job keeps the types.
LEMMA JobInv ==
  ASSUME Inv, JobStep
  PROVE  Inv'
<1> USE DEF Inv, TypeOK, JobLocals, Threads, hardware, control, deferral, jobState, threads
<1>1. CASE Snapshot
  BY <1>1 DEF Snapshot, Goto, JobPcs
<1>2. CASE NothingPending
  BY <1>2 DEF NothingPending, Goto, JobPcs
<1>3. CASE BeginPending
  <2>1. pending \in Step /\ Gpu[pending.settings] \in GpuSettings
    BY <1>3 DEF BeginPending, Step
  <2> QED  BY <1>3, <2>1, StaticOpsType DEF BeginPending, Begin, Goto, JobPcs, Step, Origins, Failures
<1>4. CASE Write(Job)
  BY <1>4, WriteInv
<1>5. CASE EndPending
  BY <1>5 DEF EndPending, Goto, JobPcs
<1>6. CASE Publish
  BY <1>6, PublishedType DEF Publish, Goto, JobPcs
<1>7. ASSUME NEW load \in {"none", "low", "high"}, Decide(load) PROVE Inv'
  BY <1>7, DecideInv
<1>8. CASE EndRelease
  <2>1. idle' \in IdleState
    <3>1. /\ [idle EXCEPT !.since = "none", !.released = TRUE,
                          !.relPending = FALSE, !.retry = TRUE] \in IdleState
          /\ [idle EXCEPT !.released = FALSE, !.relPending = TRUE] \in IdleState
      BY DEF IdleState
    <3> QED  BY <1>8, <3>1 DEF EndRelease
  <2>2. lastOffset' \in Offsets \cup {None} /\ bad' \in [Threads -> Failures]
    BY <1>8 DEF EndRelease, Failures
  <2>3. /\ pc' = [pc EXCEPT ![Job] = "idle"] /\ cfg' = [cfg EXCEPT ![Job] = None]
        /\ UNCHANGED <<hardware, manual, control, deferral, report, todo, outcome>>
    BY <1>8 DEF EndRelease, End, Goto
  <2> QED  BY <2>1, <2>2, <2>3 DEF JobPcs
<1>9. CASE Restore
  <2>1. idle' \in IdleState
    <3>1. [idle EXCEPT !.since = "none", !.released = FALSE,
                       !.relPending = FALSE, !.retry = TRUE] \in IdleState
      BY DEF IdleState
    <3> QED  BY <1>9, <3>1 DEF Restore
  <2>2. pending' \in Step \cup {None}
    BY <1>9 DEF Restore, Step, Origins
  <2>3. /\ pc' = [pc EXCEPT ![Job] = "idle"] /\ cfg' = [cfg EXCEPT ![Job] = None]
        /\ UNCHANGED <<hardware, manual, control, lock, report, lastOffset, todo, bad, outcome>>
    BY <1>9 DEF Restore, End, Goto
  <2> QED  BY <2>1, <2>2, <2>3 DEF JobPcs
<1>10. CASE DynamicOff \/ DynamicCleared
  <2>1. /\ UNCHANGED <<gate, control, deferral, report, idle, todo, bad, outcome>>
        /\ lastOffset' \in {lastOffset, None} /\ hw' \in {hw, [hw EXCEPT !["core"] = 0]} /\ manual' \in {manual, 0}
    BY <1>10 DEF DynamicOff, DynamicCleared, Effect
  <2>2. cfg' \in {cfg, [cfg EXCEPT ![Job] = None]} /\ \E l \in {"clear", "idle"} : pc' = [pc EXCEPT ![Job] = l]
    BY <1>10 DEF DynamicOff, DynamicCleared, End, Goto
  <2>3. /\ pc' \in [Threads -> CallPcs \cup JobPcs] /\ pc'[Job] \in JobPcs
        /\ \A c \in Calls : pc'[c] = pc[c] /\ cfg'[c] = cfg[c]
        /\ pc'[Job] \notin {"ops", "publish", "restore"}
    BY <2>2 DEF JobPcs
  <2>4. cfg' \in [Threads -> Profiles \cup {None}]
    BY <2>2
  <2>5. hw' \in [core : Offsets, clocks : Clocks] /\ manual' \in Offsets \cup {None}
        /\ lastOffset' \in Offsets \cup {None}
    BY <2>1, ConstantsOK
  <2> QED  BY <2>1, <2>3, <2>4, <2>5
<1>11. CASE DynamicSkip
  BY <1>11 DEF DynamicSkip, End, Goto, JobPcs
<1>12. ASSUME NEW v \in Offsets, DynamicOffset(v) PROVE Inv'
  BY <1>12 DEF DynamicOffset, Effect, End, Goto, JobPcs
<1> QED  BY <1>1, <1>2, <1>3, <1>4, <1>5, <1>6, <1>7, <1>8, <1>9, <1>10, <1>11, <1>12
         DEF JobStep

\* So do the other calls, the adapter and the clock.
LEMMA EnvironmentInv ==
  ASSUME Inv,
         TakeReport \/ (\E v \in DirectOffsets : SetGpuCoreOffset(v))
           \/ GateFlips \/ IdleElapses \/ RetryElapses
  PROVE  Inv'
<1> USE DEF Inv, TypeOK, JobLocals, hardware, control, deferral, jobState, threads
<1>1. CASE TakeReport
  BY <1>1 DEF TakeReport
<1>2. ASSUME NEW v \in DirectOffsets, SetGpuCoreOffset(v) PROVE Inv'
  <2>1. hw' \in [core : Offsets, clocks : Clocks] /\ manual' \in Offsets \cup {None}
    <3>1. PICK a \in Answers("core") : Effect([reg |-> "core", val |-> v], a)
      BY <1>2 DEF SetGpuCoreOffset
    <3>2. hw' = hw \/ hw' = [hw EXCEPT !.core = v]
      BY <3>1 DEF Effect
    <3>3. manual' = manual \/ manual' = v
      BY <3>1 DEF Effect
    <3> QED  BY <3>2, <3>3
  <2> QED  BY <1>2, <2>1 DEF SetGpuCoreOffset
<1>3. CASE GateFlips
  BY <1>3 DEF GateFlips
<1>4. CASE IdleElapses
  <2>1. [idle EXCEPT !.since = "old"] \in IdleState
    BY DEF IdleState
  <2> QED  BY <1>4, <2>1 DEF IdleElapses
<1>5. CASE RetryElapses
  <2>1. idle' \in IdleState
    BY <1>5, IdleStateUpdate DEF RetryElapses
  <2> QED  BY <1>5, <2>1 DEF RetryElapses
<1> QED  BY <1>1, <1>2, <1>3, <1>4, <1>5

\* The invariant is inductive.
LEMMA NextInv == Inv /\ [Next]_vars => Inv'
<1> SUFFICES ASSUME Inv, [Next]_vars PROVE Inv'
  OBVIOUS
<1>1. CASE UNCHANGED vars
  BY <1>1 DEF vars, Inv, TypeOK, JobLocals, hardware, control, deferral, jobState, threads
<1> QED  BY <1>1, CallInv, JobInv, EnvironmentInv DEF Next

\* Every variable keeps its type: what the daemon's threads exchange through
\* the shared globals is always a value the reader of the global can take.
THEOREM TypeCorrect == Spec => []TypeOK
<1>1. Inv => TypeOK
  BY DEF Inv
<1> QED  BY <1>1, InitInv, NextInv, PTL DEF Spec

(***************************************************************************)
(* The mutex of the pending slot and the idle release.                     *)
(***************************************************************************)
\* At the start nobody writes and nobody holds the mutex.
LEMMA InitExclusive == Init => StaticWritesExclusive
  BY DEF Init, StaticWritesExclusive, Threads

\* A thread takes the mutex as it starts to write, and lets it go as it stops.
LEMMA NextExclusive == Inv /\ StaticWritesExclusive /\ [Next]_vars => StaticWritesExclusive'
<1> SUFFICES ASSUME Inv, StaticWritesExclusive, [Next]_vars
             PROVE  StaticWritesExclusive'
  OBVIOUS
<1> USE DEF Inv, TypeOK, StaticWritesExclusive, Threads, deferral, threads, Goto
<1>1. ASSUME NEW c \in Calls, CallStep(c) \/ (\E p \in Profiles : ApplyProfile(c, p))
      PROVE  StaticWritesExclusive'
  <2>1. CASE BeginGpuStep(c)
    BY <2>1 DEF BeginGpuStep, Begin
  <2>2. CASE EndGpuStep(c)
    BY <2>2 DEF EndGpuStep
  <2>3. CASE ~BeginGpuStep(c) /\ ~EndGpuStep(c)
    <3>1. UNCHANGED lock
      BY <1>1, <2>3 DEF CallStep, ApplyProfile, SkipApplied, StartApply, CpuSteps,
                        DeferGpuStep, Write, FinishApply
    <3>2. \/ UNCHANGED pc
          \/ pc[c] # "ops" /\ \E l \in CallPcs \ {"ops"} : Goto(c, l)
      BY <1>1, <2>3 DEF CallStep, ApplyProfile, SkipApplied, StartApply, CpuSteps,
                        DeferGpuStep, Write, FinishApply, End, CallPcs
    <3> QED  BY <3>1, <3>2
  <2> QED  BY <2>1, <2>2, <2>3
<1>2. ASSUME JobStep PROVE StaticWritesExclusive'
  <2>1. CASE BeginPending
    BY <2>1 DEF BeginPending, Begin
  <2>2. CASE EndPending
    BY <2>2 DEF EndPending
  <2>3. CASE ~BeginPending /\ ~EndPending
    <3>1. UNCHANGED lock
      BY <1>2, <2>3 DEF JobStep, Snapshot, NothingPending, Write, Publish, Decide, EndRelease,
                        Restore, DynamicOff, DynamicCleared, DynamicSkip, DynamicOffset
    <3>2. \/ UNCHANGED pc
          \/ pc[Job] # "ops" /\ \E l \in JobPcs \ {"ops"} : Goto(Job, l)
      BY <1>2, <2>3 DEF JobStep, Snapshot, NothingPending, Write, Publish, Decide, EndRelease,
                        Restore, DynamicOff, DynamicCleared, DynamicSkip, DynamicOffset, End, Begin, JobPcs
    <3> QED  BY <3>1, <3>2
  <2> QED  BY <2>1, <2>2, <2>3
<1>3. ASSUME UNCHANGED <<lock, pc>> PROVE StaticWritesExclusive'
  BY <1>3
<1>4. TakeReport \/ (\E v \in DirectOffsets : SetGpuCoreOffset(v))
        \/ GateFlips \/ IdleElapses \/ RetryElapses \/ UNCHANGED vars
      => UNCHANGED <<lock, pc>>
  BY DEF TakeReport, SetGpuCoreOffset, GateFlips, IdleElapses, RetryElapses, vars
<1> QED  BY <1>1, <1>2, <1>3, <1>4 DEF Next

\* Whatever the number of calls in flight, the writes of a static attempt
\* (apply_gpu_static) are made by exactly the thread that holds the mutex of
\* PENDING_GPU_SETTINGS: two profiles never interleave on the adapter.
THEOREM WritesExclusive == Spec => []StaticWritesExclusive
  BY InitInv, NextInv, InitExclusive, NextExclusive, PTL DEF Spec

\* The job does not steer at the start.
LEMMA InitSteering == Init => NoSteeringWhileReleased
  BY DEF Init, NoSteeringWhileReleased, Threads

\* A tick that decides to steer has seen neither a release nor one under way.
LEMMA DecideSteering ==
  ASSUME Inv, NEW load \in {"none", "low", "high"}, Decide(load)
  PROVE  NoSteeringWhileReleased'
<1> DEFINE s == cfg[Job]
           hasOC == s # None /\ HasOC(Gpu[s])
           eligible == hasOC /\ Gpu[s].idle
           i0 == ResetIdle(idle, s # None, hasOC)
           i1 == [i0 EXCEPT !.since =
                    NextSince(i0.since, load, eligible /\ gate /\ ~i0.released)]
           action == IdleAction(eligible, i1, load)
<1>1. pc \in [Threads -> CallPcs \cup JobPcs] /\ Job \in Threads
  BY DEF Inv, TypeOK, Threads
<1>2. ASSUME pc'[Job] = "dyn"
      PROVE  RunDynamic(action, i1) /\ idle' = i1
  BY <1>1, <1>2 DEF Decide, Begin, End, Goto, RunDynamic
<1> QED  BY <1>2 DEF RunDynamic, NoSteeringWhileReleased

\* Only a tick's decision starts to steer, and nothing else changes the idle state then.
LEMMA NextSteering == Inv /\ NoSteeringWhileReleased /\ [Next]_vars => NoSteeringWhileReleased'
<1> SUFFICES ASSUME Inv, NoSteeringWhileReleased, [Next]_vars
             PROVE  NoSteeringWhileReleased'
  OBVIOUS
<1> USE DEF Inv, TypeOK, NoSteeringWhileReleased, Threads, jobState, threads, Goto
<1>1. ASSUME NEW c \in Calls, CallStep(c) \/ (\E p \in Profiles : ApplyProfile(c, p))
      PROVE  NoSteeringWhileReleased'
  <2>1. UNCHANGED idle /\ UNCHANGED pc[Job]
    BY <1>1 DEF CallStep, ApplyProfile, SkipApplied, StartApply, CpuSteps, DeferGpuStep,
                BeginGpuStep, EndGpuStep, Write, FinishApply, End, Begin
  <2> QED  BY <2>1
<1>2. ASSUME NEW load \in {"none", "low", "high"}, Decide(load)
      PROVE  NoSteeringWhileReleased'
  BY <1>2, DecideSteering
<1>3. ASSUME JobStep, \A load \in {"none", "low", "high"} : ~Decide(load)
      PROVE  NoSteeringWhileReleased'
  <2>1. pc'[Job] # "dyn"
    BY <1>3 DEF JobStep, Snapshot, NothingPending, BeginPending, Write, EndPending, Publish,
                EndRelease, Restore, DynamicOff, DynamicCleared, DynamicSkip, DynamicOffset, End, Begin
  <2> QED  BY <2>1
<1>4. ASSUME UNCHANGED pc, UNCHANGED idle.released, UNCHANGED idle.relPending
      PROVE  NoSteeringWhileReleased'
  BY <1>4
<1>5. TakeReport \/ (\E v \in DirectOffsets : SetGpuCoreOffset(v))
        \/ GateFlips \/ IdleElapses \/ RetryElapses \/ UNCHANGED vars
      => UNCHANGED pc /\ UNCHANGED idle.released /\ UNCHANGED idle.relPending
  BY DEF TakeReport, SetGpuCoreOffset, GateFlips, IdleElapses, RetryElapses, vars, IdleState
<1> QED  BY <1>1, <1>2, <1>3, <1>4, <1>5 DEF Next

\* The poll job steers no offset on an adapter whose overclock it has released,
\* or whose release it is still retrying.
THEOREM SteeringStops == Spec => []NoSteeringWhileReleased
  BY InitInv, NextInv, InitSteering, NextSteering, PTL DEF Spec

-----------------------------------------------------------------------------
(* The adapter and the marker.                                             *)

\* A call about to set the marker has left no step of its own pending.
CleanOutcome(c) ==
  pc[c] = "rest" /\ outcome[c] = "ok"
    => (pending # None => pending.origin # "ProfileApply")

\* The job touches neither the marker nor a call's locals.
LEMMA JobKeepsCalls ==
  ASSUME Inv, JobStep, NEW c \in Calls
  PROVE  /\ UNCHANGED control
         /\ UNCHANGED pc[c] /\ UNCHANGED cfg[c] /\ UNCHANGED todo[c]
         /\ UNCHANGED bad[c] /\ UNCHANGED outcome[c]
<1> USE DEF Inv, TypeOK, Threads, Goto, Begin, End, threads
<1>1. c # Job
  OBVIOUS
<1>2. CASE Snapshot \/ NothingPending \/ BeginPending \/ Write(Job) \/ EndPending \/ Publish
  BY <1>1, <1>2 DEF Snapshot, NothingPending, BeginPending, Write, EndPending, Publish
<1>3. ASSUME NEW load \in {"none", "low", "high"}, Decide(load)
      PROVE  /\ UNCHANGED control
             /\ UNCHANGED pc[c] /\ UNCHANGED cfg[c] /\ UNCHANGED todo[c]
             /\ UNCHANGED bad[c] /\ UNCHANGED outcome[c]
  BY <1>1, <1>3 DEF Decide
<1>4. CASE EndRelease \/ Restore \/ DynamicOff \/ DynamicCleared \/ DynamicSkip
  BY <1>1, <1>4 DEF EndRelease, Restore, DynamicOff, DynamicCleared, DynamicSkip
<1>5. ASSUME NEW v \in Offsets, DynamicOffset(v)
      PROVE  /\ UNCHANGED control
             /\ UNCHANGED pc[c] /\ UNCHANGED cfg[c] /\ UNCHANGED todo[c]
             /\ UNCHANGED bad[c] /\ UNCHANGED outcome[c]
  BY <1>1, <1>5 DEF DynamicOffset
<1> QED  BY <1>2, <1>3, <1>4, <1>5 DEF JobStep

\* A deferral and the marker are kept apart by every step.
LEMMA NextCleared ==
  ASSUME NEW c, Calls = {c}, Inv, CleanOutcome(c), MarkerClearedWhileDeferred, [Next]_vars
  PROVE  CleanOutcome(c)' /\ MarkerClearedWhileDeferred'
<1> USE DEF Inv, TypeOK, CleanOutcome, MarkerClearedWhileDeferred, Threads,
            control, deferral, threads, Goto
<1>1. ASSUME NEW p \in Profiles, ApplyProfile(c, p)
      PROVE  CleanOutcome(c)' /\ MarkerClearedWhileDeferred'
  BY <1>1 DEF ApplyProfile
<1>2. CASE SkipApplied(c) \/ StartApply(c) \/ CpuSteps(c)
  BY <1>2 DEF SkipApplied, StartApply, CpuSteps, End
<1>3. CASE DeferGpuStep(c)
  BY <1>3 DEF DeferGpuStep
<1>4. CASE BeginGpuStep(c) \/ Write(c)
  BY <1>4 DEF BeginGpuStep, Write, Begin
<1>5. CASE EndGpuStep(c)
  <2>1. ~Fatal(bad[c]) => Consumed(bad[c])
    BY DEF Fatal, Consumed, HasGate
  <2> QED  BY <1>5, <2>1 DEF EndGpuStep, PendingAfterApply
<1>6. CASE FinishApply(c)
  BY <1>6 DEF FinishApply, MarkerAfter, End
<1>7. CASE JobStep
  <2>1. UNCHANGED lastProfile /\ UNCHANGED pc[c] /\ UNCHANGED outcome[c]
    BY <1>7, JobKeepsCalls
  <2>2. CASE EndPending \/ Restore
    BY <2>1, <2>2 DEF EndPending, Restore
  <2>3. CASE ~EndPending /\ ~Restore
    <3>1. UNCHANGED pending
      BY <1>7, <2>3 DEF JobStep, Snapshot, NothingPending, BeginPending, Write, Publish,
                        Decide, EndRelease, DynamicOff, DynamicCleared, DynamicSkip, DynamicOffset
    <3> QED  BY <2>1, <3>1
  <2> QED  BY <2>2, <2>3
<1>8. CASE \/ TakeReport \/ (\E v \in DirectOffsets : SetGpuCoreOffset(v))
           \/ GateFlips \/ IdleElapses \/ RetryElapses \/ UNCHANGED vars
  BY <1>8 DEF TakeReport, SetGpuCoreOffset, GateFlips, IdleElapses, RetryElapses, vars
<1> QED  BY <1>1, <1>2, <1>3, <1>4, <1>5, <1>6, <1>7, <1>8 DEF Next, CallStep

\* With one client, nothing counts as already applied while the GPU step of an
\* applied profile is pending (marker_after_apply): going back from the
\* deferred profile to the one before it is never skipped.
THEOREM MarkerCleared ==
  ASSUME NEW c, Calls = {c}
  PROVE  Spec => []MarkerClearedWhileDeferred
<1>1. Init => CleanOutcome(c) /\ MarkerClearedWhileDeferred
  BY DEF Init, CleanOutcome, MarkerClearedWhileDeferred, Threads
<1>2. Inv /\ CleanOutcome(c) /\ MarkerClearedWhileDeferred /\ [Next]_vars
        => CleanOutcome(c)' /\ MarkerClearedWhileDeferred'
  BY NextCleared
<1> QED  BY InitInv, NextInv, <1>1, <1>2, PTL DEF Spec

(***************************************************************************)
(* Profiles that the poll job leaves alone: the marker means hardware.     *)
(***************************************************************************)
AllStill == \A p \in Profiles : HoldsStill(p)

RegOn(h, r, p) == (r = "core" /\ Gpu[p].core = None) \/ h[r] = Gpu[p][r]
RegMatches(r, p) == RegOn(hw, r, p)

\* Half-way through its writes ops, with the failures b, an attempt of p has
\* written, has failed on, or has yet to write each register of the hardware h,
\* and writes nothing but what p asks for.
Course(h, ops, b, p) ==
  /\ \A i \in DOMAIN ops : ops[i].val = Gpu[p][ops[i].reg]
  /\ \A r \in ProfileRegs :
       \/ RegOn(h, r, p)
       \/ \E i \in DOMAIN ops : ops[i].reg = r
       \/ \E k \in {"GateClosed", "Failed"} : <<r, k>> \in b

Attempt(c) == Course(hw, todo[c], bad[c], cfg[c])

\* No idle release happens, so nothing but an applied profile is ever pending.
NoRestore == pending # None => pending.origin = "ProfileApply"

StillInv(c) ==
  /\ pc[Job] \notin {"rel", "restore"}
  /\ pc[Job] = "ops" => pending # None
  /\ pc[c] = "ops" => Attempt(c)
  /\ pc[c] = "rest" /\ outcome[c] = "ok" => pending = None /\ Matches(cfg[c])
  /\ lastProfile # None /\ pc[c] \notin {"ops", "rest"}
       => pending = None /\ Matches(lastProfile)

\* On such profiles the job writes only what is pending.
LEMMA JobWrites ==
  ASSUME AllStill, Inv, JobStep, pc[Job] \notin {"rel", "restore"}
  PROVE  /\ UNCHANGED hw \/ pc[Job] = "ops"
         /\ pc'[Job] \notin {"rel", "restore"}
<1> USE DEF Inv, TypeOK, hardware, threads, Goto, Threads
<1>1. ASSUME NEW load \in {"none", "low", "high"}, Decide(load)
      PROVE  UNCHANGED hw /\ pc'[Job] \notin {"rel", "restore"}
  <2> DEFINE s == cfg[Job]
             hasOC == s # None /\ HasOC(Gpu[s])
             eligible == hasOC /\ Gpu[s].idle
             i0 == ResetIdle(idle, s # None, hasOC)
             i1 == [i0 EXCEPT !.since =
                      NextSince(i0.since, load, eligible /\ gate /\ ~i0.released)]
             action == IdleAction(eligible, i1, load)
  <2>1. ~eligible
    BY DEF AllStill, HoldsStill
  <2>2. action = "None"
    BY <2>1 DEF IdleAction
  <2> QED  BY <1>1, <2>2 DEF Decide, End
<1>2. CASE DynamicOff
  <2>1. cfg[Job] # None => Gpu[cfg[Job]].manual
    BY DEF AllStill, HoldsStill
  <2> QED  BY <1>2, <2>1 DEF DynamicOff, End
<1>3. ASSUME NEW v \in Offsets, DynamicOffset(v) PROVE FALSE
  BY <1>3 DEF DynamicOffset, Steered, AllStill, HoldsStill
<1>4. CASE Snapshot \/ NothingPending \/ BeginPending \/ EndPending \/ Publish
  BY <1>4 DEF Snapshot, NothingPending, BeginPending, EndPending, Publish, Begin
<1>5. CASE Write(Job) \/ EndRelease \/ Restore \/ DynamicCleared \/ DynamicSkip
  BY <1>5 DEF Write, EndRelease, Restore, DynamicCleared, DynamicSkip, End
<1> QED  BY <1>1, <1>2, <1>3, <1>4, <1>5 DEF JobStep

\* A write of a thread keeps its attempt on course.
LEMMA WriteCourse ==
  ASSUME NEW t \in Threads, NEW p \in Profiles, Inv, Course(hw, todo[t], bad[t], p), Write(t)
  PROVE  Course(hw', todo'[t], bad'[t], p)
<1> USE DEF Inv, TypeOK, threads, Threads
<1> DEFINE op == Head(todo[t])
           g == Gpu[p]
<1>1. PICK a \in Answers(op.reg) :
        /\ Effect(op, a)
        /\ bad' = [bad EXCEPT ![t] = IF a = "ok" THEN @ ELSE @ \cup {<<op.reg, a>>}]
  BY DEF Write
<1>2. /\ todo[t] \in Seq(Op) /\ todo[t] # <<>>
      /\ todo'[t] = Tail(todo[t])
      /\ op = todo[t][1] /\ 1 \in DOMAIN todo[t] /\ op \in Op
  BY DEF Write
<1>3. \A i \in DOMAIN todo'[t] : i + 1 \in DOMAIN todo[t] /\ todo'[t][i] = todo[t][i + 1]
  BY <1>2
<1>4. \A i \in DOMAIN todo[t] : i = 1 \/ (i - 1 \in DOMAIN todo'[t] /\ todo'[t][i - 1] = todo[t][i])
  BY <1>2
<1>5. \A i \in DOMAIN todo'[t] : todo'[t][i].val = g[todo'[t][i].reg]
  BY <1>2, <1>3 DEF Course
<1>6. ASSUME NEW r \in ProfileRegs
      PROVE  \/ RegOn(hw', r, p)
             \/ \E i \in DOMAIN todo'[t] : todo'[t][i].reg = r
             \/ \E k \in {"GateClosed", "Failed"} : <<r, k>> \in bad'[t]
  <2>1. CASE op.reg = r /\ a = "ok"
    <3>1. hw'[r] = g[r]
      BY <1>1, <1>2, <2>1 DEF Effect, Course, Op
    <3> QED  BY <1>2, <3>1 DEF RegOn
  <2>2. CASE op.reg = r /\ a # "ok"
    <3>1. a \in {"GateClosed", "Failed"}
      BY <2>2 DEF Answers, ProfileRegs
    <3>2. <<r, a>> \in bad'[t]
      BY <1>1, <2>2
    <3> QED  BY <3>1, <3>2
  <2>3. CASE op.reg # r
    <3>1. RegOn(hw, r, p) => RegOn(hw', r, p)
      BY <1>1, <1>2, <2>3 DEF RegOn, Effect
    <3>2. (\E i \in DOMAIN todo[t] : todo[t][i].reg = r)
            => \E i \in DOMAIN todo'[t] : todo'[t][i].reg = r
      <4>1. ASSUME NEW i \in DOMAIN todo[t], todo[t][i].reg = r
            PROVE  i - 1 \in DOMAIN todo'[t] /\ todo'[t][i - 1].reg = r
        <5>1. i # 1
          BY <1>2, <2>3, <4>1
        <5> QED  BY <1>4, <4>1, <5>1
      <4> QED  BY <4>1
    <3>3. bad[t] \subseteq bad'[t]
      BY <1>1
    <3> QED  BY <3>1, <3>2, <3>3 DEF Course
  <2> QED  BY <2>1, <2>2, <2>3
<1> QED  BY <1>2, <1>5, <1>6 DEF Course

LEMMA WriteAttempt ==
  ASSUME NEW c \in Calls, Inv, Attempt(c), pc[c] = "ops", Write(c)
  PROVE  Attempt(c)'
<1>1. cfg[c] \in Profiles /\ cfg' = cfg /\ c \in Threads
  BY DEF Inv, TypeOK, Threads, Write
<1> QED  BY <1>1, WriteCourse DEF Attempt

\* The two writes of an attempt, as a sequence.
LEMMA Pair ==
  ASSUME NEW S, NEW x \in S, NEW y \in S
  PROVE  <<x>> \o <<y>> = <<x, y>>
<1>1. <<x>> \in Seq(S) /\ <<y>> \in Seq(S) /\ <<x, y>> \in Seq(S)
  OBVIOUS
<1>2. /\ <<x>> \o <<y>> \in Seq(S) /\ Len(<<x>> \o <<y>>) = 2
      /\ \A i \in 1 .. 2 : (<<x>> \o <<y>>)[i] = IF i <= 1 THEN x ELSE y
  BY <1>1, ConcatProperties
<1>3. Len(<<x, y>>) = 2 /\ \A i \in 1 .. 2 : <<x, y>>[i] = IF i <= 1 THEN x ELSE y
  OBVIOUS
<1> QED  BY <1>1, <1>2, <1>3, SeqEqual

\* An attempt starts with every register ahead of it.
LEMMA BeginCourse ==
  ASSUME NEW p \in Profiles, NEW h, NEW b
  PROVE  Course(h, StaticOps(Gpu[p]), b, p)
<1> DEFINE g == Gpu[p]
           ops == StaticOps(g)
<1>1. g \in GpuSettings
  OBVIOUS
<1>2. CASE g.core = None
  <2>1. ops = <<[reg |-> "clocks", val |-> g.clocks]>>
    BY <1>2 DEF StaticOps
  <2>2. DOMAIN ops = {1}
    BY <2>1
  <2> QED  BY <1>2, <2>1, <2>2 DEF Course, ProfileRegs, Regs, RegOn
<1>3. CASE g.core # None
  <2>1. ops = <<[reg |-> "core", val |-> g.core], [reg |-> "clocks", val |-> g.clocks]>>
    <3>1. ops = <<[reg |-> "core", val |-> g.core]>> \o <<[reg |-> "clocks", val |-> g.clocks]>>
      BY <1>3 DEF StaticOps
    <3>2. [reg |-> "core", val |-> g.core] \in Op /\ [reg |-> "clocks", val |-> g.clocks] \in Op
      BY <1>1, <1>3 DEF GpuSettings, Op
    <3> QED  BY <3>1, <3>2, Pair
  <2>2. DOMAIN ops = {1, 2}
    BY <2>1
  <2>3. \A i \in DOMAIN ops : ops[i].val = g[ops[i].reg]
    BY <2>1, <2>2
  <2>4. \A r \in Regs : \E i \in DOMAIN ops : ops[i].reg = r
    <3>1. ops[1].reg = "core" /\ ops[2].reg = "clocks"
      BY <2>1
    <3> QED  BY <2>2, <3>1 DEF Regs
  <2> QED  BY <2>3, <2>4 DEF Course, ProfileRegs
<1> QED  BY <1>2, <1>3

LEMMA BeginAttempt ==
  ASSUME NEW c \in Calls, Inv, BeginGpuStep(c)
  PROVE  Attempt(c)'
<1>1. cfg' = cfg /\ cfg[c] \in Profiles /\ todo'[c] = StaticOps(Gpu[cfg[c]])
  BY DEF BeginGpuStep, Begin, Inv, TypeOK, Threads
<1> QED  BY <1>1, BeginCourse DEF Attempt

\* A profile is on the adapter when each of its registers is.
LEMMA MatchesRegs == \A p : Matches(p) <=> \A r \in ProfileRegs : RegMatches(r, p)
  BY DEF Matches, RegMatches, RegOn

\* An attempt that ends without a fatal failure has matched every register.
LEMMA AttemptMatches ==
  ASSUME NEW c \in Calls, Inv, Attempt(c), todo[c] = <<>>, ~Fatal(bad[c])
  PROVE  Matches(cfg[c])
<1>1. \A r \in ProfileRegs : r \in Regs
  BY DEF ProfileRegs
<1>2. \A r \in Regs : \A k \in {"GateClosed", "Failed"} : <<r, k>> \notin bad[c]
  BY DEF Fatal
<1>3. DOMAIN todo[c] = {}
  OBVIOUS
<1> QED  BY <1>1, <1>2, <1>3, MatchesRegs DEF Attempt, Course, RegMatches

\* An attempt on course and a true marker stay so in every step.
LEMMA NextStill ==
  ASSUME NEW c, Calls = {c}, AllStill,
         Inv, StaticWritesExclusive, CleanOutcome(c), MarkerClearedWhileDeferred,
         NoRestore, StillInv(c), [Next]_vars
  PROVE  NoRestore' /\ StillInv(c)'
<1> USE DEF NoRestore, StillInv, Threads, Goto
<1>1. c \in Calls /\ c \in Threads /\ Job \in Threads /\ c # Job
  OBVIOUS
<1>2. pc \in [Threads -> CallPcs \cup JobPcs] /\ cfg \in [Threads -> Profiles \cup {None}]
      /\ outcome \in [Threads -> {"ok", "deferred", "err"} \cup Origins]
  BY DEF Inv, TypeOK
<1>3. ASSUME UNCHANGED hw, NEW p PROVE Matches(p)' <=> Matches(p)
  BY <1>3 DEF Matches
<1>4. ASSUME NEW p \in Profiles, ApplyProfile(c, p) PROVE NoRestore' /\ StillInv(c)'
  BY <1>1, <1>2, <1>3, <1>4 DEF ApplyProfile, hardware, deferral
<1>5. CASE SkipApplied(c) \/ StartApply(c) \/ CpuSteps(c)
  BY <1>1, <1>2, <1>3, <1>5 DEF SkipApplied, StartApply, CpuSteps, End, hardware, control, deferral
<1>6. CASE DeferGpuStep(c)
  <2>1. pc[Job] # "ops" /\ lock = None
    BY <1>1, <1>6 DEF DeferGpuStep, StaticWritesExclusive
  <2>2. /\ pc' = [pc EXCEPT ![c] = "rest"] /\ outcome'[c] = "deferred"
        /\ pending' = ProfileStep(cfg[c])
        /\ UNCHANGED <<hw, lastProfile, cfg>>
    BY <1>1, <1>2, <1>6 DEF DeferGpuStep, PendingAfterApply, hardware, control
  <2> QED  BY <1>1, <1>2, <2>1, <2>2 DEF ProfileStep
<1>7. CASE BeginGpuStep(c)
  <2>1. Attempt(c)'
    BY <1>1, <1>7, BeginAttempt
  <2> QED  BY <1>1, <1>2, <1>3, <1>7, <2>1 DEF BeginGpuStep, Begin, hardware, control
<1>8. CASE Write(c)
  <2>1. pc[c] \in CallPcs
    BY <1>1 DEF Inv, TypeOK
  <2>2. pc[c] = "ops"
    BY <1>8, <2>1 DEF Write, CallPcs
  <2>3. Attempt(c)'
    BY <1>1, <1>8, <2>2, WriteAttempt
  <2> QED  BY <1>8, <2>2, <2>3 DEF Write, control, deferral
<1>9. CASE EndGpuStep(c)
  <2>1. outcome'[c] = "ok" => ~Fatal(bad[c])
    BY <1>1, <1>2, <1>9 DEF EndGpuStep
  <2>2. outcome'[c] = "ok" => Consumed(bad[c]) /\ Matches(cfg[c])
    BY <1>1, <1>9, <2>1, AttemptMatches DEF EndGpuStep, Consumed, HasGate, Fatal
  <2>3. pc[Job] # "ops"
    BY <1>1, <1>9 DEF EndGpuStep, StaticWritesExclusive
  <2> QED  BY <1>1, <1>2, <1>3, <1>9, <2>2, <2>3
           DEF EndGpuStep, PendingAfterApply, ProfileStep, hardware, control
<1>10. CASE FinishApply(c)
  BY <1>1, <1>2, <1>3, <1>10 DEF FinishApply, MarkerAfter, End, hardware, deferral
<1>11. CASE JobStep
  <2>1. /\ UNCHANGED lastProfile /\ UNCHANGED pc[c] /\ UNCHANGED cfg[c] /\ UNCHANGED todo[c]
        /\ UNCHANGED bad[c] /\ UNCHANGED outcome[c]
    BY <1>1, <1>11, JobKeepsCalls DEF control
  <2>2. UNCHANGED hw \/ pc[Job] = "ops"
    BY <1>11, JobWrites
  <2>3. pc'[Job] \notin {"rel", "restore"}
    BY <1>11, JobWrites
  <2>4. pc[Job] = "ops" => pc[c] # "ops" /\ pending # None
    BY <1>1 DEF StaticWritesExclusive
  <2>5. /\ UNCHANGED pending \/ pending' = None
        /\ pc'[Job] = "ops" => pending' # None
    BY <1>2, <1>11 DEF JobStep, Snapshot, NothingPending, BeginPending, Write, EndPending, Publish,
                Decide, EndRelease, Restore, DynamicOff, DynamicCleared, DynamicSkip, DynamicOffset, End, Begin,
                deferral
  <2>6. pc[c] = "ops" => Attempt(c)'
    <3>1. ASSUME UNCHANGED hw, pc[c] = "ops" PROVE Attempt(c)'
      BY <2>1, <3>1 DEF Attempt
    <3> QED  BY <2>2, <2>4, <3>1
  <2> QED  BY <1>3, <2>1, <2>2, <2>3, <2>4, <2>5, <2>6
<1>12. ASSUME NEW v \in DirectOffsets, SetGpuCoreOffset(v) PROVE NoRestore' /\ StillInv(c)'
  <2>1. \A p : \A r \in ProfileRegs : RegMatches(r, p)' <=> RegMatches(r, p)
    BY <1>12 DEF SetGpuCoreOffset, Effect, RegMatches, RegOn, ProfileRegs, Regs, Inv, TypeOK
  <2>2. \A p : Matches(p)' <=> Matches(p)
    BY <2>1 DEF Matches, RegMatches, RegOn
  <2>3. Attempt(c) => Attempt(c)'
    BY <1>12, <2>1 DEF Attempt, Course, RegMatches, SetGpuCoreOffset, threads
  <2> QED  BY <1>12, <2>2, <2>3 DEF SetGpuCoreOffset, threads, control, deferral
<1>13. CASE TakeReport \/ GateFlips \/ IdleElapses \/ RetryElapses \/ UNCHANGED vars
  <2>1. UNCHANGED <<hw, lastProfile, pending, threads>>
    BY <1>13 DEF TakeReport, GateFlips, IdleElapses, RetryElapses, vars, hardware, control, deferral
  <2>2. Attempt(c) => Attempt(c)'
    BY <2>1 DEF Attempt, threads
  <2> QED  BY <1>3, <2>1, <2>2 DEF threads
<1> QED  BY <1>4, <1>5, <1>6, <1>7, <1>8, <1>9, <1>10, <1>11, <1>12, <1>13 DEF Next, CallStep

\* With one client and profiles the poll job leaves alone, the marker names a
\* profile only while every register that profiles alone write, and can write,
\* holds what that profile asks for: skipping the next apply of it ("already
\* applied, skipping") is right, whatever the gate and the writes answered.
THEOREM MarkerTruthful ==
  ASSUME NEW c, Calls = {c}, AllStill
  PROVE  Spec => []MarkerMeansHardware
<1>1. Init => /\ CleanOutcome(c) /\ MarkerClearedWhileDeferred
              /\ NoRestore /\ StillInv(c) /\ StaticWritesExclusive
  BY DEF Init, CleanOutcome, MarkerClearedWhileDeferred, NoRestore, StillInv,
         StaticWritesExclusive, Threads
<1>2. /\ Inv /\ StaticWritesExclusive /\ CleanOutcome(c) /\ MarkerClearedWhileDeferred
      /\ NoRestore /\ StillInv(c) /\ [Next]_vars
      => CleanOutcome(c)' /\ MarkerClearedWhileDeferred' /\ NoRestore' /\ StillInv(c)'
  BY NextCleared, NextStill
<1>3. StillInv(c) => MarkerMeansHardware
  BY DEF StillInv, MarkerMeansHardware
<1> QED  BY InitInv, NextInv, NextExclusive, <1>1, <1>2, <1>3, PTL DEF Spec

(***************************************************************************)
(* Nothing is lost, for one client and profiles the poll job leaves alone:   *)
(* whichever step is pending, refused or replaced, the newest profile is on  *)
(* the adapter or is the one that is pending.                                *)
(***************************************************************************)
\* With the registers h and the pending step q, profile p is on the adapter, or
\* pending.
Held(h, q, p) ==
  IF q = None THEN \A r \in ProfileRegs : RegOn(h, r, p) ELSE q.settings = p

\* The registers that profiles alone write fail for no reason but the gate.
NoneFails == \A t \in Threads : \A r \in ProfileRegs : <<r, "Failed">> \notin bad[t]

LostInv(c) ==
  /\ pc[c] # "idle" => gpuState = cfg[c]
  /\ pc[Job] = "ops" => Course(hw, todo[Job], bad[Job], pending.settings)
  /\ pc[c] = "rest" => Held(hw, pending, cfg[c])
  /\ pc[c] = "idle" /\ gpuState # None => Held(hw, pending, gpuState)

\* An attempt that is over and that the gate refused nothing of has matched
\* every register.
LEMMA CourseMatches ==
  ASSUME NEW p, NEW b, Course(hw, <<>>, b, p), Consumed(b),
         \A r \in ProfileRegs : <<r, "Failed">> \notin b
  PROVE  \A r \in ProfileRegs : RegOn(hw, r, p)
<1>1. \A r \in ProfileRegs : r \in Regs
  BY DEF ProfileRegs
<1>2. \A r \in Regs : <<r, "GateClosed">> \notin b
  BY DEF Consumed, HasGate
<1>3. ASSUME NEW i \in DOMAIN <<>>  PROVE FALSE
  OBVIOUS
<1> QED  BY <1>1, <1>2, <1>3 DEF Course

LEMMA NextNoneFails ==
  ASSUME Breakable \cap ProfileRegs = {}, Inv, NoneFails, [Next]_vars
  PROVE  NoneFails'
<1> USE DEF Threads, threads
<1>1. bad \in [Threads -> Failures] /\ todo \in [Threads -> Seq(Op)]
  BY DEF Inv, TypeOK
<1>2. ASSUME NEW t \in Threads, bad' = bad \/ bad' = [bad EXCEPT ![t] = {}]  PROVE NoneFails'
  BY <1>1, <1>2 DEF NoneFails
<1>3. ASSUME NEW t \in Threads, Write(t)  PROVE NoneFails'
  <2> DEFINE r == Head(todo[t]).reg
  <2>1. PICK a \in Answers(r) :
          bad' = [bad EXCEPT ![t] = IF a = "ok" THEN @ ELSE @ \cup {<<r, a>>}]
    BY <1>3 DEF Write
  <2>2. a = "Failed" => r \notin ProfileRegs
    BY <2>1 DEF Answers
  <2> QED  BY <1>1, <2>1, <2>2 DEF NoneFails
<1>4. ASSUME NEW c \in Calls, CallStep(c) \/ \E p \in Profiles : ApplyProfile(c, p)
      PROVE  NoneFails'
  <2>1. Write(c) \/ bad' = bad \/ bad' = [bad EXCEPT ![c] = {}]
    BY <1>4 DEF CallStep, ApplyProfile, SkipApplied, StartApply, CpuSteps, DeferGpuStep,
                BeginGpuStep, EndGpuStep, FinishApply, End, Begin
  <2> QED  BY <1>2, <1>3, <2>1
<1>5. CASE JobStep
  <2>1. ASSUME NEW load \in {"none", "low", "high"}, Decide(load)
        PROVE  bad' = [bad EXCEPT ![Job] = {}]
    BY <2>1 DEF Decide, Begin
  <2>2. ASSUME NEW v \in Offsets, DynamicOffset(v)  PROVE bad' = bad
    BY <2>2 DEF DynamicOffset
  <2>3. Write(Job) \/ bad' = bad \/ bad' = [bad EXCEPT ![Job] = {}]
    BY <1>5, <2>1, <2>2 DEF JobStep, Snapshot, NothingPending, BeginPending, EndPending, Publish,
                EndRelease, Restore, DynamicOff, DynamicCleared, DynamicSkip, Begin
  <2> QED  BY <1>2, <1>3, <2>3
<1>6. CASE \/ TakeReport \/ (\E v \in DirectOffsets : SetGpuCoreOffset(v))
           \/ GateFlips \/ IdleElapses \/ RetryElapses \/ UNCHANGED vars
  <2>1. bad' = bad
    BY <1>6 DEF TakeReport, SetGpuCoreOffset, GateFlips, IdleElapses, RetryElapses, vars
  <2> QED  BY <1>2, <2>1
<1> QED  BY <1>4, <1>5, <1>6 DEF Next

\* What is held stays held by the job: it writes only what is pending, and drops
\* a step only once it is on the adapter.
LEMMA JobHolds ==
  ASSUME NEW c \in Calls, AllStill, Inv, StaticWritesExclusive, NoneFails,
         StillInv(c), LostInv(c), JobStep
  PROVE  /\ \A p \in Profiles : Held(hw, pending, p) => Held(hw', pending', p)
         /\ pc'[Job] = "ops" => Course(hw', todo'[Job], bad'[Job], pending'.settings)
<1> USE DEF Threads, Goto, Begin, End, hardware, deferral, threads
<1>1. /\ pc \in [Threads -> CallPcs \cup JobPcs] /\ todo \in [Threads -> Seq(Op)]
      /\ pc[Job] \in JobPcs \ {"rel", "restore"} /\ pending \in Step \cup {None}
      /\ pending # None => pending.settings \in Profiles
  BY DEF Inv, TypeOK, StillInv, Step
<1>2. CASE Write(Job)
  <2>1. pc' = pc /\ pending' = pending /\ pc[Job] = "ops" /\ pending # None
    BY <1>1, <1>2 DEF Write, StillInv
  <2>2. Course(hw', todo'[Job], bad'[Job], pending.settings)
    BY <1>1, <1>2, <2>1, WriteCourse DEF LostInv
  <2> QED  BY <2>1, <2>2 DEF Held
<1>3. CASE BeginPending
  <2>1. hw' = hw /\ pending' = pending /\ pending # None
        /\ todo'[Job] = StaticOps(Gpu[pending.settings])
    BY <1>1, <1>3 DEF BeginPending
  <2>2. Course(hw', todo'[Job], bad'[Job], pending.settings)
    BY <1>1, <2>1, BeginCourse
  <2> QED  BY <2>1, <2>2
<1>4. CASE EndPending
  <2>1. hw' = hw /\ pc'[Job] # "ops" /\ pc[Job] = "ops" /\ todo[Job] = <<>>
    BY <1>1, <1>4 DEF EndPending
  <2>2. pending' = pending \/ (pending' = None /\ Consumed(bad[Job]))
    BY <1>4 DEF EndPending
  <2>3. pending # None /\ Course(hw, todo[Job], bad[Job], pending.settings)
    BY <2>1 DEF StillInv, LostInv
  <2>4. Consumed(bad[Job]) => \A r \in ProfileRegs : RegOn(hw, r, pending.settings)
    BY <2>1, <2>3, CourseMatches DEF NoneFails
  <2> QED  BY <2>1, <2>2, <2>3, <2>4 DEF Held
<1>5. CASE ~Write(Job) /\ ~BeginPending /\ ~EndPending
  <2>1. UNCHANGED hw \/ pc[Job] = "ops"
    BY <1>1, JobWrites
  <2>2. /\ pc[Job] # "ops" /\ pc'[Job] # "ops" /\ pending' = pending
    <3>1. ASSUME NEW load \in {"none", "low", "high"}, Decide(load)
          PROVE  pc[Job] # "ops" /\ pc'[Job] # "ops" /\ pending' = pending
      BY <1>1, <3>1 DEF Decide
    <3>2. ASSUME NEW v \in Offsets, DynamicOffset(v)
          PROVE  pc[Job] # "ops" /\ pc'[Job] # "ops" /\ pending' = pending
      BY <1>1, <3>2 DEF DynamicOffset
    <3> QED  BY <1>1, <1>5, <3>1, <3>2 DEF JobStep, Snapshot, NothingPending, Publish, EndRelease,
                Restore, DynamicOff, DynamicCleared, DynamicSkip
  <2> QED  BY <2>1, <2>2
<1> QED  BY <1>2, <1>3, <1>4, <1>5

\* A call that is past the GPU step leaves its profile held.
LEMMA NextLost ==
  ASSUME NEW c, Calls = {c}, AllStill, ~StepsMayFail, Inv, StaticWritesExclusive,
         NoneFails, StillInv(c), LostInv(c), [Next]_vars
  PROVE  LostInv(c)'
<1> USE DEF Threads, Goto, hardware, control, deferral, threads
<1>1. /\ c \in Calls /\ c # Job /\ pc \in [Threads -> CallPcs \cup JobPcs]
      /\ cfg \in [Threads -> Profiles \cup {None}] /\ (pc[c] # "idle" => cfg[c] \in Profiles)
      /\ todo \in [Threads -> Seq(Op)] /\ bad \in [Threads -> Failures] /\ Job # None
      /\ pc[c] \in CallPcs /\ gpuState \in Profiles \cup {None} /\ pending \in Step \cup {None}
      /\ None \notin Step
  BY NoneOK DEF Inv, TypeOK, Step
<1>2. ASSUME NEW p \in Profiles, ApplyProfile(c, p)  PROVE LostInv(c)'
  BY <1>1, <1>2 DEF ApplyProfile, LostInv
<1>3. CASE SkipApplied(c)
  <2>1. /\ pc[c] = "check" /\ pc' = [pc EXCEPT ![c] = "idle"] /\ lastProfile = cfg[c]
        /\ UNCHANGED <<hw, pending, gpuState, todo, bad>>
    BY <1>1, <1>3 DEF SkipApplied, End
  <2>2. pending = None /\ Matches(cfg[c]) /\ gpuState = cfg[c]
    BY <1>1, <2>1 DEF StillInv, LostInv
  <2>3. Held(hw', pending', gpuState')
    BY <2>1, <2>2 DEF Held, Matches, RegOn
  <2> QED  BY <1>1, <2>1, <2>3 DEF LostInv
<1>4. CASE StartApply(c) \/ CpuSteps(c)
  BY <1>1, <1>4 DEF StartApply, CpuSteps, LostInv
<1>5. CASE DeferGpuStep(c)
  <2>1. /\ pc[c] = "gpu" /\ pc' = [pc EXCEPT ![c] = "rest"] /\ lock = None
        /\ UNCHANGED <<hw, gpuState, cfg>> /\ pending' = ProfileStep(cfg[c])
    BY <1>1, <1>5 DEF DeferGpuStep, PendingAfterApply
  <2>2. pc[Job] # "ops"
    BY <1>1, <2>1 DEF StaticWritesExclusive
  <2>3. Held(hw', pending', cfg'[c])
    <3>1. ProfileStep(cfg[c]) \in Step
      BY <1>1, <2>1 DEF ProfileStep, Step, Origins
    <3> QED  BY <1>1, <2>1, <3>1 DEF Held, ProfileStep
  <2> QED  BY <1>1, <2>1, <2>2, <2>3 DEF LostInv
<1>6. CASE BeginGpuStep(c)
  BY <1>1, <1>6 DEF BeginGpuStep, Begin, LostInv
<1>7. CASE Write(c)
  <2>1. pc' = pc /\ pc[c] = "ops" /\ UNCHANGED <<gpuState, cfg>>
    BY <1>1, <1>7 DEF Write, CallPcs
  <2>2. pc[Job] # "ops"
    BY <1>1, <2>1 DEF StaticWritesExclusive
  <2> QED  BY <2>1, <2>2 DEF LostInv
<1>8. CASE EndGpuStep(c)
  <2>1. /\ pc[c] = "ops" /\ pc' = [pc EXCEPT ![c] = "rest"] /\ todo[c] = <<>>
        /\ UNCHANGED <<hw, gpuState, cfg>>
        /\ pending' = PendingAfterApply(Consumed(bad[c]), cfg[c])
    BY <1>1, <1>8 DEF EndGpuStep
  <2>2. pc[Job] # "ops"
    BY <1>1, <2>1 DEF StaticWritesExclusive
  <2>3. Course(hw, <<>>, bad[c], cfg[c]) /\ \A r \in ProfileRegs : <<r, "Failed">> \notin bad[c]
    BY <1>1, <2>1 DEF StillInv, Attempt, NoneFails
  <2>4. Held(hw', pending', cfg'[c])
    <3>1. CASE Consumed(bad[c])
      BY <2>1, <2>3, <3>1, CourseMatches DEF Held, PendingAfterApply
    <3>2. CASE ~Consumed(bad[c])
      <4>1. ProfileStep(cfg[c]) \in Step
        BY <1>1, <2>1 DEF ProfileStep, Step, Origins
      <4> QED  BY <1>1, <2>1, <3>2, <4>1 DEF Held, PendingAfterApply, ProfileStep
    <3> QED  BY <3>1, <3>2
  <2> QED  BY <1>1, <2>1, <2>2, <2>4 DEF LostInv
<1>9. CASE FinishApply(c)
  <2>1. /\ pc[c] = "rest" /\ pc' = [pc EXCEPT ![c] = "idle"]
        /\ UNCHANGED <<hw, pending, gpuState, todo, bad>>
    BY <1>1, <1>9 DEF FinishApply, End
  <2> QED  BY <1>1, <2>1 DEF LostInv
<1>10. CASE JobStep
  <2>1. UNCHANGED gpuState /\ UNCHANGED pc[c] /\ UNCHANGED cfg[c]
    BY <1>1, <1>10, JobKeepsCalls
  <2>2. /\ \A p \in Profiles : Held(hw, pending, p) => Held(hw', pending', p)
        /\ pc'[Job] = "ops" => Course(hw', todo'[Job], bad'[Job], pending'.settings)
    BY <1>1, <1>10, JobHolds
  <2> QED  BY <1>1, <2>1, <2>2 DEF LostInv
<1>11. ASSUME NEW v \in DirectOffsets, SetGpuCoreOffset(v)  PROVE LostInv(c)'
  <2>1. \A r \in ProfileRegs : hw'[r] = hw[r]
    BY <1>11 DEF SetGpuCoreOffset, Effect, ProfileRegs, Regs, Inv, TypeOK
  <2>2. \A p : \A r \in ProfileRegs : RegOn(hw', r, p) <=> RegOn(hw, r, p)
    BY <2>1 DEF RegOn
  <2>3. UNCHANGED <<gpuState, pending, pc, cfg, todo, bad>>
    BY <1>11 DEF SetGpuCoreOffset
  <2>4. \A p : Held(hw, pending, p) => Held(hw', pending', p)
    BY <2>2, <2>3 DEF Held
  <2>5. \A ops, b, p : Course(hw, ops, b, p) => Course(hw', ops, b, p)
    BY <2>2 DEF Course
  <2> QED  BY <2>3, <2>4, <2>5 DEF LostInv
<1>12. CASE TakeReport \/ GateFlips \/ IdleElapses \/ RetryElapses \/ UNCHANGED vars
  <2>1. UNCHANGED <<hw, gpuState, pending, pc, cfg, todo, bad>>
    BY <1>12 DEF TakeReport, GateFlips, IdleElapses, RetryElapses, vars
  <2> QED  BY <2>1 DEF LostInv
<1> QED  BY <1>2, <1>3, <1>4, <1>5, <1>6, <1>7, <1>8, <1>9, <1>10, <1>11, <1>12 DEF Next, CallStep

\* With one client, profiles the poll job leaves alone and registers that fail
\* for no reason but the gate, the newest profile is never lost: once its apply is
\* over and nothing is pending the adapter holds what it asks for, whatever was
\* deferred, refused half-way, taken up again by the job or replaced before
\* (apply_gpu_settings, apply_pending_gpu, pending_after_profile_apply).
THEOREM NothingIsLost ==
  ASSUME NEW c, Calls = {c}, AllStill, ~StepsMayFail, Breakable \cap ProfileRegs = {}
  PROVE  Spec => []NothingLost
<1>1. Init => /\ CleanOutcome(c) /\ MarkerClearedWhileDeferred
              /\ NoRestore /\ StillInv(c) /\ NoneFails /\ LostInv(c)
  BY DEF Init, CleanOutcome, MarkerClearedWhileDeferred, NoRestore, StillInv, NoneFails, LostInv,
         Threads
<1>2. /\ Inv /\ StaticWritesExclusive /\ CleanOutcome(c) /\ MarkerClearedWhileDeferred
      /\ NoRestore /\ StillInv(c) /\ NoneFails /\ LostInv(c) /\ [Next]_vars
      => /\ CleanOutcome(c)' /\ MarkerClearedWhileDeferred'
         /\ NoRestore' /\ StillInv(c)' /\ NoneFails' /\ LostInv(c)'
  BY NextCleared, NextStill, NextNoneFails, NextLost
<1>3. LostInv(c) => NothingLost
  BY DEF LostInv, NothingLost, Held, Matches, RegOn
<1> QED  BY InitInv, NextInv, InitExclusive, NextExclusive, <1>1, <1>2, <1>3, PTL DEF Spec

(***************************************************************************)
(* What an idle release leaves, for any number of calls: nobody writes       *)
(* between the tick that sees the adapter idle for long enough and the one   *)
(* that restores it, but the release itself and an apply newer than it.      *)
(***************************************************************************)
Cleared == [core |-> 0, clocks |-> Unlocked]

\* The job counts on the adapter being idle, or has released it.
Attending == idle.since = "old" \/ idle.released \/ pc[Job] = "rel"

\* The job has seen the newest apply.
Seen == idle.seenGen = gen

\* Half-way through a release each register is cleared, has yet to be, or has failed.
Releasing ==
  /\ \A i \in DOMAIN todo[Job] : todo[Job][i].val = Cleared[todo[Job][i].reg]
  /\ Seen => \A r \in Regs :
       \/ hw[r] = Cleared[r]
       \/ \E i \in DOMAIN todo[Job] : todo[Job][i].reg = r
       \/ bad[Job] # {}

ReleaseInv ==
  /\ idle.seenGen <= gen
  /\ Attending /\ Seen => pending = None /\ \A c \in Calls : pc[c] \in {"idle", "check", "cpu"}
  /\ pc[Job] = "ops" => pending # None
  /\ pc[Job] = "rel" => Releasing
  /\ idle.released /\ Seen => hw = Cleared

\* A call reaches the adapter and the pending slot only past the generation's
\* increment, and the slot with its mutex.
LEMMA CallReach ==
  ASSUME Inv, StaticWritesExclusive, NEW c \in Calls,
         CallStep(c) \/ \E p \in Profiles : ApplyProfile(c, p)
  PROVE  /\ UNCHANGED idle /\ UNCHANGED pc[Job] /\ UNCHANGED todo[Job] /\ UNCHANGED bad[Job]
         /\ \A d \in Calls : d # c => UNCHANGED pc[d]
         /\ gen' = gen \/ (gen' = gen + 1 /\ UNCHANGED hw)
         /\ UNCHANGED pending \/ lock \in {None, c}
         /\ pc[c] \in {"idle", "check", "cpu"} => UNCHANGED hw /\ UNCHANGED pending
         /\ pc[c] \in {"idle", "check", "cpu"} /\ gen' = gen => pc'[c] \in {"idle", "check", "cpu"}
<1> USE DEF Threads, Goto, hardware, control, deferral, jobState, threads
<1>1. /\ pc \in [Threads -> CallPcs \cup JobPcs] /\ c # Job /\ c \in Threads /\ Job \in Threads
      /\ todo \in [Threads -> Seq(Op)] /\ bad \in [Threads -> Failures]
      /\ gen \in Nat /\ gen + 1 # gen
  BY DEF Inv, TypeOK
<1>2. ASSUME NEW p \in Profiles, ApplyProfile(c, p)
      PROVE  /\ UNCHANGED idle /\ UNCHANGED todo /\ UNCHANGED bad /\ UNCHANGED hw
             /\ UNCHANGED gen /\ UNCHANGED pending /\ pc' = [pc EXCEPT ![c] = "check"]
  BY <1>2 DEF ApplyProfile
<1>3. CASE SkipApplied(c) \/ StartApply(c)
  BY <1>1, <1>3 DEF SkipApplied, StartApply, End
<1>4. CASE CpuSteps(c)
  BY <1>1, <1>4 DEF CpuSteps
<1>6. CASE DeferGpuStep(c) \/ EndGpuStep(c) \/ FinishApply(c)
  <2>1. EndGpuStep(c) => lock = c
    BY <1>1 DEF EndGpuStep, StaticWritesExclusive
  <2> QED  BY <1>1, <1>6, <2>1 DEF DeferGpuStep, EndGpuStep, FinishApply, End
<1>5. CASE BeginGpuStep(c) \/ Write(c)
  BY <1>1, <1>5 DEF BeginGpuStep, Write, Begin
<1> QED  BY <1>1, <1>2, <1>3, <1>4, <1>5, <1>6 DEF CallStep

LEMMA CallRelease ==
  ASSUME Inv, StaticWritesExclusive, ReleaseInv, NEW c \in Calls,
         CallStep(c) \/ \E p \in Profiles : ApplyProfile(c, p)
  PROVE  ReleaseInv'
<1>1. /\ UNCHANGED idle /\ UNCHANGED pc[Job] /\ UNCHANGED todo[Job] /\ UNCHANGED bad[Job]
      /\ \A d \in Calls : d # c => UNCHANGED pc[d]
      /\ gen' = gen \/ (gen' = gen + 1 /\ UNCHANGED hw)
      /\ UNCHANGED pending \/ lock \in {None, c}
      /\ pc[c] \in {"idle", "check", "cpu"} => UNCHANGED hw /\ UNCHANGED pending
      /\ pc[c] \in {"idle", "check", "cpu"} /\ gen' = gen => pc'[c] \in {"idle", "check", "cpu"}
  BY CallReach
<1>2. gen \in Nat /\ idle.seenGen \in Nat /\ idle.seenGen <= gen /\ c # Job /\ Job # None
      /\ Job \in Threads
  BY DEF Inv, TypeOK, IdleState, ReleaseInv, Threads
<1>3. idle'.seenGen <= gen' /\ (Seen' => Seen /\ gen' = gen)
  BY <1>1, <1>2 DEF Seen
<1>4. Attending' <=> Attending
  BY <1>1 DEF Attending
<1>5. pc[Job] = "ops" => UNCHANGED pending
  BY <1>1, <1>2 DEF StaticWritesExclusive
<1>6. Attending /\ Seen' => /\ UNCHANGED hw /\ UNCHANGED pending /\ pending = None
                            /\ \A d \in Calls : pc'[d] \in {"idle", "check", "cpu"}
  BY <1>1, <1>3 DEF ReleaseInv
<1>7. pc[Job] = "rel" => Releasing'
  BY <1>1, <1>3, <1>6 DEF Releasing, ReleaseInv, Attending, Cleared
<1>8. idle'.released /\ Seen' => hw' = Cleared'
  BY <1>1, <1>3, <1>6 DEF ReleaseInv, Attending, Cleared
<1>9. idle'.seenGen <= gen'
      /\ (Attending' /\ Seen' => pending' = None /\ \A d \in Calls : pc'[d] \in {"idle", "check", "cpu"})
      /\ (pc'[Job] = "ops" => pending' # None) /\ (pc'[Job] = "rel" => Releasing')
  BY <1>1, <1>3, <1>4, <1>5, <1>6, <1>7 DEF ReleaseInv
<1> QED  BY <1>8, <1>9 DEF ReleaseInv

\* A write of the release clears its register or is on record as failed.
LEMMA WriteRelease ==
  ASSUME Inv, Releasing, Write(Job)
  PROVE  Releasing'
<1> USE DEF Threads
<1> DEFINE op == Head(todo[Job])
<1>1. PICK a \in Answers(op.reg) :
        /\ Effect(op, a)
        /\ bad' = [bad EXCEPT ![Job] = IF a = "ok" THEN @ ELSE @ \cup {<<op.reg, a>>}]
  BY DEF Write
<1>2. /\ todo[Job] \in Seq(Op) /\ todo[Job] # <<>> /\ todo'[Job] = Tail(todo[Job])
      /\ UNCHANGED gen /\ UNCHANGED idle /\ hw \in [core : Offsets, clocks : Clocks]
      /\ bad \in [Threads -> Failures]
  BY DEF Write, Inv, TypeOK, control, jobState
<1>3. op = todo[Job][1] /\ 1 \in DOMAIN todo[Job] /\ op.reg \in Regs
  <2>1. op = todo[Job][1] /\ 1 \in DOMAIN todo[Job] /\ op \in Op
    BY <1>2
  <2> QED  BY <2>1 DEF Op, Regs
<1>4. /\ \A i \in DOMAIN todo'[Job] : i + 1 \in DOMAIN todo[Job] /\ todo'[Job][i] = todo[Job][i + 1]
      /\ \A i \in DOMAIN todo[Job] :
           i = 1 \/ (i - 1 \in DOMAIN todo'[Job] /\ todo'[Job][i - 1] = todo[Job][i])
  BY <1>2
<1> HIDE DEF op
<1>5. \A i \in DOMAIN todo'[Job] : todo'[Job][i].val = Cleared[todo'[Job][i].reg]
  BY <1>4 DEF Releasing
<1>6. ASSUME Seen, NEW r \in Regs
      PROVE  \/ hw'[r] = Cleared[r]
             \/ \E i \in DOMAIN todo'[Job] : todo'[Job][i].reg = r
             \/ bad'[Job] # {}
  <2>1. CASE a # "ok"
    BY <1>1, <1>2, <2>1
  <2>2. CASE a = "ok"
    <3>1. hw' = [hw EXCEPT ![op.reg] = op.val] /\ bad' = bad /\ op.val = Cleared[op.reg]
      BY <1>1, <1>2, <1>3, <2>2 DEF Effect, Releasing
    <3>2. hw'[r] = IF op.reg = r THEN Cleared[r] ELSE hw[r]
      BY <1>2, <1>3, <3>1 DEF Regs
    <3>3. op.reg # r => ((\E i \in DOMAIN todo[Job] : todo[Job][i].reg = r)
                          => \E i \in DOMAIN todo'[Job] : todo'[Job][i].reg = r)
      BY <1>3, <1>4
    <3> QED  BY <1>6, <3>1, <3>2, <3>3 DEF Releasing
  <2> QED  BY <2>1, <2>2
<1>7. Cleared' = Cleared /\ (Seen' <=> Seen)
  BY <1>2 DEF Cleared, Seen
<1> QED  BY <1>5, <1>6, <1>7 DEF Releasing, Cleared, Seen

\* A tick releases only an adapter that it has found idle since the newest apply.
LEMMA DecideRelease ==
  ASSUME Inv, ReleaseInv, NEW load \in {"none", "low", "high"}, Decide(load)
  PROVE  ReleaseInv'
<1> USE DEF Threads, Goto
<1> DEFINE s == cfg[Job]
           hasOC == s # None /\ HasOC(Gpu[s])
           eligible == hasOC /\ Gpu[s].idle
           i0 == ResetIdle(idle, s # None, hasOC)
           i1 == [i0 EXCEPT !.since =
                    NextSince(i0.since, load, eligible /\ gate /\ ~i0.released)]
           action == IdleAction(eligible, i1, load)
<1>1. /\ UNCHANGED <<gen, hw, pending>> /\ pc[Job] = "decide" /\ idle \in IdleState
      /\ pc \in [Threads -> CallPcs \cup JobPcs] /\ gen \in Nat /\ idle.seenGen <= gen
      /\ todo \in [Threads -> Seq(Op)] /\ bad \in [Threads -> Failures]
  BY DEF Decide, Inv, TypeOK, ReleaseInv, hardware, control, deferral
<1>2. \A c \in Calls : UNCHANGED pc[c]
  BY <1>1 DEF Decide, Begin, End
<1>3. i0 \in IdleState /\ i1 \in IdleState
  <2>1. i0 \in IdleState
    BY ResetIdleType DEF Inv, TypeOK
  <2> QED  BY <2>1, NextSinceType DEF IdleState
<1>4. /\ i1.released = i0.released /\ i1.seenGen = i0.seenGen
      /\ i1.since \in {"none", "young", i0.since}
  BY <1>3 DEF NextSince, IdleState
<1>5. \/ i0 = idle /\ idle.seenGen = gen
      \/ i0.since = "none" /\ ~i0.released /\ i0.seenGen = gen
  BY DEF ResetIdle
<1>6. /\ idle'.released = i1.released /\ idle'.seenGen = gen /\ idle'.since = i1.since
      /\ pc'[Job] = "rel" => action = "Release"
      /\ pc'[Job] # "ops"
  <2>1. idle' = IF action = "Release"
                THEN [i1 EXCEPT !.relPending = TRUE, !.retry = FALSE] ELSE i1
    BY DEF Decide
  <2>2. /\ pc'[Job] = "rel" => action = "Release"
        /\ pc'[Job] # "ops"
    BY <1>1 DEF Decide, Begin, End
  <2> HIDE DEF i1, action, i0
  <2> QED  BY <1>3, <1>4, <1>5, <2>1, <2>2 DEF IdleState
<1>7. action = "Release" => i1.since = "old"
  BY DEF IdleAction
<1>8. (pc'[Job] = "rel" \/ idle'.since = "old" \/ idle'.released)
        => i0 = idle /\ idle.seenGen = gen /\ (idle.since = "old" \/ idle.released)
  <2> HIDE DEF i0, i1, action
  <2> QED  BY <1>4, <1>5, <1>6, <1>7
<1>9. pc'[Job] = "rel" => todo'[Job] = ReleaseOps
  <2>1. pc'[Job] = "rel" => Begin(Job, "rel", ReleaseOps)
    BY <1>1 DEF Decide, Begin, End
  <2> QED  BY <1>1, <2>1 DEF Begin
<1> HIDE DEF i0, i1, action
<1>10. pc'[Job] = "rel" => Releasing'
  <2> SUFFICES ASSUME pc'[Job] = "rel"  PROVE Releasing'
    OBVIOUS
  <2>1. todo'[Job] = <<[reg |-> "clocks", val |-> Unlocked], [reg |-> "core", val |-> 0]>>
    BY <1>9 DEF ReleaseOps
  <2>2. DOMAIN todo'[Job] = {1, 2} /\ todo'[Job][1].reg = "clocks" /\ todo'[Job][2].reg = "core"
        /\ todo'[Job][1].val = Unlocked /\ todo'[Job][2].val = 0
    BY <2>1
  <2>3. \A i \in DOMAIN todo'[Job] : todo'[Job][i].val = Cleared[todo'[Job][i].reg]
    BY <2>2 DEF Cleared
  <2>4. \A r \in Regs : \E i \in DOMAIN todo'[Job] : todo'[Job][i].reg = r
    BY <2>2 DEF Regs
  <2> QED  BY <2>3, <2>4 DEF Releasing, Cleared
<1>11. idle'.released => hw' = Cleared'
  BY <1>1, <1>4, <1>6, <1>8 DEF ReleaseInv, Seen, Cleared
<1>12. Attending' => pending' = None /\ \A c \in Calls : pc'[c] \in {"idle", "check", "cpu"}
  BY <1>1, <1>2, <1>8 DEF ReleaseInv, Attending, Seen
<1>13. idle'.seenGen <= gen'
  BY <1>1, <1>6
<1> QED  BY <1>6, <1>10, <1>11, <1>12, <1>13 DEF ReleaseInv

\* The other steps of the job.
LEMMA JobRelease ==
  ASSUME Inv, StaticWritesExclusive, NoSteeringWhileReleased, ReleaseInv, JobStep
  PROVE  ReleaseInv'
<1> USE DEF Threads, Goto, hardware, control, deferral, jobState, threads
<1>1. /\ pc \in [Threads -> CallPcs \cup JobPcs] /\ gen \in Nat /\ idle \in IdleState
      /\ todo \in [Threads -> Seq(Op)] /\ bad \in [Threads -> Failures] /\ pc[Job] \in JobPcs
      /\ hw \in [core : Offsets, clocks : Clocks]
      /\ \A c \in Calls : c # Job
  BY DEF Inv, TypeOK
<1>2. \A c \in Calls : UNCHANGED pc[c]
  BY JobKeepsCalls
<1>3. UNCHANGED gen
  <2>1. CASE \E load \in {"none", "low", "high"} : Decide(load)
    BY <2>1 DEF Decide
  <2>2. CASE \E v \in Offsets : DynamicOffset(v)
    BY <2>2 DEF DynamicOffset
  <2> QED  BY <2>1, <2>2 DEF JobStep, Snapshot, NothingPending, BeginPending, Write, EndPending,
                Publish, EndRelease, Restore, DynamicOff, DynamicCleared, DynamicSkip
<1>4. ASSUME UNCHANGED <<hw, idle>>, UNCHANGED pending \/ pending' = None,
             pc'[Job] = "ops" => pending' # None,
             pc'[Job] # "rel", pc[Job] # "rel"
      PROVE  ReleaseInv'
  BY <1>2, <1>3, <1>4 DEF ReleaseInv, Attending, Seen, Cleared
<1>5. CASE Snapshot \/ NothingPending \/ BeginPending \/ EndPending \/ Publish
  <2>1. UNCHANGED <<hw, idle>> /\ (UNCHANGED pending \/ pending' = None) /\ pc[Job] # "rel"
        /\ pc'[Job] # "rel" /\ (pc'[Job] = "ops" => pending' # None)
    BY <1>1, <1>5 DEF Snapshot, NothingPending, BeginPending, EndPending, Publish, Begin
  <2> QED  BY <1>4, <2>1
<1>6. CASE Write(Job)
  <2>1. pc' = pc /\ UNCHANGED <<idle, pending, gen>> /\ pc[Job] \in {"ops", "rel"}
    BY <1>6 DEF Write
  <2>2. CASE pc[Job] = "rel"
    <3>1. Releasing'
      BY <1>6, <2>2, WriteRelease DEF ReleaseInv
    <3>2. ~idle.released \/ ~Seen \/ hw' = Cleared
      <4>1. hw = Cleared => hw' = Cleared
        <5> SUFFICES ASSUME hw = Cleared  PROVE hw' = Cleared
          OBVIOUS
        <5>1. PICK a \in Answers(Head(todo[Job]).reg) : Effect(Head(todo[Job]), a)
          BY <1>6 DEF Write
        <5>2. Head(todo[Job]) = todo[Job][1] /\ 1 \in DOMAIN todo[Job] /\ Head(todo[Job]) \in Op
          BY <1>1, <1>6 DEF Write
        <5>3. Head(todo[Job]).val = Cleared[Head(todo[Job]).reg] /\ Head(todo[Job]).reg \in Regs
          BY <2>2, <5>2 DEF ReleaseInv, Releasing, Op, Regs
        <5> QED  BY <5>1, <5>3 DEF Effect, Cleared, Regs
      <4> QED  BY <4>1 DEF ReleaseInv
    <3> QED  BY <2>1, <2>2, <3>1, <3>2 DEF ReleaseInv, Attending, Seen, Cleared
  <2>3. CASE pc[Job] = "ops"
    BY <2>1, <2>3 DEF ReleaseInv, Attending, Seen, Cleared
  <2> QED  BY <2>1, <2>2, <2>3
<1>7. CASE EndRelease
  <2>1. pc[Job] = "rel" /\ todo[Job] = <<>> /\ pc'[Job] = "idle" /\ UNCHANGED <<hw, pending>>
    BY <1>1, <1>7 DEF EndRelease, End
  <2>2. idle'.seenGen = idle.seenGen
    BY <1>1, <1>7 DEF EndRelease, IdleState
  <2>3. idle'.released => bad[Job] = {}
    BY <1>1, <1>7 DEF EndRelease, IdleState
  <2>4. Seen /\ bad[Job] = {} => hw = Cleared
    <3>1. DOMAIN todo[Job] = {}
      BY <2>1
    <3>2. Seen /\ bad[Job] = {} => \A r \in Regs : hw[r] = Cleared[r]
      BY <2>1, <3>1 DEF ReleaseInv, Releasing
    <3> QED  BY <1>1, <3>2 DEF Cleared, Regs
  <2>5. Seen' <=> Seen
    BY <1>3, <2>2 DEF Seen
  <2>6. Seen => pending = None /\ \A c \in Calls : pc[c] \in {"idle", "check", "cpu"}
    BY <2>1 DEF ReleaseInv, Attending
  <2> QED  BY <1>2, <1>3, <2>1, <2>2, <2>3, <2>4, <2>5, <2>6 DEF ReleaseInv, Cleared
<1>8. CASE Restore
  <2>1. UNCHANGED hw /\ pc'[Job] = "idle" /\ ~idle'.released /\ idle'.since = "none"
        /\ idle'.seenGen = idle.seenGen
    BY <1>1, <1>8 DEF Restore, End, IdleState
  <2> QED  BY <1>3, <2>1 DEF ReleaseInv, Attending
<1>9. CASE DynamicOff \/ DynamicSkip \/ \E v \in Offsets : DynamicOffset(v)
  <2>1. UNCHANGED <<idle, pending>> /\ pc[Job] = "dyn" /\ pc'[Job] \in {"idle", "clear"}
    BY <1>1, <1>9 DEF DynamicOff, DynamicSkip, DynamicOffset, End
  <2>2. ~idle.released
    BY <2>1 DEF NoSteeringWhileReleased
  <2> QED  BY <1>2, <1>3, <2>1, <2>2 DEF ReleaseInv, Attending, Seen
<1>10. CASE DynamicCleared
  <2>1. UNCHANGED <<idle, pending, hw>> /\ pc[Job] = "clear" /\ pc'[Job] = "idle"
    BY <1>1, <1>10 DEF DynamicCleared, End
  <2> QED  BY <1>2, <1>3, <2>1 DEF ReleaseInv, Attending, Seen
<1> QED  BY <1>5, <1>6, <1>7, <1>8, <1>9, <1>10, DecideRelease DEF JobStep

LEMMA NextRelease ==
  ASSUME DirectOffsets = {}, Inv, StaticWritesExclusive, NoSteeringWhileReleased, ReleaseInv,
         [Next]_vars
  PROVE  ReleaseInv'
<1>1. ASSUME UNCHANGED <<hw, gen, pending, threads>>, idle'.seenGen = idle.seenGen,
             idle'.released = idle.released,
             idle'.since = "old" => idle.since = "old" \/
               (pending = None /\ \A c \in Calls : pc[c] = "idle")
      PROVE  ReleaseInv'
  BY <1>1 DEF ReleaseInv, Attending, Seen, Cleared, Releasing, threads
<1>2. CASE TakeReport \/ GateFlips \/ IdleElapses \/ RetryElapses \/ UNCHANGED vars
  <2>1. UNCHANGED <<hw, gen, pending, threads>>
    BY <1>2 DEF TakeReport, GateFlips, IdleElapses, RetryElapses, vars, hardware, control, deferral
  <2>2. /\ idle'.seenGen = idle.seenGen /\ idle'.released = idle.released
        /\ idle'.since = "old" => idle.since = "old" \/
             (pending = None /\ \A c \in Calls : pc[c] = "idle")
    BY <1>2 DEF TakeReport, GateFlips, IdleElapses, RetryElapses, vars, jobState, Inv, TypeOK, IdleState
  <2> QED  BY <1>1, <2>1, <2>2
<1> QED  BY <1>2, CallRelease, JobRelease DEF Next

\* However many calls there are, and whatever their profiles ask for, an adapter
\* that the job counts as released has its clocks unlocked and its offset cleared
\* until a newer apply (finish_idle_oc_release, reset_idle_oc_state).  No client
\* sets an offset directly: that one the release does not survive.
THEOREM ReleaseClears ==
  ASSUME DirectOffsets = {}
  PROVE  Spec => []ReleasedIsCleared
<1>1. Init => ReleaseInv
  BY DEF Init, ReleaseInv, Attending, Seen, Cleared, Releasing, Threads
<1>2. Inv /\ StaticWritesExclusive /\ NoSteeringWhileReleased /\ ReleaseInv /\ [Next]_vars
        => ReleaseInv'
  BY NextRelease
<1>3. ReleaseInv => ReleasedIsCleared
  BY DEF ReleaseInv, ReleasedIsCleared, Seen, Cleared
<1> QED  BY <1>1, <1>2, <1>3, InitInv, NextInv, InitExclusive, NextExclusive,
            InitSteering, NextSteering, PTL DEF Spec

-----------------------------------------------------------------------------
(* The startup apply of the GUI.                                            *)


\* The job attempts the step that is pending, and knows where it is from.
AttemptOrigin == pc[Job] = "ops" => pending # None /\ outcome[Job] = pending.origin

\* What is reported once the startup apply is over is its own step, and no longer
\* pending.
OwnReport(c) ==
  kind = "startup" /\ pc[c] \in {"rest", "idle"} /\ ~overlap /\ Reported => ~Resolves(pending)

\* What the banner has been told since the startup apply was sent.
BannerInv(c) ==
  /\ outcome[c] \in {"ok", "deferred", "err"} /\ reply \in {None, "ok", "deferred", "err"}
  /\ startup = "limits" => kind # "startup" /\ reply = None /\ ~waiting
  /\ kind = "startup" /\ pc[c] # "idle" => reply = None /\ ~waiting /\ status # "complete"
  /\ kind = "startup" /\ pc[c] = "idle" /\ reply # None /\ reply = "ok" => ~Resolves(pending)
  /\ kind = "startup" /\ pc[c] = "idle" /\ status = "complete" /\ ~overlap => ~Resolves(pending)

\* What is on its way to the window are reports.
InboxType == taken \in Report \cup {None} /\ chan \in Seq(Report)

\* The GUI restricts what the daemon does and adds nothing to it.
LEMMA StartupStep == [StartupNext]_<<vars, gui>> => [Next]_vars
<1> SUFFICES ASSUME [StartupNext]_<<vars, gui>>  PROVE [Next]_vars
  OBVIOUS
<1>1. ASSUME NEW c \in Calls, Call(c) \/ \E p \in Profiles : SendStartup(c, p) \/ UserApply(c, p)
      PROVE  Next
  BY <1>1 DEF Call, SendStartup, UserApply, Next
<1>2. CASE (JobStep \/ GateFlips \/ IdleElapses \/ RetryElapses) /\ UNCHANGED gui
  BY <1>2 DEF Next
<1>3. CASE PollReport
  BY <1>3 DEF PollReport, Next
<1>4. CASE Deliver \/ Frame \/ UNCHANGED <<vars, gui>>
  BY <1>4 DEF Deliver, Frame, vars
<1> QED  BY <1>1, <1>2, <1>3, <1>4 DEF StartupNext

\* Every behaviour of the composition is one of the daemon's GPU control, so that
\* what is proved of the daemon holds beside the GUI.
THEOREM StartupImplementsGpu == StartupSpec => Spec
<1>1. StartupInit => Init
  BY DEF StartupInit
<1> QED  BY <1>1, StartupStep, PTL DEF StartupSpec, Spec

\* The slot's step is never changed under an attempt of it.
LEMMA NextOrigin ==
  ASSUME Inv, StaticWritesExclusive, AttemptOrigin, [Next]_vars
  PROVE  AttemptOrigin'
<1> USE DEF Threads, Goto, Begin, End, deferral, threads, AttemptOrigin
<1>1. /\ pc \in [Threads -> CallPcs \cup JobPcs] /\ Job # None /\ \A c \in Calls : c # Job
      /\ outcome \in [Threads -> {"ok", "deferred", "err"} \cup Origins] /\ pc[Job] \in JobPcs
  BY DEF Inv, TypeOK
<1>2. ASSUME NEW c \in Calls, CallStep(c) \/ \E p \in Profiles : ApplyProfile(c, p)
      PROVE  AttemptOrigin'
  <2>1. /\ UNCHANGED pc[Job] /\ (UNCHANGED pending \/ lock \in {None, c})
    BY <1>2, CallReach
  <2>2. UNCHANGED outcome[Job]
    BY <1>1, <1>2 DEF CallStep, ApplyProfile, SkipApplied, StartApply, CpuSteps, DeferGpuStep,
                BeginGpuStep, Write, EndGpuStep, FinishApply
  <2> QED  BY <1>1, <2>1, <2>2 DEF StaticWritesExclusive
<1>3. CASE JobStep
  <2>1. ASSUME NEW load \in {"none", "low", "high"}, Decide(load)  PROVE pc'[Job] # "ops"
    BY <1>1, <2>1 DEF Decide
  <2>2. ASSUME NEW v \in Offsets, DynamicOffset(v)  PROVE pc'[Job] # "ops"
    BY <1>1, <2>2 DEF DynamicOffset
  <2> QED  BY <1>1, <1>3, <2>1, <2>2 DEF JobStep, Snapshot, NothingPending, BeginPending, Write,
                EndPending, Publish, EndRelease, Restore, DynamicOff, DynamicCleared, DynamicSkip
<1>4. CASE \/ TakeReport \/ (\E v \in DirectOffsets : SetGpuCoreOffset(v))
           \/ GateFlips \/ IdleElapses \/ RetryElapses \/ UNCHANGED vars
  BY <1>4 DEF TakeReport, SetGpuCoreOffset, GateFlips, IdleElapses, RetryElapses, vars
<1> QED  BY <1>2, <1>3, <1>4 DEF Next

\* The job reports a step as it takes it out of the slot, and puts none in.
LEMMA JobReports ==
  ASSUME Inv, AttemptOrigin, JobStep, UNCHANGED gui
  PROVE  /\ Resolves(pending') => Resolves(pending)
         /\ Reported' => Reported \/ (Resolves(pending) /\ ~Resolves(pending'))
<1> USE DEF Threads, Goto, Begin, End, deferral, threads, Resolves
<1>1. /\ pc \in [Threads -> CallPcs \cup JobPcs] /\ pc[Job] \in JobPcs
      /\ outcome \in [Threads -> {"ok", "deferred", "err"} \cup Origins]
      /\ report \in [pending : Report \cup {None}, last : Failures \cup {None}]
      /\ taken' = taken /\ chan' = chan
  BY DEF Inv, TypeOK, gui, inbox
<1>2. CASE EndPending
  <2>1. /\ pc[Job] = "ops" /\ report' = report /\ outcome' = outcome
        /\ \/ pending' = None
           \/ pending' = pending /\ pc'[Job] = "decide"
    BY <1>1, <1>2 DEF EndPending
  <2> QED  BY <1>1, <2>1 DEF AttemptOrigin, Reported
<1>3. CASE Publish
  <2>1. pending' = pending /\ pc[Job] = "publish" /\ pc'[Job] = "decide"
        /\ report' = Published(report, outcome[Job], bad[Job])
    BY <1>1, <1>3 DEF Publish
  <2>2. \/ report'.pending = report.pending
        \/ report'.pending = [text |-> bad[Job], origin |-> outcome[Job]]
    BY <1>1, <2>1 DEF Published
  <2> QED  BY <1>1, <2>1, <2>2 DEF Reported
<1>4. CASE Restore
  <2>1. pending'.origin = "IdleRestore" /\ report' = report /\ pc'[Job] = "idle"
    BY <1>1, <1>4 DEF Restore
  <2> QED  BY <1>1, <2>1 DEF Reported
<1>5. CASE ~EndPending /\ ~Publish /\ ~Restore
  <2>1. ASSUME NEW load \in {"none", "low", "high"}, Decide(load)
        PROVE  pending' = pending /\ report' = report /\ pc'[Job] # "publish"
    BY <1>1, <2>1 DEF Decide
  <2>2. ASSUME NEW v \in Offsets, DynamicOffset(v)
        PROVE  pending' = pending /\ report' = report /\ pc'[Job] # "publish"
    BY <1>1, <2>2 DEF DynamicOffset
  <2>3. pending' = pending /\ report' = report /\ pc'[Job] # "publish"
    BY <1>1, <1>5, <2>1, <2>2 DEF JobStep, Snapshot, NothingPending, BeginPending, Write,
                EndRelease, DynamicOff, DynamicCleared, DynamicSkip
  <2> QED  BY <1>1, <2>3 DEF Reported
<1> QED  BY <1>2, <1>3, <1>4, <1>5

\* A call's steps, as the window's part of the state sees them.
LEMMA CallBanner ==
  ASSUME NEW c, Calls = {c}, Inv, StaticWritesExclusive, CleanOutcome(c),
         MarkerClearedWhileDeferred, OwnReport(c), BannerInv(c), Call(c)
  PROVE  OwnReport(c)' /\ BannerInv(c)'
<1> USE DEF Threads, Goto, deferral, control, threads
<1>1. /\ c \in Calls /\ c # Job /\ pc \in [Threads -> CallPcs \cup JobPcs] /\ pc[c] \in CallPcs
      /\ outcome \in [Threads -> {"ok", "deferred", "err"} \cup Origins] /\ gen \in Nat
      /\ cfg \in [Threads -> Profiles \cup {None}] /\ (pc[c] # "idle" => cfg[c] # None)
  BY DEF Inv, TypeOK
<1>2. /\ UNCHANGED <<startup, waiting, status, kind, taken, chan>> /\ CallStep(c)
      /\ overlap' = (overlap \/ Overlaps(c))
      /\ reply' = IF pc'[c] = "idle" /\ kind = "startup" THEN outcome'[c] ELSE reply
  BY DEF Call, banner, inbox
<1>3. /\ UNCHANGED pc[Job] /\ UNCHANGED outcome[Job] /\ UNCHANGED report
      /\ pc[c] # "idle" /\ outcome'[c] \in {"ok", "deferred", "err"}
  <2> USE DEF SkipApplied, StartApply, CpuSteps, DeferGpuStep, BeginGpuStep, Write, EndGpuStep,
              FinishApply, End, Begin
  <2>1. CASE SkipApplied(c) \/ StartApply(c) \/ CpuSteps(c)
    BY <1>1, <2>1 DEF BannerInv
  <2>2. CASE DeferGpuStep(c) \/ BeginGpuStep(c) \/ Write(c)
    BY <1>1, <2>2 DEF BannerInv
  <2>3. CASE EndGpuStep(c) \/ FinishApply(c)
    BY <1>1, <2>3 DEF BannerInv
  <2> QED  BY <1>2, <2>1, <2>2, <2>3 DEF CallStep
<1>4. Reported' <=> Reported
  BY <1>2, <1>3 DEF Reported, Resolves
<1>5. OwnReport(c)'
  <2>1. CASE SkipApplied(c)
    <3>1. pending' = pending /\ pc[c] = "check" /\ lastProfile # None
      BY <1>1, <2>1 DEF SkipApplied
    <3> QED  BY <3>1 DEF OwnReport, MarkerClearedWhileDeferred, Resolves
  <2>2. CASE FinishApply(c)
    <3>1. UNCHANGED pending /\ pc[c] = "rest"
      BY <1>1, <2>2 DEF FinishApply
    <3> QED  BY <1>2, <1>4, <3>1 DEF OwnReport, Overlaps, Resolves
  <2>3. CASE StartApply(c) \/ BeginGpuStep(c) \/ Write(c)
    <3>1. pc'[c] \notin {"rest", "idle"}
      BY <1>1, <2>3 DEF StartApply, BeginGpuStep, Write, Begin
    <3> QED  BY <3>1 DEF OwnReport
  <2>4. CASE CpuSteps(c) \/ DeferGpuStep(c) \/ EndGpuStep(c)
    <3>1. pc'[c] # "idle"
      BY <1>1, <2>4 DEF CpuSteps, DeferGpuStep, EndGpuStep
    <3> QED  BY <1>2, <1>4, <3>1 DEF OwnReport, Overlaps, Resolves
  <2> QED  BY <1>2, <2>1, <2>2, <2>3, <2>4 DEF CallStep
<1>6. pc'[c] = "idle" /\ outcome'[c] = "ok" => ~Resolves(pending')
  <2> SUFFICES ASSUME pc'[c] = "idle", outcome'[c] = "ok"  PROVE ~Resolves(pending')
    OBVIOUS
  <2>1. CASE SkipApplied(c)
    <3>1. pending' = pending /\ pc[c] = "check" /\ lastProfile # None
      BY <1>1, <2>1 DEF SkipApplied
    <3> QED  BY <3>1 DEF MarkerClearedWhileDeferred, Resolves
  <2>2. CASE FinishApply(c)
    <3>1. pending' = pending /\ pc[c] = "rest" /\ outcome[c] = "ok"
      BY <1>1, <2>2 DEF FinishApply
    <3> QED  BY <3>1 DEF CleanOutcome, Resolves
  <2>3. CASE ~SkipApplied(c) /\ ~FinishApply(c)
    BY <1>1, <1>2, <1>3, <2>3 DEF CallStep, StartApply, CpuSteps, DeferGpuStep, BeginGpuStep, Write,
                EndGpuStep, Begin
  <2> QED  BY <2>1, <2>2, <2>3
<1>7. BannerInv(c)'
  BY <1>2, <1>3, <1>6 DEF BannerInv, Resolves
<1> QED  BY <1>5, <1>7

\* A frame makes the banner complete by a reply that says so, or by a report of
\* its own step.
LEMMA FrameBanner ==
  ASSUME NEW c \in Calls, OwnReport(c), BannerInv(c), Frame
  PROVE  OwnReport(c)' /\ BannerInv(c)'
<1> DEFINE applied == {i \in DOMAIN chan : chan[i].origin = "ProfileApply"}
           first == CHOOSE i \in applied : \A j \in applied : i <= j
           resolves == waiting /\ applied # {}
           read == startup = "sent" /\ reply # None
<1>1. /\ waiting' = IF read /\ reply = "deferred" THEN TRUE ELSE waiting /\ ~resolves
      /\ status' = IF read THEN StatusFromReply(reply)
                   ELSE IF resolves THEN StatusFromDeferred(chan[first]) ELSE status
      /\ startup' = IF read THEN "done" ELSE startup
      /\ reply' = IF read THEN None ELSE reply
      /\ chan' = <<>> /\ UNCHANGED <<vars, kind, taken, overlap>>
  BY DEF Frame
<1>2. UNCHANGED <<pc, outcome, gen, pending, report>>
  BY <1>1 DEF vars, control, deferral, threads
<1>3. resolves => Reported
  BY DEF Reported, Resolves
<1> HIDE DEF resolves
<1>4. Reported' => Reported
  <2>1. DOMAIN chan' = {}
    BY <1>1
  <2> QED  BY <1>1, <1>2, <2>1 DEF Reported, Resolves
<1>5. OwnReport(c)'
  BY <1>1, <1>2, <1>4 DEF OwnReport, Resolves
<1>6. read => (StatusFromReply(reply) = "complete" => reply = "ok")
  BY DEF StatusFromReply, BannerInv
<1>7. kind = "startup" /\ pc[c] = "idle" /\ status' = "complete" /\ ~overlap => ~Resolves(pending)
  BY <1>1, <1>3, <1>6 DEF BannerInv, OwnReport
<1>8. kind = "startup" /\ pc[c] # "idle" => reply' = None /\ ~waiting' /\ status' # "complete"
  <2>1. resolves => waiting
    BY DEF resolves
  <2> QED  BY <1>1, <2>1 DEF BannerInv
<1>9. BannerInv(c)'
  BY <1>1, <1>2, <1>7, <1>8 DEF BannerInv, Resolves
<1> QED  BY <1>5, <1>9

LEMMA NextInbox ==
  ASSUME Inv, InboxType, [StartupNext]_<<vars, gui>>
  PROVE  InboxType'
<1>1. ASSUME UNCHANGED inbox  PROVE InboxType'
  BY <1>1 DEF InboxType, inbox
<1>2. ASSUME NEW c \in Calls, Call(c) \/ \E p \in Profiles : SendStartup(c, p) \/ UserApply(c, p)
      PROVE  UNCHANGED inbox
  BY <1>2 DEF Call, SendStartup, UserApply
<1>3. CASE (UNCHANGED gui) \/ UNCHANGED <<vars, gui>>
  BY <1>1, <1>3 DEF gui
<1>4. CASE PollReport
  BY <1>4 DEF PollReport, Inv, TypeOK, InboxType
<1>5. CASE Deliver
  BY <1>5 DEF Deliver, InboxType
<1>6. CASE Frame
  BY <1>6 DEF Frame, InboxType
<1> QED  BY <1>1, <1>2, <1>3, <1>4, <1>5, <1>6 DEF StartupNext

LEMMA NextBanner ==
  ASSUME NEW c, Calls = {c}, Inv, StaticWritesExclusive, CleanOutcome(c),
         MarkerClearedWhileDeferred, AttemptOrigin, OwnReport(c), BannerInv(c), InboxType,
         [StartupNext]_<<vars, gui>>
  PROVE  OwnReport(c)' /\ BannerInv(c)'
<1>1. /\ c \in Calls /\ c # Job /\ pc \in [Threads -> CallPcs \cup JobPcs] /\ c \in Threads
      /\ outcome \in [Threads -> {"ok", "deferred", "err"} \cup Origins] /\ Job \in Threads
  BY DEF Inv, TypeOK, Threads
<1>2. ASSUME NEW p \in Profiles, SendStartup(c, p) \/ UserApply(c, p)
      PROVE  OwnReport(c)' /\ BannerInv(c)'
  <2>1. /\ pc[c] = "idle" /\ pc' = [pc EXCEPT ![c] = "check"]
        /\ outcome' = [outcome EXCEPT ![c] = "ok"] /\ UNCHANGED <<gen, pending, report>>
    BY <1>2 DEF SendStartup, UserApply, ApplyProfile, Goto, deferral
  <2>2. /\ UNCHANGED <<reply, taken, chan, waiting, overlap>>
        /\ \/ startup = "limits" /\ startup' = "sent" /\ status' = "applying"
           \/ kind' = "user" /\ startup' = startup
    BY <1>2 DEF SendStartup, UserApply, inbox, banner
  <2>3. Reported' <=> Reported
    BY <1>1, <2>1, <2>2 DEF Reported, Resolves
  <2> QED  BY <1>1, <2>1, <2>2, <2>3 DEF OwnReport, BannerInv, Resolves
<1>3. ASSUME UNCHANGED <<pc, outcome, gen, pending>>, UNCHANGED <<banner, reply, kind, overlap>>,
             Reported' => Reported
      PROVE  OwnReport(c)' /\ BannerInv(c)'
  BY <1>3 DEF OwnReport, BannerInv, banner, Resolves
<1>4. CASE JobStep /\ UNCHANGED gui
  <2>1. UNCHANGED gen /\ UNCHANGED pc[c] /\ UNCHANGED outcome[c]
    BY <1>1, <1>4, JobKeepsCalls DEF control
  <2>2. /\ Resolves(pending') => Resolves(pending)
        /\ Reported' => Reported \/ (Resolves(pending) /\ ~Resolves(pending'))
    BY <1>4, JobReports
  <2>3. UNCHANGED <<startup, waiting, status, reply, kind, overlap>>
    BY <1>4 DEF gui, banner
  <2>4. OwnReport(c)'
    BY <2>1, <2>2, <2>3 DEF OwnReport
  <2>5. BannerInv(c)'
    BY <2>1, <2>2, <2>3 DEF BannerInv, Resolves
  <2> QED  BY <2>4, <2>5
<1>5. CASE ((GateFlips \/ IdleElapses \/ RetryElapses) /\ UNCHANGED gui) \/ UNCHANGED <<vars, gui>>
  <2>1. UNCHANGED <<pc, outcome, gen, pending, report, gui>>
    BY <1>5 DEF GateFlips, IdleElapses, RetryElapses, vars, control, deferral, threads
  <2>2. Reported' => Reported
    BY <2>1 DEF Reported, Resolves, gui, inbox
  <2> QED  BY <1>3, <2>1, <2>2 DEF gui
<1>6. CASE PollReport
  <2>1. UNCHANGED <<pc, outcome, gen, pending, banner, reply, kind, overlap, chan>>
    BY <1>6 DEF PollReport, TakeReport, control, deferral, threads
  <2>2. taken' = report.pending /\ report' = [report EXCEPT !.pending = None]
    BY <1>6 DEF PollReport, TakeReport
  <2>3. report'.pending = None
    BY <2>2 DEF Inv, TypeOK
  <2>4. Reported' => Reported
    BY <2>1, <2>2, <2>3 DEF Reported, Resolves
  <2> QED  BY <1>3, <2>1, <2>4
<1>7. CASE Deliver
  <2>1. UNCHANGED <<pc, outcome, gen, pending, report, banner, reply, kind, overlap>>
        /\ taken' = None /\ chan' = Append(chan, taken) /\ taken # None
    BY <1>7 DEF Deliver, vars, control, deferral, threads
  <2>2. \A i \in DOMAIN chan' : (i \in DOMAIN chan /\ chan'[i] = chan[i]) \/ chan'[i] = taken
    BY <2>1 DEF InboxType
  <2>3. Reported' => Reported
    BY <2>1, <2>2 DEF Reported, Resolves
  <2> QED  BY <1>3, <2>1, <2>3
<1> QED  BY <1>1, <1>2, <1>4, <1>5, <1>6, <1>7, CallBanner, FrameBanner DEF StartupNext

\* For one call at a time, any number of applies and any profiles: a banner that
\* says the startup profile is applied is right (startup_status_from_reply,
\* startup_status_from_deferred), whatever was applied before, unless a report of
\* that was still on its way when the startup apply was put off.
THEOREM CompleteTellsTruth ==
  ASSUME NEW c, Calls = {c}
  PROVE  StartupSpec => []CompleteIsTrue
<1>1. StartupInit => /\ Init /\ CleanOutcome(c) /\ MarkerClearedWhileDeferred /\ AttemptOrigin
                     /\ OwnReport(c) /\ BannerInv(c) /\ InboxType
  BY DEF StartupInit, InboxType, Init, CleanOutcome, MarkerClearedWhileDeferred, AttemptOrigin, OwnReport,
         BannerInv, Reported, Resolves, Threads
<1>2. /\ Inv /\ StaticWritesExclusive /\ CleanOutcome(c) /\ MarkerClearedWhileDeferred
      /\ AttemptOrigin /\ OwnReport(c) /\ BannerInv(c) /\ InboxType /\ [StartupNext]_<<vars, gui>>
      => /\ CleanOutcome(c)' /\ MarkerClearedWhileDeferred' /\ AttemptOrigin'
         /\ OwnReport(c)' /\ BannerInv(c)' /\ InboxType'
  BY StartupStep, NextCleared, NextOrigin, NextBanner, NextInbox
<1>3. BannerInv(c) => CompleteIsTrue
  BY DEF BannerInv, CompleteIsTrue
<1>4. StartupInit => Inv /\ StaticWritesExclusive
  BY <1>1, InitInv, InitExclusive
<1>5. Inv /\ StaticWritesExclusive /\ [StartupNext]_<<vars, gui>> => Inv' /\ StaticWritesExclusive'
  BY StartupStep, NextInv, NextExclusive
<1> QED  BY <1>1, <1>2, <1>3, <1>4, <1>5, PTL DEF StartupSpec
==============================================================================
