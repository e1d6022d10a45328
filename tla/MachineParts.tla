---------------------------- MODULE MachineParts ----------------------------
(***************************************************************************)
(* The curve of a fan by itself, the calls that set the rest of the machine, *)
(* and what the daemon reads of it: the passes over the adapters, their      *)
(* numbering, the sessions with the driver and the readings that are         *)
(* differences, with what is claimed of them.  They share no state.          *)
(***************************************************************************)
EXTENDS FanControl

CONSTANTS
  CurveSettings, CurveTemps,                                        \* FanControl
  Cpus, Siblings, HwMin, HwMax, Offered, MaxLight, Requests,        \* ProfileSteps
  Strict, Breakable, MaxRequests,
  Adapters, Readers, ReadJobs, Delay, Latency, Reprobe, UtilFails,  \* GpuPolling
  Gpus, StatusWords, Readable,                                            \* GpuIdentity
  Askers, Widths,                                                   \* GpuDriver
  Measured, Takers, MaxNow, MaxCount, Wrap, IwFails                    \* Readings, and Askers, Kinds <- Measured

VARIABLES
  regs, waiting, plan, mine, fate, alone, reached, before, modified, torn, told, used, phase,
  power, work, rest, poll, pass, due, woken,
  order, word, learned, slots, statuses, todo, meta, good, roused,
  now, count, joined, cpu, prevCpu, prev, sample, load, rate,
  at, step, files, memory, nvapi, library

\* The fans with other settings, at other temperatures.
Curve == INSTANCE FanControl WITH Settings <- CurveSettings, Temps <- CurveTemps

\* The callers are the clients of the fans.
Prof == INSTANCE ProfileSteps WITH Callers <- Clients

Asks == INSTANCE GpuPolling WITH Clients <- Readers, Jobs <- ReadJobs

Ident == INSTANCE GpuIdentity WITH Words <- StatusWords

Driver == INSTANCE GpuDriver WITH Threads <- Askers

Diff == INSTANCE Readings WITH Threads <- Askers, Kinds <- Measured

-----------------------------------------------------------------------------
\* A call does what it was asked to, setting by setting, the limits that it does not speak
\* of kept, and the daemon's exit leaves what it found (apply_profile_inner,
\* set_amd_pstate_status, restore_cpu_frequency_limits).
AppliedAsAsked == Prof!AppliedAsAsked /\ Prof!ModeKeepsLimits /\ Prof!RestoredAtExit

\* A pass that saw only suspended adapters asks none, and queries none that it saw
\* suspended; no call asks or writes one, whatever the numbering (the polling tiers and
\* the write gate of hardware_detection.rs).  And no session that would keep one awake
\* stays open (NvidiaDriverHandle, get_nvidia_extended_stats).
SleepersLeftAlone == Asks!NotAskedAlone /\ Ident!SleepersLeftAlone /\ Driver!SessionsClosed

\* A pass takes for a device the status of no other adapter
\* (runtime_status_by_device).
StatusIsItsOwn == Ident!StatusIsItsOwn

\* A load is a percentage, and a rate never claims more than was counted
\* (calculate_cpu_load, read_wifi_rates, calculate_storage_rates, try_rapl).
ReadingsAreReal == Diff!LoadIsPercent /\ Diff!RateIsReal

\* So is the speed that a curve gives (FanCurve).
NumbersAreReal == Curve!SpeedIsBetween /\ ReadingsAreReal
=============================================================================
