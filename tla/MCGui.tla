-------------------------------- MODULE MCGui -------------------------------
(* The window's parts, each explored by itself: the startup apply with the    *)
(* daemon's GPU control, the requests, the poll set and the gamepads; and the  *)
(* GPU control with a profile that is released when idle.  The initial state   *)
(* says which, and the others stand still.                                     *)
EXTENDS MCStartupApply, GuiParts

CONSTANTS C, D

VARIABLE part

\* C is released when idle and steered while it is not; D is neither.
IdleGpu == C :> [idle |-> TRUE, advanced |-> TRUE, manual |-> TRUE,
                 core |-> 1, clocks |-> "low"]
        @@ D :> [idle |-> FALSE, advanced |-> FALSE, manual |-> FALSE,
                 core |-> 1, clocks |-> "unlocked"]

MCGpu == StaticGpu @@ IdleGpu

\* The idle part: its profiles, and only the GPU's step of an apply fails.
IdleStep ==
  /\ Next /\ UNCHANGED gui
  /\ gpuState' \in {C, D, None} /\ hw'.core \in 0..1
  /\ \A c \in Calls : outcome'[c] = "err" => outcome[c] = "err" \/ pc[c] = "ops"

requestVars ==
  <<active, tasks, queue, awaited, replies, ordered, worker, fails, alive, service,
    held, made, mislaid, updates, latch, due, frame, visible, shown>>
pollSetVars == <<panel, needs, lastPollSet, commands, registered, paused, drawn, logsTab, stamp>>
padVars == <<identity, node, wire, nodes, listed, remembered>>
startupVars == <<vars, gui>>

MCRegistry == <<"cpu", "gpu", "logs">>
MCIdentities == [Pads -> {"mac", "serial", "model", "none"}]

MCInit ==
  /\ part \in {"startup", "requests", "pollset", "pads", "idle"}
  /\ StartupInit /\ (part \notin {"startup", "idle"} => gate)
  /\ Req!Init /\ (part # "requests" => service)
  /\ Poll!Init /\ (part # "pollset" => ~panel /\ needs = {} /\ commands = Poll!Registrations)
  /\ Pad!Init /\ (part # "pads" => identity = [p \in Pads |-> "mac"])

MCNext ==
  \/ part = "startup" /\ StartupNext /\ gpuState' \in {A, B, None}
     /\ UNCHANGED <<part, requestVars, pollSetVars, padVars>>
  \/ part = "idle" /\ IdleStep /\ UNCHANGED <<part, requestVars, pollSetVars, padVars>>
  \/ part = "requests" /\ Req!Next /\ UNCHANGED <<part, startupVars, pollSetVars, padVars>>
  \/ part = "pollset" /\ Poll!Next /\ UNCHANGED <<part, startupVars, requestVars, padVars>>
  \/ part = "pads" /\ Pad!Next /\ UNCHANGED <<part, startupVars, requestVars, pollSetVars>>

\* The fairness of StartupApply, for its part.
MCFairness ==
  /\ \A c \in Calls : SF_startupVars(part = "startup" /\ Call(c))
  /\ WF_startupVars(part = "startup" /\ JobStep /\ UNCHANGED gui)
  /\ WF_startupVars(part = "startup" /\ Frame)

MCSpec ==
  /\ MCInit /\ [][MCNext]_<<part, startupVars, requestVars, pollSetVars, padVars>>
  /\ MCFairness

-----------------------------------------------------------------------------
\* The fairness of GuiRequests and of GpuControl, for theirs.
RequestsRun ==
  /\ WF_requestVars(part = "requests" /\ Req!WorkerStep)
  /\ \A c \in Fetched :
       /\ WF_requestVars(part = "requests" /\ Req!Tick(c))
       /\ WF_requestVars(part = "requests" /\ Req!TaskStep(c))

GpuRuns ==
  /\ WF_vars(part = "idle" /\ JobStep) /\ SF_vars(part = "idle" /\ Decide("high"))
  /\ \A c \in Calls : WF_vars(part = "idle" /\ CallStep(c))

\* A dead connection is replaced while the requests run (dbus_worker).
WorkerRecovers == RequestsRun => Req!WorkerRecovers

\* The overclock that was released comes back with the work (idle_oc_release), while
\* the job and the calls run and work comes again and again.
WorkComesBack == GpuRuns /\ part = "idle" => WorkRestores
=============================================================================
