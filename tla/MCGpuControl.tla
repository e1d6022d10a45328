---------------------------- MODULE MCGpuControl ----------------------------
(* Model values and profiles for the runs of GpuControl. *)
EXTENDS GpuControl, TLC

CONSTANTS A, B

MCOffsets == 0..2
MCClocks == {"unlocked", "low", "high"}

\* Two static profiles: manual clocks, so that the job leaves the offset
\* alone; B leaves the core offset as it finds it.
StaticGpu == A :> [idle |-> FALSE, advanced |-> FALSE, manual |-> TRUE,
                   core |-> 1, clocks |-> "low"]
          @@ B :> [idle |-> FALSE, advanced |-> FALSE, manual |-> TRUE,
                   core |-> None, clocks |-> "high"]

\* A is steered, B static.
SteeredGpu == A :> [idle |-> FALSE, advanced |-> TRUE, manual |-> TRUE,
                    core |-> 1, clocks |-> "low"]
           @@ B :> [idle |-> FALSE, advanced |-> FALSE, manual |-> TRUE,
                    core |-> 2, clocks |-> "high"]

\* Two static profiles that are released when idle.
RestoredGpu == A :> [idle |-> TRUE, advanced |-> FALSE, manual |-> TRUE,
                     core |-> 1, clocks |-> "low"]
            @@ B :> [idle |-> TRUE, advanced |-> FALSE, manual |-> TRUE,
                     core |-> 2, clocks |-> "high"]
=============================================================================
