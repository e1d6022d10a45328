--------------------------- MODULE MCStartupApply ---------------------------
(* Model values and profiles for the runs of StartupApply. *)
EXTENDS StartupApply, TLC

CONSTANTS A, B

MCOffsets == 0..2
MCClocks == {"unlocked", "low", "high"}

\* Two static profiles.
StaticGpu == A :> [idle |-> FALSE, advanced |-> FALSE, manual |-> TRUE,
                   core |-> 1, clocks |-> "low"]
          @@ B :> [idle |-> FALSE, advanced |-> FALSE, manual |-> TRUE,
                   core |-> 2, clocks |-> "high"]
=============================================================================
