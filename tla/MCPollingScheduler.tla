------------------------- MODULE MCPollingScheduler -------------------------
(* Sets of rates for the runs of PollingScheduler. *)
EXTENDS PollingScheduler

MCRates == {0, 2}
MCOcRates == {1, 2}
=============================================================================
