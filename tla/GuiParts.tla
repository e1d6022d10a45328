------------------------------ MODULE GuiParts ------------------------------
(***************************************************************************)
(* The parts of the window that run behind its pages: the requests, the poll *)
(* set and the gamepads, with what is claimed of them.  They share no state. *)
(***************************************************************************)
EXTENDS Integers, Sequences

CONSTANTS
  Fetched, Capacity, Limit, MaxOrders, MaxReports,  \* GuiRequests
  Registry, RowNeeds, FrameFresh,                      \* PollSet
  Pads, Identities, MaxNodes                           \* Gamepads

VARIABLES
  active, tasks, queue, awaited, replies, ordered, worker, fails, alive, service,
  held, made, mislaid, updates, latch, due, frame, visible, shown,
  panel, needs, lastPollSet, commands, registered, paused, drawn, logsTab, stamp,
  identity, node, wire, nodes, listed, remembered

Req == INSTANCE GuiRequests WITH Components <- Fetched, pending <- awaited, report <- held, chan <- updates

Poll == INSTANCE PollSet WITH Order <- Registry, Rows <- RowNeeds, Fresh <- FrameFresh, rows <- needs

Pad == INSTANCE Gamepads WITH list <- listed, rows <- remembered

-----------------------------------------------------------------------------
\* The window asks once for each component, loses no report that it was given, and
\* has a frame requested for what has arrived (InFlightSet of polling_scheduler.rs,
\* the gpu component of app.rs, request_repaint_now); the types of the requests.
ReportsShown == Req!ReportsShown

\* What the surface on screen needs is polled, the log ring only when it is seen
\* (sync_poll_set, should_fetch_logs).
SurfaceIsPolled == Poll!SurfaceIsPolled /\ Poll!LogsOnlyWhenSeen /\ Poll!TypeOK

\* The remembered gamepads do not pile up (gamepad_registry).
RowsDoNotPile == Pad!RowsDoNotPile /\ Pad!TypeOK
=============================================================================
