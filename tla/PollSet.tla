------------------------------ MODULE PollSet -------------------------------
(***************************************************************************)
(* Which components the coordinator ticks: each frame compares the set that *)
(* the surface on screen needs with the one sent last, and sends a changed   *)
(* one through the coordinator's channel.  The log ring is asked for only    *)
(* while a recent frame has shown its tab.                                   *)
(***************************************************************************)
EXTENDS Integers, Sequences

CONSTANTS
  Order,       \* the components, in the order they are registered
  Rows,        \* the sets of components that the visible rows of a panel may need
  Fresh        \* UI_FRAME_FRESH_MS, in ticks

VARIABLES
  panel,       \* the panel is on screen, not the window
  rows,        \* the components of the panel's visible rows
  lastPollSet, \* last_poll_set
  commands,    \* the coordinator's channel
  registered,  \* the components it knows
  paused,      \* those it does not tick
  drawn,       \* the set that the last frame's surface needs, "all" for the window
  logsTab,     \* the log tab is selected
  stamp        \* LOGS_TAB_ON_SCREEN, and the age of LAST_UI_FRAME_MS

pollSetVars == <<panel, rows, lastPollSet, commands, registered, paused, drawn, logsTab, stamp>>

Components == {Order[i] : i \in DOMAIN Order}

Register(c) == [type |-> "Register", set |-> {c}]

TypeOK ==
  /\ panel \in BOOLEAN /\ rows \in Rows /\ lastPollSet \subseteq Components
  /\ commands \in Seq([type : {"Register", "SetPollSet", "ClearPollSet"}, set : SUBSET Components])
  /\ registered \subseteq Components /\ paused \subseteq registered
  /\ drawn \in Rows \cup {{"all"}} /\ logsTab \in BOOLEAN
  /\ stamp \in [logs : BOOLEAN, age : 0..Fresh+1]

Registrations == [i \in DOMAIN Order |-> Register(Order[i])]

\* The registrations are in the channel before the first frame is drawn.
Init ==
  /\ panel \in BOOLEAN /\ rows \in Rows /\ lastPollSet = {}
  /\ commands = Registrations
  /\ registered = {} /\ paused = {} /\ drawn = {"all"}
  /\ logsTab = FALSE /\ stamp = [logs |-> FALSE, age |-> 0]

-----------------------------------------------------------------------------
(* The coordinator.                                                         *)

\* Mutant of Paused: what was paused stays so.
PausedForGood(m) ==
  CASE m.type = "Register" -> paused \ m.set
    [] m.type = "SetPollSet" -> paused \cup (registered \ m.set)
    [] m.type = "ClearPollSet" -> {}

\* A set pauses every other component that is registered; a registration begins
\* with a component that is ticked.
Paused(m) ==
  CASE m.type = "Register" -> paused \ m.set
    [] m.type = "SetPollSet" -> registered \ m.set
    [] m.type = "ClearPollSet" -> {}

Receive ==
  /\ commands # <<>>
  /\ commands' = Tail(commands)
  /\ paused' = Paused(Head(commands))
  /\ registered' = registered \cup (IF Head(commands).type = "Register" THEN Head(commands).set ELSE {})
  /\ UNCHANGED <<panel, rows, lastPollSet, drawn, logsTab, stamp>>

Ticked == registered \ paused

-----------------------------------------------------------------------------
(* The frame.                                                               *)

\* Mutant of PollSetCommand: the window's set is sent as it is.
PollSetAsIs(wanted) == [type |-> "SetPollSet", set |-> wanted]

\* sync_poll_set.
PollSetCommand(wanted) ==
  [type |-> IF wanted = {} THEN "ClearPollSet" ELSE "SetPollSet", set |-> wanted]

Frame ==
  /\ LET wanted == IF panel THEN rows ELSE {}
     IN  IF wanted = lastPollSet THEN UNCHANGED <<lastPollSet, commands>>
         ELSE lastPollSet' = wanted /\ commands' = Append(commands, PollSetCommand(wanted))
  /\ drawn' = IF panel THEN rows ELSE {"all"}
  /\ stamp' = [logs |-> logsTab, age |-> 0]
  /\ UNCHANGED <<panel, rows, registered, paused, logsTab>>

\* Mutant of FetchLogs: the age of the frame is not looked at.
FetchLogsHidden == "logs" \in Ticked /\ stamp.logs

\* should_fetch_logs.
FetchLogs == "logs" \in Ticked /\ stamp.logs /\ stamp.age <= Fresh

\* The mode, the rows and the page change between frames.
Change ==
  /\ panel' \in BOOLEAN /\ rows' \in Rows /\ logsTab' \in BOOLEAN
  /\ Len(commands) < 2
  /\ UNCHANGED <<lastPollSet, commands, registered, paused, drawn, stamp>>

Tick ==
  /\ stamp.age <= Fresh
  /\ stamp' = [stamp EXCEPT !.age = @ + 1]
  /\ UNCHANGED <<panel, rows, lastPollSet, commands, registered, paused, drawn, logsTab>>

Next == Receive \/ Frame \/ Change \/ Tick

Spec == Init /\ [][Next]_pollSetVars

-----------------------------------------------------------------------------
(* Properties.                                                              *)

\* When the coordinator has followed, it ticks what the last frame needs: every
\* component for the window, also after a visit to the panel, the rows' ones for
\* a panel that has any (sync_poll_set: "would freeze the main window for ever").
SurfaceIsPolled ==
  commands = <<>> =>
    /\ drawn = {"all"} => Ticked = registered
    /\ drawn \notin {{}, {"all"}} => Ticked = drawn \cap registered

\* The log ring is not fetched for a window that is not painted, nor for a panel
\* with rows (should_fetch_logs).
LogsOnlyWhenSeen ==
  FetchLogs /\ commands = <<>> => stamp.age <= Fresh /\ drawn \in {{}, {"all"}}

\* A panel with no rows polls nothing (sync_poll_set: "correct for a panel with no
\* rows enabled").
EmptyPanelPollsNothing == commands = <<>> /\ drawn = {} => Ticked = {}
=============================================================================
