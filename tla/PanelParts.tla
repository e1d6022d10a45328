----------------------------- MODULE PanelParts -----------------------------
(***************************************************************************)
(* The configuration files and the panel behind its window: the window's     *)
(* atoms, the configuration and the place, with what is claimed of them.     *)
(* They share no state.                                                      *)
(***************************************************************************)
EXTENDS Integers, Sequences

CONSTANTS
  Values, MaxRewrites, MaxCrashes, MaxBreaks,                                   \* ConfigFiles
  Selectable, Attempts, MaxRequests, MaxSendFaults,                             \* PanelAtoms
  RowOrder, Stranger, Least, Most, NaN, KeyTexts, MaxEntries, MaxEdits, MaxSaveFaults, \* PanelConfig
  Spots, Monitors, RowKinds, Settled, Tolerance, MaxDrags, MaxChanges          \* PanelPlace

VARIABLES
  file, at, ops, mem, found, passes, broken, changes, crashes, faults, saving, kept, lost,
  based, settled,
  choice, window, asked, generation, worker, round, managed, ready, actual, sent, failures,
  overtaken,
  config, disk, grabbed, unsaved, typing, edits, failing,
  mode, applied, monitor, shown, size, stored, pos, move, watch, drags, respecs, left

Disk == INSTANCE ConfigFiles WITH MaxChanges <- MaxRewrites, MaxFaults <- MaxBreaks, bad <- broken

Atoms == INSTANCE PanelAtoms WITH MaxFaults <- MaxSendFaults, settled <- ready

Conf == INSTANCE PanelConfig WITH
          Rows <- RowOrder, Keys <- KeyTexts, MaxFaults <- MaxSaveFaults, faults <- failing

Place == INSTANCE PanelPlace WITH Places <- Spots, Rows <- RowKinds, changes <- respecs

-----------------------------------------------------------------------------
\* What the user chose survives a kill and a failed write, the running process has
\* it, and profiles that were cut off have a copy (tray_config.rs, save_profiles_to_disk).
SettingsSurvive ==
  Disk!TypeOK /\ Disk!ChoicesSurvive /\ Disk!MemoryAgrees /\ Disk!ProfilesHaveCopy

\* The panel's window has the state of the newest request, whatever the older workers do
\* (RoundLock in panel/ewmh.rs).
NewestRequestHolds == Atoms!NewestRequestHolds

\* The panel can be laid out from whatever panel.json says, loses nothing of it, and saves
\* what the controls change and where the window settles (panel/config.rs, panel/menu.rs,
\* panel/window.rs).
PanelRemembers ==
  /\ Conf!Usable /\ Conf!OrderIsKept /\ Conf!EditsAreSaved
  /\ Place!TypeOK /\ Place!WatchAgrees

\* A load after one that went through changes nothing (migrate_tray_config), and a panel
\* that nobody moves stays where it was (track_panel_position).
NothingMovesByItself == Disk!SecondLoadIsIdle /\ Place!StaysWhereLeft
=============================================================================
