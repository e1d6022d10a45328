----------------------------- MODULE WindowParts -----------------------------
(***************************************************************************)
(* The panel's global key and the window that it shows, with what is claimed *)
(* of them.                                                                 *)
(***************************************************************************)
EXTENDS Integers

CONSTANTS
  Locks, Specs, Foreign, MaxGrabs,   \* Hotkey
  StartFrames, MaxEvents             \* Shell

VARIABLES
  display, foreign, spec, watcher, stop, current, status, teller, fired,
  win, wake, requested, caller, dbus, trayOn, minimize, events, open

Panel == INSTANCE Shell

-----------------------------------------------------------------------------
\* What is told of the key is what is caught; the flags of the window are what is
\* on screen, and no request waits without a frame (grab_hotkey, watch_hotkey,
\* apply_mode, request_toggle).
PanelComesBack ==
  /\ Panel!ShellTypeOK /\ Panel!EffectiveIsGrabbed /\ Panel!CaughtIsListenedTo
  /\ Panel!WindowAgrees /\ Panel!RequestHasFrame
=============================================================================
