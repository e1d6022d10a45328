------------------------------- MODULE Shell --------------------------------
(***************************************************************************)
(* The one window and the panel it turns into: shown and hidden by the       *)
(* global key, by the D-Bus method, by the tray and by its own menu.  Other  *)
(* threads only set flags and ask for a frame; the frame does the rest, and  *)
(* a hidden window has none that was not asked for.                         *)
(***************************************************************************)
EXTENDS Hotkey

CONSTANTS
  StartFrames,  \* frames that hide a window which starts minimized
  MaxEvents     \* bound: tray events that wait

VARIABLES
  win,        \* the window thread's state
  wake,       \* a frame has been asked for
  requested,  \* Visibility.requested
  caller,     \* the D-Bus method: "idle", or "asks" between its flag and its frame
  dbus,       \* dbus_available
  trayOn,     \* tray_enabled of the configuration
  minimize,   \* start_minimized, or --tray
  events,     \* the tray's channel
  open        \* the process runs

shellVars == <<win, wake, requested, caller, dbus, trayOn, minimize, events, open>>

TrayEvents == {"ShowWindow", "ShowStatistics", "Quit"}

ShellTypeOK ==
  /\ TypeOK
  /\ win \in [mode : {"normal", "panel"}, pending : {"none", "normal", "panel"},
              applied : BOOLEAN, hidden : BOOLEAN, hide : BOOLEAN, shown : BOOLEAN,
              away : BOOLEAN, settings : BOOLEAN, starts : 0..StartFrames,
              closing : BOOLEAN, quit : BOOLEAN]
  /\ {wake, requested, dbus, trayOn, minimize, open} \subseteq BOOLEAN
  /\ caller \in {"idle", "asks"} /\ events \in Seq(TrayEvents)

\* away: history, the window was unmapped by something else than a hide.
WindowInit ==
  /\ minimize \in BOOLEAN /\ trayOn \in BOOLEAN
  /\ \E mode \in {"normal", "panel"} :
       win = [mode |-> mode, pending |-> "none", applied |-> mode = "normal",
              hidden |-> FALSE, hide |-> FALSE, shown |-> ~minimize, away |-> minimize,
              settings |-> FALSE, starts |-> StartFrames, closing |-> FALSE, quit |-> FALSE]
  /\ wake = TRUE /\ requested = FALSE /\ caller = "idle" /\ dbus = FALSE
  /\ events = <<>> /\ open = TRUE

ShellInit == Init /\ WindowInit

-----------------------------------------------------------------------------
(* What a frame does with the window.                                       *)

\* has_return_path.
HasReturnPath == IsReliableRoute(status) \/ trayOn \/ dbus

\* Mutant of ToggleAction: a way back is looked for first.
ToggleHidesFirst(w) ==
  IF w.mode = "panel" /\ HasReturnPath THEN "Hide"
  ELSE IF w.hidden THEN "ShowAgain"
  ELSE IF w.mode # "panel" THEN "EnterPanel" ELSE "ReturnToNormal"

\* toggle_action: a panel that is hidden is shown before anything else.
ToggleAction(w) ==
  IF w.hidden THEN "ShowAgain"
  ELSE IF w.mode # "panel" THEN "EnterPanel"
  ELSE IF HasReturnPath THEN "Hide" ELSE "ReturnToNormal"

Visible(w, on) == [w EXCEPT !.shown = on, !.away = FALSE]
Hidden(w) == [Visible(w, FALSE) EXCEPT !.hidden = TRUE]
RefuseHide(w) == [w EXCEPT !.pending = "normal"]

\* apply_visibility_toggle.
Toggled(w) ==
  CASE ToggleAction(w) = "ShowAgain" -> [Visible(w, TRUE) EXCEPT !.hidden = FALSE]
    [] ToggleAction(w) = "EnterPanel" ->
         [Visible(w, TRUE) EXCEPT !.hidden = FALSE, !.pending = "panel"]
    [] ToggleAction(w) = "Hide" -> Hidden(w)
    [] ToggleAction(w) = "ReturnToNormal" -> RefuseHide(w)

\* apply_hide: the menu's hide, which finds a panel that a toggle has just hidden.
HideApplied(w) ==
  LET v == [w EXCEPT !.hide = FALSE] IN
  IF ~w.hide \/ w.hidden THEN v ELSE IF HasReturnPath THEN Hidden(v) ELSE RefuseHide(v)

\* The first frames unmap a window that starts minimized.
StartApplied(w) ==
  IF w.starts = 0 THEN w
  ELSE [w EXCEPT !.starts = @ - 1, !.shown = @ /\ ~minimize, !.away = @ \/ (minimize /\ ~w.hidden)]

\* Mutant of ModeApplied: the panel's flag outlives the panel.
ModeAppliedOnly(w) ==
  IF w.pending = "none" THEN [w EXCEPT !.applied = TRUE]
  ELSE [w EXCEPT !.mode = w.pending, !.pending = "none", !.applied = TRUE]

\* apply_mode: the pending mode, or the one that the process started in; leaving a
\* hidden panel shows the window.
ModeApplied(w) ==
  LET target == IF w.pending # "none" THEN w.pending ELSE w.mode
      v == IF target = "normal" /\ w.hidden
           THEN [Visible(w, TRUE) EXCEPT !.hidden = FALSE] ELSE w
  IN  IF w.pending = "none" /\ w.applied THEN w
      ELSE [v EXCEPT !.mode = target, !.pending = "none", !.applied = TRUE]

\* handle_tray_events: one of those that wait.
TrayHandled(w) ==
  CASE events = <<>> -> w
    [] events # <<>> /\ Head(events) = "Quit" -> [w EXCEPT !.quit = TRUE, !.closing = TRUE]
    [] OTHER -> [Visible(w, TRUE) EXCEPT !.hidden = FALSE]

\* A close that is not a quit sends the window to the tray.
CloseHandled(w) ==
  IF w.closing /\ trayOn /\ ~w.quit
  THEN [w EXCEPT !.closing = FALSE, !.shown = FALSE, !.away = ~w.hidden] ELSE w

\* The clicks of a frame: what the panel's menu offers, and the settings window.
Clicks(w) ==
  IF w.mode # "panel" THEN {"none"}
  ELSE {"none"}
       \cup (IF w.hidden \/ ~w.shown THEN {}
             ELSE {"OpenSettings", "BackToNormal"}
                  \cup (IF HasReturnPath THEN {"Hide"} ELSE {}))
       \cup (IF w.settings THEN {"LeavePanel", "Restack", "CloseSettings", "ChangeKey"} ELSE {})

Clicked(w, c) ==
  CASE c = "Hide" -> [w EXCEPT !.hide = TRUE]
    [] c = "OpenSettings" -> [w EXCEPT !.settings = TRUE]
    [] c \in {"BackToNormal", "LeavePanel"} -> [w EXCEPT !.pending = "normal"]
    [] c = "Restack" -> [w EXCEPT !.applied = FALSE]
    [] c = "CloseSettings" -> [w EXCEPT !.settings = FALSE]
    [] OTHER -> w

Handled(w) == CloseHandled(TrayHandled(ModeApplied(StartApplied(HideApplied(w)))))

\* ui: the flags of both routes make one toggle; a window that is on screen asks
\* for its next frame, a change of the stacking for one more.  With the process its
\* threads end.
Frame ==
  /\ open /\ wake
  /\ \E w \in {Handled(IF requested \/ fired THEN Toggled(win) ELSE win)} :
       IF w.closing
       THEN /\ win' = w /\ open' = FALSE /\ StopWatcher
            /\ watcher' = [n \in Grabs |-> Gone]
            /\ UNCHANGED <<wake, display, foreign, spec, current, status, teller>>
       ELSE /\ \E c \in Clicks(w) :
                 /\ win' = Clicked(w, c) /\ wake' = (w.shown \/ c = "Restack")
                 /\ IF c = "ChangeKey" THEN \E s \in Specs \ {spec} : Regrab(s)
                    ELSE UNCHANGED <<display, foreign, spec, watcher, stop, current, status, teller>>
            /\ UNCHANGED open
  /\ requested' = FALSE /\ fired' = FALSE
  /\ events' = IF events = <<>> THEN <<>> ELSE Tail(events)
  /\ UNCHANGED <<caller, dbus, trayOn, minimize>>

-----------------------------------------------------------------------------
(* The other threads, and the user.                                         *)

\* export_control.
Export ==
  /\ open /\ ~dbus /\ dbus' = TRUE
  /\ UNCHANGED <<hotkeyVars, win, wake, requested, caller, trayOn, minimize, events, open>>

\* toggle_panel: request_toggle sets the flag ...
TogglePanel ==
  /\ open /\ dbus /\ caller = "idle"
  /\ requested' = TRUE /\ caller' = "asks"
  /\ UNCHANGED <<hotkeyVars, win, wake, dbus, trayOn, minimize, events, open>>

\* Mutant of RequestRepaint: only a window on screen is asked.
RequestShown == wake' = (wake \/ win.shown)

\* ... and then asks for the frame.
RequestRepaint == wake' = TRUE

AskRepaint ==
  /\ caller = "asks" /\ caller' = "idle" /\ RequestRepaint
  /\ UNCHANGED <<hotkeyVars, win, requested, dbus, trayOn, minimize, events, open>>

\* A thread of the key, which asks for a frame after a press.
KeyThread(n) ==
  /\ open
  /\ \/ Connect(n) \/ Grab(n) \/ Report(n) \/ Leave(n) \/ Break(n) \/ Press(n)
     \/ AskFrame(n)
  /\ IF watcher[n].at = "fires" THEN RequestRepaint ELSE UNCHANGED wake
  /\ UNCHANGED <<win, requested, caller, dbus, trayOn, minimize, events, open>>

\* The tray only queues: it asks for no frame.
TraySends(e) ==
  /\ open /\ trayOn /\ Len(events) < MaxEvents
  /\ events' = Append(events, e)
  /\ UNCHANGED <<hotkeyVars, win, wake, requested, caller, dbus, trayOn, minimize, open>>

\* A close of the window, the tray switched on the settings page, an update or a
\* timer that wakes the window.
UserCloses ==
  /\ open /\ win.shown /\ ~win.closing
  /\ win' = [win EXCEPT !.closing = TRUE] /\ wake' = TRUE
  /\ UNCHANGED <<hotkeyVars, requested, caller, dbus, trayOn, minimize, events, open>>

SwitchTray ==
  /\ open /\ win.mode = "normal" /\ win.shown /\ trayOn' = ~trayOn
  /\ UNCHANGED <<hotkeyVars, win, wake, requested, caller, dbus, minimize, events, open>>

Wakes ==
  /\ open /\ ~wake /\ wake' = TRUE
  /\ UNCHANGED <<hotkeyVars, win, requested, caller, dbus, trayOn, minimize, events, open>>

ShellNext ==
  \/ Frame \/ Export \/ TogglePanel \/ AskRepaint \/ UserCloses \/ SwitchTray \/ Wakes
  \/ (\E n \in Grabs : KeyThread(n)) \/ \E e \in TrayEvents : TraySends(e)

allVars == <<hotkeyVars, shellVars>>

ShellFairness ==
  WF_allVars(Frame) /\ WF_allVars(AskRepaint) /\ \A n \in Grabs : WF_allVars(KeyThread(n))

ShellSpec == ShellInit /\ [][ShellNext]_allVars /\ ShellFairness

-----------------------------------------------------------------------------
(* Properties.                                                              *)

\* What the flags say of the window is so: a hidden panel is the panel and is not
\* on screen, and nothing but a hide, a close to the tray or a minimized start takes
\* the window off it (apply_mode: "without this the app would keep running with no
\* window at all").
WindowAgrees ==
  /\ win.hidden => win.mode = "panel" /\ ~win.shown
  /\ win.shown <=> ~(win.hidden \/ win.away)

\* A request is never left without a frame, also one that arrives while a frame
\* takes the one before (request_toggle, watch_hotkey).
RequestHasFrame ==
  open /\ (requested \/ fired) =>
    wake \/ (requested /\ caller = "asks") \/ \E n \in Grabs : watcher[n].at = "fires"

\* A press of a hidden panel shows it (apply_visibility_toggle: "shows it again before
\* anything else is considered").
PressShows ==
  [][win.hidden /\ wake /\ open /\ (requested \/ fired) /\ ~(requested' \/ fired')
       /\ win.starts = 0 /\ ~win'.closing
     => win'.shown /\ ~win'.hidden]_allVars

\* Every request is taken (take_toggle).
RequestTaken == (requested \/ fired) ~> (~(requested \/ fired) \/ ~open)

\* A press that finds the window off the screen brings it back
\* (apply_visibility_toggle: "a second hide would leave the user with nothing on
\* screen and no second press to undo it").
PressBringsBack ==
  [][~win.shown /\ win.starts = 0 /\ win.mode = "panel" /\ (requested \/ fired)
       /\ ~(requested' \/ fired') /\ ~win'.closing
     => win'.shown]_allVars
=============================================================================
