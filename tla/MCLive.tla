------------------------------- MODULE MCLive -------------------------------
(* Three parts, each explored by itself: the GPU control with a fair job, the *)
(* panel's global key, and the window that it shows.  The initial state says  *)
(* which, and the others stand still.                                         *)
EXTENDS MCGpuControl, WindowParts

VARIABLE part

keyVars == <<display, foreign, spec, watcher, stop, current, status, teller, fired>>
windowVars == <<win, wake, requested, caller, dbus, trayOn, minimize, events, open>>
panelVars == <<keyVars, windowVars>>

\* A key with a name that is ignored, one that names a lock key, one that is no key.
MCSpecs == {<<>>, <<"Shift", "F9">>, <<"Shift_R", "Wibble", "f9">>, <<"CapsLock", "F9">>, <<"F99">>}
MCForeign == {{}, {<<"F9", {"Shift"}>>}}

\* The window by itself: nobody else has the key, whose grabs are answered alike.
FewSpecs == {<<>>, <<"Shift", "F9">>}
OneAnswer ==
  \A n \in 0..MaxGrabs : watcher[n].held \in {{}, watcher[n].masks \ watcher[n].left}

MCInit ==
  /\ part \in {"gpu", "key", "window"}
  /\ Init /\ (part # "gpu" => gate)
  /\ Panel!ShellInit
  /\ part # "window" => ~minimize /\ ~trayOn /\ win.mode = "normal"
  /\ part # "key" => display /\ foreign = {} /\ spec \in FewSpecs
  /\ part = "gpu" => spec = <<>>

MCNext ==
  \/ part = "gpu" /\ Next /\ UNCHANGED <<part, panelVars>>
  \/ part = "key" /\ Panel!Next /\ UNCHANGED <<part, vars, windowVars>>
  \/ part = "window" /\ Panel!ShellNext /\ spec' \in FewSpecs /\ OneAnswer'
     /\ UNCHANGED <<part, vars>>

\* The fairness of GpuControl, Hotkey and Shell, for the part that moves.
MCFairness ==
  /\ WF_vars(part = "gpu" /\ JobStep) /\ SF_vars(part = "gpu" /\ Decide("high"))
  /\ \A c \in Calls : WF_vars(part = "gpu" /\ CallStep(c))
  /\ WF_keyVars(part = "key" /\ Panel!TakePress)
  /\ \A n \in {0, 1} :
       /\ WF_keyVars(part = "key" /\ Panel!ThreadStep(n))
       /\ WF_panelVars(part = "window" /\ Panel!KeyThread(n))
  /\ WF_panelVars(part = "window" /\ Panel!Frame)
  /\ WF_panelVars(part = "window" /\ Panel!AskRepaint)

MCSpec == MCInit /\ [][MCNext]_<<part, vars, panelVars>> /\ MCFairness

-----------------------------------------------------------------------------
\* A press of a hidden panel shows it, every request is taken, and a key that was given up is
\* free again (apply_visibility_toggle, take_toggle, hand_over_watcher).
PressAnswered == Panel!PressShows /\ Panel!RequestTaken /\ Panel!OldKeyReleased
=============================================================================
