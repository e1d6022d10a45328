------------------------------ MODULE MCStatic ------------------------------
(* Seven parts, each explored by itself: the GPU control with static profiles, *)
(* the GUI's configuration files, three parts of the panel - its atoms, its     *)
(* configuration and its place -, the tuning page and the list of profiles.     *)
(* The initial state says which, and the others stand still.                   *)
EXTENDS MCGpuControl, PanelParts, PageParts

VARIABLE part

fileVars == <<file, at, ops, mem, found, passes, broken, changes, crashes, faults,
              saving, kept, lost, based, settled>>
atomVars == <<choice, window, asked, generation, worker, round, managed, ready, actual, sent,
              failures, overtaken>>
panelVars == <<config, disk, grabbed, unsaved, typing, edits, failing>>
placeVars == <<mode, applied, monitor, shown, size, stored, pos, move, watch, drags, respecs, left>>
tuningVars == <<tuned, stowed, limits, range, given, putOff, lastApplied, posts, jobs, meant, passed,
                balked, strayed, tunes>>
listVars == <<list, current, written, asks, menu, marked, synced, clicks, drawing, clicked,
              refused, draft, unapplied, renamed, crossed>>
guiVars == <<fileVars, atomVars, panelVars, placeVars, tuningVars, listVars>>

TopPanel == [panel |-> TRUE, top |-> TRUE, hide |-> TRUE]
MCSelectable == {TopPanel, [TopPanel EXCEPT !.panel = FALSE], [TopPanel EXCEPT !.top = FALSE]}
MCRowOrder == <<"a", "b">>

Curve == <<<<0, 0>>, <<5, 5>>, <<8, 10>>>>
MCFanCurves == {<<>>, Curve, <<<<6, 4>>, <<2, 8>>>>}

\* The tuning page: the gate begins to forbid something only while no fan has a curve
\* of its own, which no gate reads.
TuningStep == Tune!Next /\ (balked' \in {balked, "nothing"} \/ ~tuned.custom)

MCInit ==
  /\ part \in {"gpu", "files", "atoms", "config", "place", "tuning", "profiles"}
  /\ Init /\ (part # "gpu" => gate)
  /\ Disk!Init
  /\ part # "files" => \A f \in {"settings", "config", "tray", "profiles"} : file[f] = Disk!Absent
  /\ Atoms!Init /\ (part # "atoms" => choice = TopPanel)
  /\ Conf!Init /\ (part # "config" => disk = Conf!Fresh)
  /\ Place!Init
  /\ part # "place" => mode = "normal" /\ monitor = 10 /\ shown = {} /\ stored = 2 /\ pos = 2
  /\ Tune!Init /\ (part # "tuning" => tuned = Tune!Standard)
  /\ Prof!Init /\ (part # "profiles" => current = "Standard" /\ list[2].says = "s")

MCNext ==
  \/ part = "gpu" /\ Next /\ UNCHANGED <<part, guiVars>>
  \/ /\ \/ /\ part = "files" /\ Disk!Next
           /\ UNCHANGED <<atomVars, panelVars, placeVars, tuningVars, listVars>>
        \/ /\ part = "atoms" /\ Atoms!Next
           /\ UNCHANGED <<fileVars, panelVars, placeVars, tuningVars, listVars>>
        \/ /\ part = "config" /\ Conf!Next
           /\ UNCHANGED <<fileVars, atomVars, placeVars, tuningVars, listVars>>
        \/ /\ part = "place" /\ Place!Next
           /\ UNCHANGED <<fileVars, atomVars, panelVars, tuningVars, listVars>>
        \/ /\ part = "tuning" /\ TuningStep
           /\ UNCHANGED <<fileVars, atomVars, panelVars, placeVars, listVars>>
        \/ /\ part = "profiles" /\ Prof!Next
           /\ UNCHANGED <<fileVars, atomVars, panelVars, placeVars, tuningVars>>
     /\ UNCHANGED <<part, vars>>

MCSpec == MCInit /\ [][MCNext]_<<part, vars, guiVars>>

\* The tuning page alone, and what the page promises of its Save.
TuningSpec == MCInit /\ part = "tuning" /\ [][MCNext]_<<part, vars, guiVars>>

\* "Disabling manual control will reset to factory settings": Tuning!ManualOffResets.
ManualOffResets == Tune!ManualOffResets
=============================================================================
