----------------------------- MODULE PanelPlace ------------------------------
(***************************************************************************)
(* Where the panel is: the place that panel.json remembers is clamped to the *)
(* monitor and asked of the window manager, which rounds it and takes its    *)
(* time; the place that the window then reports is saved when it has held    *)
(* still.  One axis, in half points: the size of a panel is not a whole      *)
(* number of points, its place is.                                          *)
(***************************************************************************)
EXTENDS Integers

CONSTANTS
  Places,     \* where the user can drag the window, in whole points
  Monitors,   \* sizes of a monitor
  Rows,       \* the rows that can be shown: "text" or "graph"
  Settled,    \* POSITION_SETTLE, in the time between two frames
  Tolerance,  \* POSITION_MATCH_TOLERANCE
  MaxDrags, MaxChanges  \* bounds

VARIABLES
  mode,      \* "normal" or "panel"
  applied,   \* panel_spec_applied
  monitor,   \* its size, or Nowhere when it is not reported
  shown,     \* the rows that the configuration shows
  size,      \* the window's height, as it was asked for last
  stored,    \* panel_config.position, or Nowhere
  pos,       \* where the window is
  move,      \* a place that the window manager has been asked for, or Nowhere
  watch,     \* PositionWatch; still: the age of stable_since
  drags, changes,
  left       \* history: dragged, or asked for another place than the stored one, and not yet stored

placeVars == <<mode, applied, monitor, shown, size, stored, pos, move, watch, drags, changes, left>>
outside == <<monitor, shown, pos, drags, changes>>

Nowhere == -1
Reach == 0..20

\* slot_height, height_for_slots: a graph's strip is three rows high.
HeightFor(rows) == 2 + (IF "text" \in rows THEN 1 ELSE 0) + (IF "graph" \in rows THEN 3 ELSE 0)
Heights == {HeightFor(rows) : rows \in SUBSET Rows}

NewWatch == [observed |-> Nowhere, still |-> 0, requested |-> Nowhere, reported |-> Nowhere]

TypeOK ==
  /\ mode \in {"normal", "panel"} /\ {applied, left} \subseteq BOOLEAN
  /\ monitor \in Monitors \cup {Nowhere} /\ shown \subseteq Rows /\ size \in Heights \cup {Nowhere}
  /\ {stored, pos, move} \subseteq Reach \cup {Nowhere} /\ pos # Nowhere
  /\ watch \in [observed : Reach \cup {Nowhere}, still : 0..Settled, requested : Reach \cup {Nowhere},
                reported : Reach \cup {Nowhere}]

\* A process that starts as the panel, or not.
Init ==
  /\ mode \in {"normal", "panel"} /\ applied = (mode = "normal")
  /\ monitor \in Monitors /\ shown \in SUBSET Rows /\ size = Nowhere
  /\ stored \in Places \cup {Nowhere} /\ pos \in Places
  /\ move = Nowhere /\ watch = NewWatch /\ drags = 0 /\ changes = 0 /\ left = (stored = Nowhere)

-----------------------------------------------------------------------------
Smaller(a, b) == IF a < b THEN a ELSE b
Larger(a, b) == IF a < b THEN b ELSE a

\* clamp_axis.
ClampAxis(p, h, m) == Smaller(p, Larger(m - h, 0))

\* restore_position.
RestorePosition(p, h, m) == IF p = Nowhere \/ m = Nowhere THEN Nowhere ELSE ClampAxis(p, h, m)

\* Mutant of PositionMatches: to the last fraction.
PositionMatchesExactly(a, b) == a = b

\* position_matches.
PositionMatches(a, b) == a - b \in -Tolerance..Tolerance

\* Mutant of Requested: what is asked for does not restart the wait.
RequestedOnly(w, p) == [w EXCEPT !.requested = p]

\* PositionWatch::requested.
Requested(w, p) == [w EXCEPT !.requested = p, !.still = 0]

\* PositionWatch::observe, by a frame that comes when the wait is this old.
Observe(w, p, age) ==
  IF w.observed = p THEN [w EXCEPT !.still = age] ELSE [w EXCEPT !.observed = p, !.still = 0]

\* PositionWatch::step: it has settled, and has not been offered.
Settles(w) == w.observed # Nowhere /\ w.reported # w.observed /\ w.still = Settled

\* PositionWatch::step, and the rest of track_panel_position.
Tracked(w) ==
  IF ~Settles(w) THEN watch' = w /\ UNCHANGED stored
  ELSE /\ watch' = [w EXCEPT !.reported = w.observed, !.requested = Nowhere]
       /\ IF stored # Nowhere /\ PositionMatches(stored, w.observed)
          THEN UNCHANGED stored
          ELSE stored' = w.observed

\* mode_to_apply.
Sends(target) == target # mode \/ ~applied

\* panel_spec, normal_spec.
WindowSpec(target) ==
  IF target = "panel"
  THEN [size |-> HeightFor(shown), place |-> RestorePosition(stored, HeightFor(shown), monitor)]
  ELSE [size |-> Nowhere, place |-> Nowhere]

\* A frame's wait grows by the time since the last one; it is cut off at Settled.
Aged(now, dt) == Smaller(now + dt, Settled)

\* apply_mode sends the spec of the mode, and the place with the panel's; a frame of the
\* panel then looks where the window is.  The window manager has taken a place by the time
\* that a wait for it has settled.
Frame(target, dt) ==
  LET spec == WindowSpec(target)
      place == IF Sends(target) THEN spec.place ELSE Nowhere
      aged == [watch EXCEPT !.still = Aged(@, dt)]
      asked == IF place # Nowhere THEN Requested(aged, place) ELSE aged
  IN  /\ move # Nowhere => asked.still < Settled \/ place # Nowhere
      /\ mode' = target /\ applied' = TRUE
      /\ move' = IF place # Nowhere THEN place ELSE move
      /\ size' = IF Sends(target) THEN spec.size ELSE size
      /\ IF target = "panel" THEN Tracked(Observe(asked, pos, asked.still))
         ELSE watch' = asked /\ UNCHANGED stored
      /\ left' = ((left /\ stored' = stored)
                   \/ (place # Nowhere /\ place - stored \notin -Tolerance..Tolerance))
      /\ UNCHANGED outside

-----------------------------------------------------------------------------
(* The window manager, and the user.                                        *)

\* It takes the window to a whole point near the place.
Moved ==
  /\ move # Nowhere /\ move' = Nowhere
  /\ \E p \in Reach : p % 2 = 0 /\ p - move \in -1..1 /\ pos' = p
  /\ UNCHANGED <<mode, applied, monitor, shown, size, stored, watch, drags, changes, left>>

Drag ==
  /\ drags < MaxDrags /\ drags' = drags + 1 /\ move = Nowhere
  /\ pos' \in Places \ {pos} /\ left' = TRUE
  /\ UNCHANGED <<mode, applied, monitor, shown, size, stored, move, watch, changes>>

\* A row is shown or hidden: nothing is sent.
ToggleRow ==
  /\ changes < MaxChanges /\ changes' = changes + 1
  /\ \E row \in Rows : shown' = IF row \in shown THEN shown \ {row} ELSE shown \cup {row}
  /\ UNCHANGED <<mode, applied, monitor, size, stored, pos, move, watch, drags, left>>

\* The width or the stacking: the spec is sent again.
Respec ==
  /\ mode = "panel" /\ changes < MaxChanges /\ changes' = changes + 1 /\ applied' = FALSE
  /\ UNCHANGED <<mode, monitor, shown, size, stored, pos, move, watch, drags, left>>

\* Another start, with the monitor of that day.
Restart ==
  /\ changes < MaxChanges /\ changes' = changes + 1
  /\ mode' \in {"normal", "panel"} /\ applied' = (mode' = "normal")
  /\ monitor' \in Monitors \cup {Nowhere} /\ left' = (left \/ monitor' = Nowhere)
  /\ pos' \in Places /\ move' = Nowhere /\ watch' = NewWatch /\ size' = Nowhere
  /\ UNCHANGED <<shown, stored, drags>>

Next ==
  \/ Moved \/ Drag \/ ToggleRow \/ Respec \/ Restart
  \/ \E target \in {"normal", "panel"}, dt \in 1..Settled : Frame(target, dt)

Spec == Init /\ [][Next]_placeVars
-----------------------------------------------------------------------------
(* Properties.                                                              *)

\* What has been offered is what is stored, but for a rounding (PositionWatch: "offered
\* once and then not again").
WatchAgrees ==
  watch.reported # Nowhere => stored # Nowhere /\ PositionMatches(stored, watch.reported)

\* A panel that nobody moves does not creep: the place that is stored changes only when
\* the window was dragged or the stored place could not be asked for, never to one that
\* the window is about to leave (POSITION_MATCH_TOLERANCE, PositionWatch::requested).
StaysWhereLeft == [][stored' # stored => left /\ move = Nowhere]_placeVars
=============================================================================
