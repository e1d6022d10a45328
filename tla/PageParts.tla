----------------------------- MODULE PageParts ------------------------------
(***************************************************************************)
(* The pages that edit: the tuning page and the list of profiles, with what *)
(* is claimed of them.  They share no state.                                *)
(***************************************************************************)
EXTENDS Integers, Sequences

CONSTANTS
  Highest, MaxPoints, FirstCurve, FanCurves, Nothing, MaxTunes,   \* Tuning
  BuiltIn, Names, Contents, Built, MaxClicks, MaxRefusals    \* Profiles

VARIABLES
  tuned, stowed, limits, range, given, putOff, lastApplied, posts, jobs, meant, passed, balked, strayed, tunes,
  list, current, written, asks, menu, marked, synced, clicks, drawing, clicked, refused,
  draft, unapplied, renamed, crossed

Tune == INSTANCE Tuning WITH Top <- Highest,
       Fresh <- FirstCurve, Curves <- FanCurves, None <- Nothing, MaxEdits <- MaxTunes,
       profile <- tuned, saved <- stowed, cpu <- limits, gpu <- range, hw <- given, pend <- putOff,
       marker <- lastApplied,
       tasks <- posts, queue <- jobs, overtaken <- passed, edits <- tunes

Prof == INSTANCE Profiles WITH
       Standard <- BuiltIn, MaxEdits <- MaxClicks, MaxFaults <- MaxRefusals,
       disk <- written, applied <- asks, edits <- clicked, faults <- refused

-----------------------------------------------------------------------------
\* What Save sends is what the profile says when all has been done, looking at the page
\* changes nothing that the user has set, and its controls keep their ranges and curves
\* (pages/tuning.rs, widgets/fan_curve_editor.rs).
TuningKeeps == Tune!SaveMeansIt /\ Tune!LookingKeeps /\ Tune!ControlsFit

\* A name stands for one profile, the current one is the one that was applied, the next start
\* and the tray agree (pages/profiles.rs, handle_tray_events).
ProfilesAgree == Prof!NamesStand /\ Prof!CurrentIsApplied /\ Prof!NextStartAgrees /\ Prof!TrayAgrees
=============================================================================
