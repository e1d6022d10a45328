---------------------------- MODULE StartupApply ----------------------------
(***************************************************************************)
(* The GUI's side of a profile apply: the startup apply, its reply, the    *)
(* poll that takes the deferred report, and the frame that reads both,     *)
(* composed with the daemon of GpuControl.                                 *)
(*                                                                         *)
(* Calls is one call: dbus_worker sends a command only when the one before *)
(* it has been answered.  No frame runs while the window is hidden.        *)
(***************************************************************************)
EXTENDS GpuControl

VARIABLES
  startup, \* "limits": startup_apply_pending; "sent"; "done": reply consumed
  reply,   \* the content of the oneshot startup_apply_reply, or None
  kind,    \* the flow that the newest apply belongs to
  waiting, \* startup_waiting_for_gpu
  status,  \* startup_profile_status
  taken,   \* a report the gpu fetch has taken and not yet sent, or None
  chan,    \* the reports in the update channel
  overlap  \* ghost: an older apply's report was still on its way when the step of
           \* the startup apply was put off

banner == <<startup, waiting, status>>
inbox  == <<taken, chan>>
gui    == <<banner, reply, kind, inbox, overlap>>

StartupInit ==
  /\ Init
  /\ startup = "limits" /\ reply = None /\ kind = "user"
  /\ waiting = FALSE /\ status = "limits"
  /\ taken = None /\ chan = <<>> /\ overlap = FALSE

\* A report or a step that the banner of a startup apply goes by.
Resolves(r) == r # None /\ r.origin = "ProfileApply"

\* A report of an applied profile is on its way to the window.
Reported ==
  \/ pc[Job] = "publish" /\ outcome[Job] = "ProfileApply"
  \/ Resolves(report.pending) \/ Resolves(taken)
  \/ \E i \in DOMAIN chan : chan[i].origin = "ProfileApply"

\* claim_startup_apply: the CPU limits have arrived.
SendStartup(c, p) ==
  /\ startup = "limits"
  /\ ApplyProfile(c, p)
  /\ startup' = "sent" /\ status' = "applying" /\ kind' = "startup"
  /\ UNCHANGED <<waiting, reply, inbox, overlap>>

\* A profile switch in a page or in the tray.
UserApply(c, p) ==
  /\ ApplyProfile(c, p)
  /\ kind' = "user"
  /\ UNCHANGED <<banner, reply, inbox, overlap>>

\* The startup apply leaves its step in the slot while an older one is reported.
Overlaps(c) == kind = "startup" /\ pc'[c] = "rest" /\ Resolves(pending') /\ Reported

\* Mutant of Call: the error of an apply is dropped by the worker.
CallSilent(c) ==
  /\ CallStep(c)
  /\ reply' = IF pc'[c] = "idle" /\ kind = "startup" /\ outcome'[c] # "err"
              THEN outcome'[c] ELSE reply
  /\ overlap' = (overlap \/ Overlaps(c))
  /\ UNCHANGED <<banner, kind, inbox>>

\* The worker answers the oneshot when the daemon has replied.
Call(c) ==
  /\ CallStep(c)
  /\ reply' = IF pc'[c] = "idle" /\ kind = "startup" THEN outcome'[c] ELSE reply
  /\ overlap' = (overlap \/ Overlaps(c))
  /\ UNCHANGED <<banner, kind, inbox>>

\* The gpu fetch takes the report: a command of the worker as well, and one
\* fetch at a time.
PollReport ==
  /\ taken = None /\ \A c \in Calls : pc[c] = "idle"
  /\ TakeReport
  /\ taken' = report.pending
  /\ UNCHANGED <<banner, reply, kind, chan, overlap>>

Deliver ==
  /\ taken # None
  /\ chan' = Append(chan, taken) /\ taken' = None
  /\ UNCHANGED <<vars, banner, reply, kind, overlap>>

\* startup_status_from_deferred.
StatusFromDeferred(r) == IF Fatal(r.text) THEN "failed" ELSE "complete"

\* Mutant of StatusFromReply: a deferred step counts as done.
StatusFromReplyDone(o) == IF o = "err" THEN "failed" ELSE "complete"

\* startup_status_from_reply; "err" is the reply that is no result.
StatusFromReply(o) ==
  CASE o = "ok" -> "complete" [] o = "deferred" -> "waiting" [] o = "err" -> "failed"

\* handle_hardware_updates: the channel is drained first, then the reply of the
\* startup apply is looked at.
Frame ==
  /\ LET applied == {i \in DOMAIN chan : chan[i].origin = "ProfileApply"}
         first == CHOOSE i \in applied : \A j \in applied : i <= j
         resolves == waiting /\ applied # {}
         read == startup = "sent" /\ reply # None
     IN /\ waiting' = IF read /\ reply = "deferred" THEN TRUE ELSE waiting /\ ~resolves
        /\ status' = IF read THEN StatusFromReply(reply)
                     ELSE IF resolves THEN StatusFromDeferred(chan[first]) ELSE status
        /\ startup' = IF read THEN "done" ELSE startup
        /\ reply' = IF read THEN None ELSE reply
  /\ chan' = <<>>
  /\ UNCHANGED <<vars, kind, taken, overlap>>

StartupNext ==
  \/ \E c \in Calls : Call(c) \/ \E p \in Profiles : SendStartup(c, p) \/ UserApply(c, p)
  \/ (JobStep \/ GateFlips \/ IdleElapses \/ RetryElapses) /\ UNCHANGED gui
  \/ PollReport \/ Deliver \/ Frame

StartupSpec == StartupInit /\ [][StartupNext]_<<vars, gui>>

\* The daemon keeps working, and the window is shown: frames are drawn.
StartupFairness ==
  /\ \A c \in Calls : SF_<<vars, gui>>(Call(c))
  /\ WF_<<vars, gui>>(JobStep /\ UNCHANGED gui)
  /\ WF_<<vars, gui>>(Frame)

StartupFairSpec == StartupSpec /\ StartupFairness

(***************************************************************************)
(* Properties.                                                             *)
(***************************************************************************)
\* While the banner waits for the GPU step, the report that will resolve it is
\* still to come: the step is pending, being applied, or reported but unread
\* (app.rs: "keeps the banner in the waiting state until the deferred report
\* resolves it").
WaitingIsAnswered ==
  waiting /\ (\A c \in Calls : pc[c] = "idle") =>
    \/ Resolves(pending)
    \/ pc[Job] = "publish" /\ outcome[Job] = "ProfileApply"
    \/ Resolves(report.pending) \/ Resolves(taken)
    \/ \E i \in DOMAIN chan : Resolves(chan[i])

\* The banner of a startup apply does not stay at "applying": the daemon's
\* answer, an error included, reaches it.
StartupAnswered == startup = "sent" ~> startup = "done"

\* A banner that reports the startup profile as complete tells the truth until
\* something else is applied: nothing of it is pending, whatever was applied before
\* it.  A report does not say whose it is: the one case left out is that of a
\* report of an older apply which was still on its way when the step was put off,
\* and which resolves the banner too early.
CompleteIsTrue ==
  status = "complete" /\ kind = "startup" /\ (\A c \in Calls : pc[c] = "idle") /\ ~overlap
    => ~Resolves(pending)
=============================================================================
