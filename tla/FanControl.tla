----------------------------- MODULE FanControl -----------------------------
(***************************************************************************)
(* The fans of the laptop: the fan_control job, which applies the curves of *)
(* FAN_DAEMON_STATE once a second, beside the calls of a client, and below  *)
(* both TuxedoIo with its process-wide caches and the embedded controller.  *)
(*                                                                         *)
(* An action is the code between two accesses to something shared: an ioctl,*)
(* an atomic, a mutex.  A thread in set_fan_speed keeps its fan, the speed  *)
(* it was asked for and what it read.  Speeds of the Clevo interface are the*)
(* raw bytes the controller takes, those of Uniwill the levels it takes.    *)
(***************************************************************************)
EXTENDS Integers, Sequences, SequencesExt, FiniteSets

CONSTANTS
  Clients,     \* tasks of the D-Bus service
  Fans,        \* the fans of the machine, 0..n
  Settings,    \* FanSettings with control enabled: for some fans a curve
  Percents,    \* the speeds a client may ask for
  Temps,       \* the temperatures
  Firmware,    \* the speeds the firmware gives a fan on its own
  Perfs,       \* the values of the profile bits of the Uniwill mode byte
  Interfaces,  \* what the driver may be driving
  Faults,      \* whether ioctls fail and the firmware interferes
  Systemd,     \* whether the daemon ignores ShutdownDaemon
  MaxCalls     \* bound: calls made in a behaviour

Job == "job"
Threads == Clients \cup {Job}
None == <<>>   \* FAN_DAEMON_STATE without settings

ASSUME ConstantsOK ==
  /\ Job \notin Clients
  /\ Fans = 0..Cardinality(Fans)-1 /\ Fans \subseteq 0..2
  /\ Interfaces \subseteq {"Clevo", "Uniwill"}
  /\ Percents \subseteq 0..100 /\ Temps \subseteq 2..255 /\ Firmware \subseteq 1..255
  /\ 0 \in Perfs /\ Perfs \subseteq 0..255
  /\ Faults \in BOOLEAN /\ Systemd \in BOOLEAN

VARIABLES
  iface,     \* what detect_interface answered
  state,     \* FAN_DAEMON_STATE
  autoOff,   \* CLEVO_AUTO_DISABLED
  asked,     \* LAST_CLEVO_COMMANDED
  fresh,     \* LAST_CLEVO_PACKED is there, and less than 30 s old
  ec,        \* the controller: who drives the fans, the speeds, the mode byte
  temp,      \* the temperature, the same at every fan
  calm,      \* from now on the driver answers and the firmware keeps off
  pc, fan, want, seen,    \* of a thread: where it is, and its locals
  copy,      \* the settings the tick took
  calls,     \* calls made so far
  up,        \* the daemon runs
  leaving,   \* the GUI is on its way out
  perf,      \* history: the performance profile set last
  handed,    \* history: a client had the fans handed back, and none commands them since
  crossed,   \* history: the fans were handed back while another thread was about to command them
  raced      \* history: the profile changed between the two halves of clear_fan_ownership

shared == <<state, autoOff, asked, fresh>>
locals == <<fan, want, seen>>
outside == <<iface, temp, calm, up, leaving>>
vars == <<shared, ec, pc, locals, copy, calls, outside, perf, handed, crossed, raced>>

-----------------------------------------------------------------------------
(* The curve.                                                               *)

\* sort_by_key: a point goes behind the last one that is not above it, so the sort is stable.
PutIn(sorted, point) ==
  InsertAt(sorted, 1 + Max({0} \cup {i \in 1..Len(sorted) : sorted[i][1] <= point[1]}), point)

\* Mutant of ByTemp: the points as the user left them.
AsDrawn(curve) == curve

ByTemp(curve) == FoldLeft(PutIn, <<>>, curve)

\* a / b to the nearest whole number.
Nearest(a, b) == (2 * a + b) \div (2 * b)

Between(p, q, t) ==
  Nearest(p[2] * (q[1] - p[1]) + (t - p[1]) * (q[2] - p[2]), q[1] - p[1])

\* calculate_fan_speed, for points in the order of their temperatures.
FanSpeed(points, t) ==
  IF points = <<>> THEN 50
  ELSE IF Len(points) = 1 \/ t <= points[1][1] THEN points[1][2]
  ELSE IF t >= Last(points)[1] THEN Last(points)[2]
  ELSE LET holds(i) == points[i][1] <= t /\ t <= points[i+1][1]
           found == {i \in 1..Len(points)-1 : holds(i) /\ \A j \in 1..i-1 : ~holds(j)}
       IN  IF found = {} THEN 50
           ELSE LET i == CHOOSE i \in found : TRUE IN Between(points[i], points[i+1], t)

AtMost(n, percent) == IF percent < n THEN percent ELSE n

\* Mutant of Wire: full speed is 256, which no byte holds.
WireWide(percent) ==
  IF iface = "Clevo" THEN (AtMost(100, percent) * 256) \div 100 ELSE AtMost(200, percent)

\* What a speed in percent is on the wire: set_fan_speed, clevo_percent_to_raw.
Wire(percent) ==
  IF iface = "Clevo" THEN (AtMost(100, percent) * 255 + 50) \div 100 ELSE AtMost(200, percent)

Target(s, f) == Wire(FanSpeed(ByTemp(s[f]), temp))

-----------------------------------------------------------------------------
TypeOK ==
  /\ iface \in Interfaces
  /\ state \in Settings \cup {None} /\ copy \in Settings \cup {None}
  /\ autoOff \in BOOLEAN /\ asked \in [Fans -> 0..255]
  /\ fresh \in BOOLEAN
  /\ ec \in [by : {"firmware", "daemon"}, speed : [Fans -> 0..255],
             own : BOOLEAN, perf : Perfs]
  /\ temp \in Temps /\ calm \in BOOLEAN
  /\ pc \in [Threads -> {"idle", "next", "manual", "flag", "read", "write",
                         "record", "mode", "clear", "duty", "auto", "autoflag"}]
  /\ fan \in [Threads -> 0..3] /\ want \in [Threads -> 0..255]
  /\ seen \in [Threads -> [Fans -> 0..255]]
  /\ calls \in 0..MaxCalls /\ up \in BOOLEAN /\ leaving \in BOOLEAN
  /\ perf \in Perfs
  /\ {handed, crossed, raced} \subseteq BOOLEAN

Stopped == [f \in Fans |-> 0]

\* The controller is as the daemon before, or the firmware, left it.
Init ==
  /\ iface \in Interfaces
  /\ state = None /\ copy = None
  /\ autoOff = FALSE /\ asked = Stopped /\ fresh = FALSE
  /\ ec \in [by : {"firmware", "daemon"}, speed : [Fans -> Firmware],
             own : {FALSE}, perf : IF iface = "Clevo" THEN {0} ELSE Perfs]
  /\ temp \in Temps /\ calm = ~Faults
  /\ pc = [t \in Threads |-> "idle"]
  /\ fan = [t \in Threads |-> 0] /\ want = [t \in Threads |-> 0]
  /\ seen = [t \in Threads |-> Stopped]
  /\ calls = 0 /\ up = TRUE /\ leaving = FALSE
  /\ perf = ec.perf
  /\ handed = FALSE /\ crossed = FALSE /\ raced = FALSE

\* An ioctl answers, or fails where the driver may.
Outcomes == IF calm THEN {TRUE} ELSE BOOLEAN

At(t, where) == up /\ pc[t] = where
Goto(t, where) == pc' = [pc EXCEPT ![t] = where]

\* set_fan_speed or set_fan_auto returns: the tick goes on with its next fan,
\* whatever the answer, and a call is over.
Return(t) ==
  /\ Goto(t, IF t = Job THEN "next" ELSE "idle")
  /\ fan' = [fan EXCEPT ![t] = IF t = Job THEN @ + 1 ELSE 0]
  /\ want' = [want EXCEPT ![t] = 0]
  /\ seen' = [seen EXCEPT ![t] = Stopped]

\* Where set_fan_speed begins: a Clevo controller that is in automatic mode, as
\* far as the flag knows, is switched to manual first.
Begin == CASE iface = "Uniwill" -> "mode"
           [] iface = "Clevo" /\ autoOff -> "read"
           [] iface = "Clevo" /\ ~autoOff -> "manual"

-----------------------------------------------------------------------------
(* The tick of the fan_control job.                                         *)

Tick ==
  /\ At(Job, "idle") /\ state # None
  /\ copy' = state
  /\ Goto(Job, "next")
  /\ UNCHANGED <<shared, ec, locals, calls, outside, perf, handed>>

\* The next fan with a curve that exists; a temperature that cannot be read
\* leaves the fan alone.
NextFan ==
  /\ At(Job, "next")
  /\ LET left == {f \in DOMAIN copy \cap Fans : f >= fan[Job]} IN
       IF left = {}
       THEN /\ Goto(Job, "idle") /\ copy' = None
            /\ fan' = [fan EXCEPT ![Job] = 0]
            /\ UNCHANGED want
       ELSE LET f == CHOOSE f \in left : \A g \in left : f <= g IN
            \E ok \in Outcomes :
              /\ Goto(Job, IF ok THEN Begin ELSE "next")
              /\ fan' = [fan EXCEPT ![Job] = IF ok THEN f ELSE f + 1]
              /\ want' = [want EXCEPT ![Job] = IF ok THEN Target(copy, f) ELSE 0]
              /\ UNCHANGED copy
  /\ UNCHANGED <<shared, ec, seen, calls, outside, perf, handed>>

-----------------------------------------------------------------------------
(* TuxedoIo::set_fan_speed, the Clevo interface.                            *)

TakeManual(t) ==
  /\ At(t, "manual")
  /\ \E ok \in Outcomes :
       \/ ok /\ ec' = [ec EXCEPT !.by = "daemon"]
          /\ Goto(t, "flag") /\ UNCHANGED locals
       \/ ~ok /\ UNCHANGED ec /\ Return(t)
  /\ UNCHANGED <<shared, copy, calls, outside, perf, handed>>

\* CLEVO_AUTO_DISABLED is set, and invalidate_clevo_speed_cache called.
SetFlag(t) ==
  /\ At(t, "flag")
  /\ autoOff' = TRUE
  /\ asked' = Stopped /\ fresh' = FALSE
  /\ Goto(t, "read")
  /\ UNCHANGED <<state, ec, locals, copy, calls, outside, perf, handed>>

\* Mutant of ReadBack: a fan that cannot be read counts as standing still.
ReadBackAnyway(t) ==
  /\ At(t, "read")
  /\ \E ok \in Outcomes : seen' = [seen EXCEPT ![t] = IF ok THEN ec.speed ELSE Stopped]
  /\ Goto(t, "write")
  /\ UNCHANGED <<shared, ec, fan, want, copy, calls, outside, perf, handed>>

\* All fans are read; one that cannot be makes the call fail.
ReadBack(t) ==
  /\ At(t, "read")
  /\ \E ok \in Outcomes :
       \/ ok /\ seen' = [seen EXCEPT ![t] = ec.speed] /\ Goto(t, "write")
          /\ UNCHANGED <<fan, want>>
       \/ ~ok /\ Return(t)
  /\ UNCHANGED <<shared, ec, copy, calls, outside, perf, handed>>

\* Mutant of ShouldWrite: what was asked before is taken for what the fan does.
ShouldWriteChanged(t) == asked[fan[t]] # want[t]

\* clevo_should_write.
ShouldWrite(t) ==
  \/ asked[fan[t]] # want[t]
  \/ seen[t][fan[t]] # want[t]
  \/ ~fresh

\* One word for all fans: the others get what was read.  While the firmware
\* drives the fans it has no effect.
WriteSpeeds(t) ==
  /\ At(t, "write")
  /\ \E ok \in Outcomes :
       \/ ShouldWrite(t) /\ ok /\ Goto(t, "record") /\ UNCHANGED locals
          /\ ec' = IF ec.by = "firmware" THEN ec
                   ELSE [ec EXCEPT !.speed = [seen[t] EXCEPT ![fan[t]] = want[t]]]
       \/ ~(ShouldWrite(t) /\ ok) /\ Return(t) /\ UNCHANGED ec
  /\ UNCHANGED <<shared, copy, calls, outside, perf, handed>>

Record(t) ==
  /\ At(t, "record")
  /\ asked' = [asked EXCEPT ![fan[t]] = want[t]] /\ fresh' = TRUE
  /\ Return(t)
  /\ UNCHANGED <<state, autoOff, ec, copy, calls, outside, perf, handed>>

-----------------------------------------------------------------------------
(* TuxedoIo::set_fan_speed, the Uniwill interface: clear_fan_ownership reads *)
(* the mode byte, and writes it back without its bit 0x40.                   *)

ReadMode(t) ==
  /\ At(t, "mode")
  /\ \E ok \in Outcomes :
       \/ ok /\ ~ec.own /\ Goto(t, "duty") /\ UNCHANGED locals
       \/ ok /\ ec.own /\ Goto(t, "clear")
          /\ seen' = [seen EXCEPT ![t][0] = ec.perf] /\ UNCHANGED <<fan, want>>
       \/ ~ok /\ Return(t)
  /\ UNCHANGED <<shared, ec, copy, calls, outside, perf, handed>>

\* Mutant of ClearOwnership: only the bit is thought of.
ClearMode(t) ==
  /\ At(t, "clear")
  /\ ec' = [ec EXCEPT !.own = FALSE, !.perf = 0]
  /\ Goto(t, "duty")
  /\ UNCHANGED <<shared, locals, copy, calls, outside, perf, handed>>

ClearOwnership(t) ==
  /\ At(t, "clear")
  /\ \E ok \in Outcomes :
       \/ ok /\ ec' = [ec EXCEPT !.own = FALSE, !.perf = seen[t][0]]
          /\ Goto(t, "duty") /\ UNCHANGED locals
       \/ ~ok /\ Return(t) /\ UNCHANGED ec
  /\ UNCHANGED <<shared, copy, calls, outside, perf, handed>>

\* A duty is dropped without an error while the firmware owns the fans.
WriteDuty(t) ==
  /\ At(t, "duty")
  /\ \E ok \in Outcomes :
       ec' = IF ok /\ ~ec.own
             THEN [ec EXCEPT !.by = "daemon", !.speed[fan[t]] = want[t]] ELSE ec
  /\ Return(t)
  /\ UNCHANGED <<shared, copy, calls, outside, perf, handed>>

-----------------------------------------------------------------------------
(* TuxedoIo::set_fan_auto.                                                  *)

\* The fans are handed back for good if fan control is off and no other call commands them.
HandBack(t) ==
  /\ At(t, "auto")
  /\ \E ok \in Outcomes :
       IF ok
       THEN /\ ec' = [ec EXCEPT !.by = "firmware", !.own = FALSE]
            /\ handed' = (state = None /\ \A c \in Clients \ {t} : pc[c] = "idle")
            /\ IF iface = "Clevo" THEN Goto(t, "autoflag") /\ UNCHANGED locals ELSE Return(t)
       ELSE Return(t) /\ UNCHANGED <<ec, handed>>
  /\ UNCHANGED <<shared, copy, calls, outside, perf>>

\* Mutant of ClearFlag: the flag stays.
KeepFlag(t) ==
  /\ At(t, "autoflag")
  /\ asked' = Stopped /\ fresh' = FALSE
  /\ Return(t)
  /\ UNCHANGED <<state, autoOff, ec, copy, calls, outside, perf, handed>>

ClearFlag(t) ==
  /\ At(t, "autoflag")
  /\ autoOff' = FALSE
  /\ asked' = Stopped /\ fresh' = FALSE
  /\ Return(t)
  /\ UNCHANGED <<state, ec, copy, calls, outside, perf, handed>>

-----------------------------------------------------------------------------
(* The calls of a client.                                                   *)

Calls(c) == At(c, "idle") /\ ~leaving /\ calls < MaxCalls /\ calls' = calls + 1

\* apply_fan_settings, the last step of ApplyProfile.
ApplyFanSettings(c) ==
  /\ Calls(c)
  /\ \E s \in Settings \cup {None} :
       /\ state' = s /\ Goto(c, IF s = None THEN "auto" ELSE "idle")
       /\ handed' = (handed /\ s = None)
  /\ UNCHANGED <<autoOff, asked, fresh, ec, locals, copy, outside, perf>>

\* SetFanSpeed, which calls force_next_speed_write first.
SetFanSpeed(c) ==
  /\ Calls(c)
  /\ \E f \in Fans, p \in Percents :
       /\ fan' = [fan EXCEPT ![c] = f]
       /\ want' = [want EXCEPT ![c] = Wire(p)]
  /\ asked' = Stopped /\ fresh' = FALSE /\ handed' = FALSE
  /\ Goto(c, Begin)
  /\ UNCHANGED <<state, autoOff, ec, seen, copy, outside, perf>>

\* SetFanAuto and SetAllFansAuto.
SetAllFansAuto(c) ==
  /\ Calls(c)
  /\ Goto(c, "auto")
  /\ UNCHANGED <<shared, ec, locals, copy, outside, perf, handed>>

\* set_performance_profile: the driver sets the profile bits.
SetPerformanceProfile(c) ==
  /\ Calls(c) /\ iface = "Uniwill"
  /\ \E p \in Perfs : ec' = [ec EXCEPT !.perf = p] /\ perf' = p
  /\ UNCHANGED <<shared, pc, locals, copy, outside, handed>>

\* on_exit of the GUI: the fans are set to auto, and then the daemon is asked
\* to stop.
Leave(c) ==
  /\ Calls(c)
  /\ leaving' = TRUE
  /\ Goto(c, "auto")
  /\ UNCHANGED <<shared, ec, locals, copy, iface, temp, calm, up, perf, handed>>

\* ShutdownDaemon: the process ends, whatever its threads are at.
Shutdown(c) ==
  /\ At(c, "idle") /\ leaving /\ ~Systemd
  /\ up' = FALSE
  /\ UNCHANGED <<shared, ec, pc, locals, copy, calls, iface, temp, calm, leaving,
                 perf, handed>>

-----------------------------------------------------------------------------
(* Around the daemon.                                                       *)

CalmDown ==
  /\ ~calm
  /\ calm' = TRUE
  /\ UNCHANGED <<shared, ec, pc, locals, copy, calls, iface, temp, up, leaving,
                 perf, handed>>

Warm ==
  /\ ~calm
  /\ \E d \in Temps : temp' = d
  /\ UNCHANGED <<shared, ec, pc, locals, copy, calls, iface, calm, up, leaving,
                 perf, handed>>

\* The firmware gives a fan a speed of its own: while it drives the fans, or
\* after a resume.
FirmwareSets(f) ==
  /\ ~calm
  /\ \E r \in Firmware : ec' = [ec EXCEPT !.speed[f] = r]
  /\ UNCHANGED <<shared, pc, locals, copy, calls, outside, perf, handed>>

\* The firmware takes the fans of a Uniwill machine.
FirmwareTakes ==
  /\ ~calm /\ iface = "Uniwill"
  /\ ec' = [ec EXCEPT !.own = TRUE]
  /\ UNCHANGED <<shared, pc, locals, copy, calls, outside, perf, handed>>

\* 30 s since the last write.
Expire ==
  /\ up /\ fresh
  /\ fresh' = FALSE
  /\ UNCHANGED <<state, autoOff, asked, ec, pc, locals, copy, calls, outside,
                 perf, handed>>

-----------------------------------------------------------------------------
SpeedStep(t) ==
  \/ TakeManual(t) \/ SetFlag(t) \/ ReadBack(t)
  \/ WriteSpeeds(t) \/ Record(t)
  \/ ReadMode(t) \/ ClearOwnership(t) \/ WriteDuty(t)
  \/ HandBack(t) \/ ClearFlag(t)

JobStep == Tick \/ NextFan \/ SpeedStep(Job)

Call(c) ==
  \/ ApplyFanSettings(c) \/ SetFanSpeed(c) \/ SetAllFansAuto(c)
  \/ SetPerformanceProfile(c) \/ Leave(c) \/ Shutdown(c)

Environment ==
  \/ CalmDown
  \/ (\E f \in Fans : FirmwareSets(f)) \/ FirmwareTakes \/ Warm \/ Expire

Meet == \E t, u \in Threads :
  t # u /\ pc[t] \in {"auto", "autoflag"} /\ pc[u] # "idle"
MeetsClear == ec.perf # ec'.perf /\ perf # perf' /\ \E t \in Threads : pc[t] = "clear"

Watch == crossed' = (crossed \/ Meet') /\ raced' = (raced \/ MeetsClear)

Next ==
  /\ \/ JobStep
     \/ \E c \in Clients : SpeedStep(c) \/ Call(c)
     \/ Environment
  /\ Watch

Spec == Init /\ [][Next]_vars

\* The scheduler runs the job again and again, and a call that is in the daemon
\* goes on.
Fairness ==
  /\ WF_vars(JobStep /\ Watch) /\ \A c \in Clients : WF_vars(SpeedStep(c) /\ Watch)
  /\ WF_vars(CalmDown /\ Watch)

FairSpec == Spec /\ Fairness

-----------------------------------------------------------------------------
(* Properties.                                                              *)

Quiet == \A t \in Threads : pc[t] = "idle"

\* No fan ever runs at a speed that nobody asked for: the word that is written
\* for one fan gives the others what they really do, also beside a second thread
\* and failing reads (TuxedoIo::set_fan_speed, step 2).
Given(f) ==
  Firmware \cup {Wire(p) : p \in Percents}
    \cup {Wire(FanSpeed(ByTemp(s[f]), d)) : s \in {s \in Settings : f \in DOMAIN s}, d \in Temps}
OnlyGivenSpeeds == \A f \in Fans : ec.speed[f] \in Given(f)

\* Clearing the ownership bit of the mode byte, in two halves and by any threads at once,
\* leaves the performance profile beside it as it was set last; the one exception is a
\* profile that is set between the two halves (TuxedoIo::clear_fan_ownership).
ProfileKept == ~raced => ec.perf = perf

\* Once a client that turned the curves off, or returned the fans to automatic mode while
\* they are off, has had its answer, the firmware drives the fans until a client commands
\* them (README.md:47, "disabling custom curves sets the fans back to auto").  It does not hold:
\* a tick that has copied the curves takes the fans again after them (apply_fan_settings).
HandedBackStays == Quiet /\ handed => ec.by = "firmware"

\* The flag that saves the switch to manual is only up while the controller is
\* in manual mode: otherwise no speed would have an effect (CLEVO_AUTO_DISABLED).
FlagMeansManual == Quiet /\ ~crossed /\ autoOff => ec.by = "daemon"

\* Once the driver answers and the firmware keeps off, every fan with a curve
\* ends at what its curve gives for its temperature, whatever the caches hold
\* (clevo_should_write) and whatever clients did before.
FollowsCurve ==
  <>[](~crossed /\ up) =>
    \A f \in Fans : <>[](f \in DOMAIN state => ec.speed[f] = Target(state, f))

\* The curve in force, its points in any order and also two at one temperature,
\* where a division by zero waits: at a point the fan has the speed of a point
\* there, and elsewhere one between those of the points next to it
\* (calculate_fan_speed).
SpeedIsBetween ==
  \A f \in DOMAIN state :
    LET points == Range(state[f])
        below == {p \in points : p[1] <= temp /\ \A q \in points : q[1] <= temp => q[1] <= p[1]}
        above == {p \in points : p[1] >= temp /\ \A q \in points : q[1] >= temp => q[1] >= p[1]}
        near == IF below = {} THEN above ELSE IF above = {} THEN below ELSE below \cup above
        speed == FanSpeed(ByTemp(state[f]), temp)
    IN  points # {} => /\ \E p \in near : p[2] <= speed
                       /\ \E p \in near : speed <= p[2]

\* The GUI leaves the fans to the firmware when it takes the daemon with it
\* (README.md:111).
ExitLeavesAuto == ~up => ec.by = "firmware"
=============================================================================
