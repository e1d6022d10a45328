------------------------------- MODULE Tuning --------------------------------
(***************************************************************************)
(* The tuning page: what it shows of a profile it writes into the profile,   *)
(* its sliders write to the adapter at once, and Save sends the profile and  *)
(* then, value by value, what the GUI itself takes it to mean.  The worker   *)
(* makes one call at a time; a slider's call is sent by a task of its own.   *)
(* The daemon skips a profile that it holds for applied, and defers or       *)
(* refuses what the adapter's write gate forbids.                            *)
(***************************************************************************)
EXTENDS Integers, Sequences, SequencesExt, FiniteSets

CONSTANTS
  Top,        \* the largest temperature and the largest speed of a curve
  MaxPoints,  \* of a curve
  Fresh,      \* the curve that a fan has at first
  Curves,     \* the curves of the profiles at first
  None,
  MaxEdits    \* bound: changes made by the user

VARIABLES
  profile,   \* the current profile, in memory
  saved,     \* and in profiles.json
  cpu,       \* the limits of the CPU's frequency, or None before they are known
  gpu,       \* the range of the adapter's clocks, or None
  hw,        \* what the adapter and the keyboard have been given
  pend,      \* PENDING_GPU_SETTINGS: the profile whose step waits for the gate, or None
  marker,    \* LAST_APPLIED_PROFILE
  tasks,     \* calls of the sliders that their tasks have not sent yet
  queue,     \* the worker's commands
  meant,     \* history: the profile of the last Save, or None after another change of the hardware
  overtaken, \* history: a Save has overtaken a slider's task
  balked,    \* history: what the gate forbade since the last profile came: its "step", or a
             \* "value" after it, or "nothing"
  strayed,   \* history: a preview or a change of the CPU's mode came after the last profile that
             \* was not skipped
  edits

daemonVars == <<hw, pend, marker, balked, strayed>>
tuningVars == <<profile, saved, cpu, gpu, tasks, queue, meant, overtaken, edits, daemonVars>>

Free == <<0, 0>>      \* clocks that are not locked
CpuLimits == {<<1, 2>>, <<1, 3>>}
GpuRange == <<1, 2>>
Pointers == {<<1, 1>>, <<4, 4>>, <<7, 9>>}  \* bound: where a point is dragged to
Near == 2             \* how far from a point it may be taken
Or(v, default) == IF v = None THEN default ELSE v

-----------------------------------------------------------------------------
(* The profile.                                                             *)

\* Profile::default, the reset of a profile that is not Standard.
Default ==
  [governor |-> None, pstate |-> None, lo |-> None, hi |-> None, manual |-> FALSE, advanced |-> FALSE,
   core |-> 0, clocks |-> None, memory |-> 0, advClocks |-> None, advMemory |-> 0, power |-> None,
   fan |-> None, control |-> FALSE, keys |-> "single", custom |-> FALSE, curve |-> <<>>]

\* create_default_profile_for_reset, for Standard.
Standard == [Default EXCEPT !.governor = "powersave", !.pstate = "active"]

\* The profiles that a user has had before.
Kept(advanced) ==
  [Default EXCEPT !.governor = "performance", !.pstate = "passive", !.lo = 2, !.hi = 3,
     !.manual = TRUE, !.advanced = advanced, !.core = 1, !.clocks = <<1, 1>>, !.advClocks = <<2, 2>>,
     !.advMemory = 1, !.power = 1]

UserProfile ==
  \E q \in {Standard, Kept(FALSE), Kept(TRUE)}, c \in Curves :
    profile = [q EXCEPT !.custom = (c # <<>>), !.curve = c]

-----------------------------------------------------------------------------
(* What drawing the page writes into the profile.                           *)

\* normalize_freq_limits.
NormalLimits(lo, hi, limits) ==
  LET clamp(v) == IF v = None THEN None
                  ELSE IF v < limits[1] THEN limits[1] ELSE IF v > limits[2] THEN limits[2] ELSE v
      low == clamp(lo)
      high == clamp(hi)
  IN  <<low, IF low # None /\ high # None /\ low > high THEN low ELSE high>>

\* draw_cpu_tuning; the governor stands for all that is only chosen (also the preference, boost,
\* SMT and the powers of draw_uniwill_tdp_tuning).
CpuShown(p) ==
  IF cpu = None THEN p
  ELSE LET limits == NormalLimits(p.lo, p.hi, cpu) IN
       [p EXCEPT !.governor = Or(@, "performance"), !.pstate = Or(@, "active"), !.lo = limits[1], !.hi = limits[2]]

\* draw_gpu_standard_controls.
StandardShown(p) ==
  [p EXCEPT !.core = Or(@, 0), !.clocks = Or(@, gpu), !.memory = Or(@, 0), !.power = Or(@, 2)]

\* Mutant of AdvancedShown: it shows the standard clocks.
AdvancedShownStandard(p) ==
  [p EXCEPT !.advClocks = Or(p.clocks, gpu), !.advMemory = Or(@, 0), !.power = Or(@, 2)]

\* draw_gpu_advanced_controls.
AdvancedShown(p) ==
  [p EXCEPT !.advClocks = Or(@, gpu), !.advMemory = Or(@, 0), !.power = Or(@, 2)]

\* draw_nvidia_fan_tuning.
NvidiaFanShown(p) == [p EXCEPT !.fan = Or(@, "auto")]

\* draw_gpu_tuning, with an NVIDIA adapter.
GpuShown(p) ==
  IF gpu = None \/ ~p.manual THEN p
  ELSE LET q == NvidiaFanShown(p) IN IF q.advanced THEN AdvancedShown(q) ELSE StandardShown(q)

\* draw_fan_tuning.
FanShown(p) == IF p.custom /\ p.curve = <<>> THEN [p EXCEPT !.curve = Fresh] ELSE p

\* draw.
Shown(p) == FanShown(GpuShown(CpuShown(p)))

-----------------------------------------------------------------------------
(* A fan's curve.                                                           *)

\* sort_by_key: a point goes behind the last one that is not above it, so the sort is stable.
PutIn(sorted, point) ==
  InsertAt(sorted, 1 + Max({0} \cup {i \in 1..Len(sorted) : sorted[i][1] <= point[1]}), point)

Sorted(curve) == FoldLeft(PutIn, <<>>, curve)

\* interpolate_speed.
Interpolated(sorted, t) ==
  IF sorted = <<>> THEN 1
  ELSE IF Len(sorted) = 1 \/ t <= sorted[1][1] THEN sorted[1][2]
  ELSE IF t >= Last(sorted)[1] THEN Last(sorted)[2]
  ELSE LET at == {i \in 1..Len(sorted) - 1 : sorted[i][1] <= t /\ t <= sorted[i + 1][1]}
           i == CHOOSE i \in at : \A j \in at : i <= j
           a == sorted[i]
           b == sorted[i + 1]
       IN  IF a[2] <= b[2] THEN a[2] + ((t - a[1]) * (b[2] - a[2])) \div (b[1] - a[1])
           ELSE b[2] + ((b[1] - t) * (a[2] - b[2])) \div (b[1] - a[1])

\* Mutant of GapAt: at the first point.
GapAtFirst(sorted) == sorted[1][1]

\* add_point: in the middle of the first largest gap, or below the first point, or above
\* the last one if there is more than the largest gap.
GapAt(sorted) ==
  LET size(i) == sorted[i + 1][1] - sorted[i][1]
      inner == 1..Len(sorted) - 1
      best == {i \in inner : \A j \in inner : size(i) > size(j) \/ (size(i) = size(j) /\ i <= j)}
      gap == IF best = {} THEN 0 ELSE size(CHOOSE i \in best : TRUE)
      last == Last(sorted)[1]
  IN  IF Top - last > gap THEN last + (Top - last) \div 2
      ELSE IF sorted[1][1] > gap THEN sorted[1][1] \div 2
      ELSE IF gap = 0 THEN Top \div 2 ELSE sorted[CHOOSE i \in best : TRUE][1] + gap \div 2

PointAdded(curve) ==
  IF Len(curve) >= MaxPoints THEN curve
  ELSE IF curve = <<>> THEN <<<<Top \div 2, Top \div 2>>>>
  ELSE LET sorted == Sorted(curve)
           t == GapAt(sorted)
       IN  Append(curve, <<t, Interpolated(sorted, t)>>)

\* draw_graph: each frame anew, the first point that is near the pointer goes there.
Dragged(curve, at) ==
  LET near == {i \in 1..Len(curve) :
                 (curve[i][1] - at[1]) ^ 2 + (curve[i][2] - at[2]) ^ 2 < Near ^ 2}
  IN  IF near = {} THEN curve
      ELSE [curve EXCEPT ![CHOOSE i \in near : \A j \in near : i <= j] = at]

\* draw_points_editor and the buttons of show.
CurvesFrom(curve) ==
  {PointAdded(curve), Sorted(curve), Fresh} \cup {Dragged(curve, at) : at \in Pointers}
  \cup {[curve EXCEPT ![i] = <<t, s>>] : i \in 1..Len(curve), t \in {0, 1, Top}, s \in {0, Top}}
  \cup (IF Len(curve) > 2 THEN {RemoveAt(curve, i) : i \in 1..Len(curve)} ELSE {})

\* Save looks for a temperature that has two speeds.
Valid(curve) == \A i, j \in 1..Len(curve) : curve[i][1] = curve[j][1] => curve[i][2] = curve[j][2]

-----------------------------------------------------------------------------
(* What the worker has the daemon do.                                       *)

OnAdapter == {"core", "clocks", "memory", "power", "fan"}

\* apply_gpu_static.
StepApplied(h, p) ==
  [h EXCEPT !.core = Or(p.core, @), !.memory = Or(p.memory, @), !.power = Or(p.power, @),
            !.clocks = Or(p.clocks, Free), !.fan = Or(p.fan, @)]

\* The rest of apply_profile_inner: apply_keyboard_settings, white when the profile leaves the
\* keyboard alone, and the CPU's mode.
RestApplied(h, p) ==
  [h EXCEPT !.keys = IF p.control THEN p.keys ELSE "single", !.pstate = Or(p.pstate, @)]

\* apply_profile: a profile that is held for applied is skipped.  The gate may change between
\* any two calls, so what it says is chosen anew (GpuControl has it close within a step).
ApplyProfile(p) ==
  \/ p = marker /\ balked' = "nothing" /\ UNCHANGED <<hw, pend, marker, strayed>>
  \/ /\ p # marker /\ strayed' = FALSE
     /\ \/ /\ hw' = StepApplied(RestApplied(hw, p), p)
           /\ pend' = None /\ marker' = p /\ balked' = "nothing"
        \/ /\ hw' = RestApplied(hw, p)
           /\ pend' = p /\ marker' = None /\ balked' = "step"

\* with_gpu_write_gate refuses a value, whose caller only logs that; preview_keyboard_settings
\* and set_amd_pstate_status have no gate.  None of them knows of the marker.
SetValue(op, v) ==
  /\ \/ hw' = [hw EXCEPT ![op] = v] /\ UNCHANGED balked
     \/ op \in OnAdapter /\ balked' = "value" /\ UNCHANGED hw
  /\ strayed' = (strayed \/ op \notin OnAdapter)
  /\ UNCHANGED <<pend, marker>>

Handled(c) == IF c.op = "profile" THEN ApplyProfile(c.v) ELSE SetValue(c.op, c.v)

Command(op, v) == IF v = None THEN <<>> ELSE <<[op |-> op, v |-> v]>>

\* Mutant of ApplyGpuOnSave: the mode is forgotten.
ApplyGpuOnSaveStandard(p) ==
  IF p.manual
  THEN Command("clocks", p.clocks) \o Command("core", p.core) \o Command("memory", p.memory)
       \o Command("power", p.power) \o Command("fan", p.fan)
  ELSE Command("clocks", Free) \o Command("core", 0) \o Command("memory", 0)

\* apply_gpu_settings_on_save.
ApplyGpuOnSave(p) ==
  (IF ~p.manual THEN Command("clocks", Free) \o Command("core", 0) \o Command("memory", 0)
   ELSE (IF p.advanced THEN Command("clocks", p.advClocks) \o Command("memory", p.advMemory)
         ELSE Command("clocks", p.clocks) \o Command("core", p.core) \o Command("memory", p.memory))
        \o Command("power", p.power))
  \o Command("fan", p.fan)

-----------------------------------------------------------------------------
Init ==
  /\ UserProfile /\ saved = profile
  /\ cpu = None /\ gpu = None
  /\ hw = [core |-> 0, clocks |-> Free, memory |-> 0, power |-> 2, fan |-> "auto", keys |-> "single",
           pstate |-> "active"]
  /\ pend = None /\ marker = None /\ balked = "nothing" /\ strayed = FALSE
  /\ tasks = <<>> /\ queue = <<>> /\ meant = None /\ overtaken = FALSE /\ edits = 0

\* The readings come, and the CPU's limits change with its mode.  The range of the clocks is
\* taken once (HardwareUpdate::GpuInfo).
Learn ==
  /\ \/ cpu' \in CpuLimits \ {cpu} /\ UNCHANGED gpu
     \/ gpu = None /\ gpu' = GpuRange /\ UNCHANGED cpu
  /\ UNCHANGED <<profile, saved, tasks, queue, meant, overtaken, edits, daemonVars>>

Draw ==
  /\ Shown(profile) # profile /\ profile' = Shown(profile)
  /\ UNCHANGED <<saved, cpu, gpu, tasks, queue, meant, overtaken, edits, daemonVars>>

Edit(p) == edits < MaxEdits /\ edits' = edits + 1 /\ profile' = p
Drawn == Shown(profile) = profile
Quietly == UNCHANGED <<saved, cpu, gpu, tasks, queue, meant, overtaken, daemonVars>>

(* Controls that only change the profile.                                   *)

\* One of all the values that are only chosen: see CpuShown; also the brightness of the
\* screen and what the daemon's steering takes (add_range_row).
ChooseCpu == \E g \in {"powersave", "performance"} : Edit([profile EXCEPT !.governor = g])

\* The sliders of the limits, of which one takes the other along.
LimitCpu ==
  /\ cpu # None
  /\ \E v \in cpu[1]..cpu[2] :
       LET low == Or(profile.lo, cpu[1])
           high == Or(profile.hi, cpu[2])
       IN  \E n \in {NormalLimits(v, high, cpu), NormalLimits(low, v, cpu)} :
             Edit([profile EXCEPT !.lo = n[1], !.hi = n[2]])

ChooseGpu ==
  /\ gpu # None
  /\ \/ Edit([profile EXCEPT !.manual = ~@])
     \/ Edit([profile EXCEPT !.advanced = ~@])
     \/ profile.manual /\ \E f \in {"auto", "full"} : Edit([profile EXCEPT !.fan = f])

ChooseFans ==
  \/ Edit([profile EXCEPT !.custom = ~@])
  \/ profile.custom /\ \E curve \in CurvesFrom(profile.curve) : Edit([profile EXCEPT !.curve = curve])

Change == Drawn /\ (ChooseCpu \/ LimitCpu \/ ChooseGpu \/ ChooseFans) /\ Quietly

\* The mode of the CPU, which is set at once by a task.
SwitchMode ==
  /\ Drawn /\ cpu # None
  /\ \E m \in {"active", "passive"} \ {profile.pstate} :
       Edit([profile EXCEPT !.pstate = m]) /\ tasks' = tasks \o Command("pstate", m)
  /\ meant' = None
  /\ UNCHANGED <<saved, cpu, gpu, queue, overtaken, daemonVars>>

\* draw_keyboard_tuning: white when the control is given up.
Keyboard ==
  /\ Drawn
  /\ IF profile.control
     THEN \/ Edit([profile EXCEPT !.control = FALSE, !.keys = "single"])
          \/ \E m \in {"single", "zones", "wave"} : Edit([profile EXCEPT !.keys = m])
     ELSE Edit([profile EXCEPT !.control = TRUE])
  /\ Quietly

\* Its Preview button.
Preview ==
  /\ profile.control /\ queue' = queue \o Command("keys", profile.keys) /\ meant' = None
  /\ edits < MaxEdits /\ edits' = edits + 1
  /\ UNCHANGED <<profile, saved, cpu, gpu, tasks, overtaken, daemonVars>>

\* A slider of the adapter, the other end of a range taken along: also a task that calls.
Slide ==
  /\ Drawn /\ gpu # None /\ profile.manual
  /\ \E p \in ({[profile EXCEPT !.power = v] : v \in 1..2} \cup
        (IF profile.advanced
         THEN {[profile EXCEPT !.advMemory = v] : v \in 0..1}
              \cup {[profile EXCEPT !.advClocks = <<v, IF v > @[2] THEN v ELSE @[2]>>] : v \in 1..2}
              \cup {[profile EXCEPT !.advClocks = <<IF v < @[1] THEN v ELSE @[1], v>>] : v \in 1..2}
         ELSE {[profile EXCEPT !.core = v] : v \in 0..1} \cup {[profile EXCEPT !.memory = v] : v \in 0..1}
              \cup {[profile EXCEPT !.clocks = <<v, IF v > @[2] THEN v ELSE @[2]>>] : v \in 1..2}
              \cup {[profile EXCEPT !.clocks = <<IF v < @[1] THEN v ELSE @[1], v>>] : v \in 1..2})) :
        /\ p # profile /\ Edit(p)
        /\ \E d \in {<<"core", "core">>, <<"clocks", "clocks">>, <<"clocks", "advClocks">>,
                    <<"memory", "memory">>, <<"memory", "advMemory">>, <<"power", "power">>} :
             p[d[2]] # profile[d[2]] /\ tasks' = tasks \o Command(d[1], p[d[2]])
  /\ meant' = None
  /\ UNCHANGED <<saved, cpu, gpu, queue, overtaken, daemonVars>>

\* The Save button of draw.
Save ==
  /\ Drawn /\ Valid(profile.curve)
  /\ edits < MaxEdits /\ edits' = edits + 1
  /\ saved' = profile
  /\ queue' = Append(queue, [op |-> "profile", v |-> profile]) \o ApplyGpuOnSave(profile)
  /\ meant' = profile /\ overtaken' = (overtaken \/ tasks # <<>>)
  /\ UNCHANGED <<profile, cpu, gpu, tasks, daemonVars>>

\* Its Reset button; the reset of another profile than Standard also renames it.
Reset == (Edit(Standard) \/ Edit(Default)) /\ Quietly

\* The profile is applied again: at the next start, or when it is chosen, also in the tray.
Reapply ==
  /\ edits < MaxEdits /\ edits' = edits + 1
  /\ queue' = Append(queue, [op |-> "profile", v |-> saved]) /\ profile' = saved /\ meant' = None
  /\ UNCHANGED <<saved, cpu, gpu, tasks, overtaken, daemonVars>>

Post ==
  /\ \E i \in 1..Len(tasks) : tasks' = RemoveAt(tasks, i) /\ queue' = Append(queue, tasks[i])
  /\ UNCHANGED <<profile, saved, cpu, gpu, meant, overtaken, edits, daemonVars>>

Work ==
  /\ queue # <<>> /\ queue' = Tail(queue) /\ Handled(Head(queue))
  /\ UNCHANGED <<profile, saved, cpu, gpu, tasks, meant, overtaken, edits>>

\* apply_pending_gpu, of the daemon's periodic job: the gate has opened.
ApplyPending ==
  /\ pend # None /\ hw' = StepApplied(hw, pend) /\ pend' = None
  /\ UNCHANGED <<profile, saved, cpu, gpu, marker, balked, strayed, tasks, queue, meant, overtaken, edits>>

Next ==
  \/ Learn \/ Draw \/ Change \/ Keyboard \/ Preview \/ SwitchMode \/ Slide
  \/ Save \/ Reset \/ Reapply \/ Post \/ Work \/ ApplyPending

Spec == Init /\ [][Next]_tuningVars

-----------------------------------------------------------------------------
(* Properties.                                                              *)

\* What the GUI takes the registers of a profile to be, when it names them
\* (apply_gpu_settings_on_save: "Reset to factory settings when manual control is disabled").
AdapterAgrees(h, p) ==
  /\ IF ~p.manual THEN h.clocks = Free /\ h.core = 0 /\ h.memory = 0
     ELSE /\ LET c == IF p.advanced THEN p.advClocks ELSE p.clocks IN c = None \/ h.clocks = c
          /\ LET m == IF p.advanced THEN p.advMemory ELSE p.memory IN m = None \/ h.memory = m
          /\ p.advanced \/ p.core = None \/ h.core = p.core
          /\ p.power = None \/ h.power = p.power
  /\ p.fan = None \/ h.fan = p.fan
RestAgrees(h, p) ==
  h.keys = (IF p.control THEN p.keys ELSE "single") /\ (p.pstate = None \/ h.pstate = p.pstate)

Quiet == queue = <<>> /\ tasks = <<>>

\* After a Save that the gate forbade nothing of, the adapter has what was saved and no deferred
\* step is left to overwrite it, although the profile that the daemon applies first, or skips,
\* says otherwise; and so have the keyboard and the CPU, unless the daemon skipped the profile
\* after something else had been set (apply_profile, apply_gpu_settings_on_save).
SaveMeansIt ==
  Quiet /\ meant # None /\ ~overtaken =>
    /\ balked = "nothing" => pend = None /\ AdapterAgrees(hw, meant)
    /\ ~strayed => RestAgrees(hw, meant)

\* "Disabling manual control will reset to factory settings" (draw_gpu_tuning), at the latest when
\* nothing is left to be done and no value has been refused.
ManualOffResets ==
  Quiet /\ meant # None /\ ~overtaken /\ pend = None /\ balked # "value" /\ ~meant.manual =>
    hw.clocks = Free /\ hw.core = 0 /\ hw.memory = 0

\* Looking at the page settles in one frame and changes nothing that the user has set, but
\* limits that the CPU does not have (draw, "clamp before display").
LookingKeeps ==
  LET q == Shown(profile) IN
  /\ Shown(q) = q
  /\ \A f \in DOMAIN profile \ {"lo", "hi", "curve"} : profile[f] # None => q[f] = profile[f]
  /\ q.lo # None /\ q.hi # None => q.lo <= q.hi
  /\ cpu # None => {q.lo, q.hi} \subseteq {None} \cup cpu[1]..cpu[2]

HasRoom(sorted) ==
  \/ \E i \in 1..Len(sorted) - 1 : sorted[i + 1][1] - sorted[i][1] > 1
  \/ Top - Last(sorted)[1] > 1

\* No slider leaves a range upside down, and none of a fan's curve is lost: a point that is
\* added lies between the others, at a temperature of its own while there is one
\* (add_point, interpolate_speed).
ControlsFit ==
  /\ \A c \in {profile.clocks, profile.advClocks} : c # None => c[1] <= c[2]
  /\ LET curve == profile.curve
         more == PointAdded(curve)
         new == Last(more)
     IN  /\ Len(curve) \in {0} \cup 2..MaxPoints
         /\ Len(more) > Len(curve) /\ curve # <<>> =>
              /\ \E i, j \in 1..Len(curve) : curve[i][2] <= new[2] /\ new[2] <= curve[j][2]
              /\ Valid(curve) => Valid(more)
              /\ new[1] \in 0..Top
              /\ HasRoom(Sorted(curve)) => \A i \in 1..Len(curve) : curve[i][1] # new[1]
=============================================================================
