---------------------------- MODULE ProfileSteps ----------------------------
(***************************************************************************)
(* What the daemon writes outside the GPU: the D-Bus calls that set the CPU,*)
(* the keyboard, the screen and the battery, the profile apply that runs    *)
(* through all of them, and the restoration of the CPU limits when the      *)
(* daemon ends.                                                             *)
(*                                                                         *)
(* A call is a set of settings.  Each becomes a plan of writes when its turn *)
(* comes, because the writes depend on what is read then.  Every write to a *)
(* file is a step; other calls run between any two of them.                 *)
(***************************************************************************)
EXTENDS Integers, Sequences, FiniteSets

CONSTANTS
  Callers,      \* tasks of the D-Bus service
  Cpus,         \* 0..n
  Siblings,     \* those that go offline with SMT
  HwMin, HwMax, \* cpuinfo_min_freq and cpuinfo_max_freq
  Offered,      \* per pstate mode: the governors the kernel offers
  MaxLight,     \* max_brightness of the screen and of the keyboard
  Requests,     \* the calls of clients: sets of settings
  Strict,       \* the kernel refuses a minimum above the maximum
  Breakable,    \* files a write to which may fail
  MaxRequests   \* bound: calls in a behaviour

VARIABLES
  regs,      \* what the files hold
  waiting,   \* per thread: the settings whose turn has not come
  plan,      \* per thread: what is left to do of the one whose turn it is
  mine,      \* per thread: the settings it was asked for, {} when idle
  fate,      \* per thread: "ok", "warned" (a soft step failed) or "failed"
  alone,     \* history, per thread: no other thread ran during this call
  reached,   \* history, per thread: the CPUs online since the call began
  before,    \* history, per thread: the limits then
  modified,  \* CPU_LIMITS_MODIFIED
  torn,      \* history: a write of a limit failed, and the flag was not set since
  told,      \* history: the last call, if it was answered and undisturbed
  used,      \* calls made
  phase      \* of main: "runs", "restores" or "gone"

history == <<alone, reached, before>>
stepVars == <<regs, waiting, plan, mine, fate, history, modified, torn, told, used, phase>>

Main == "main"
Workers == Callers \cup {Main}
Modes == DOMAIN Offered
Kinds == {"lo", "hi", "gov", "epp"}
Singles == {"mode", "boost", "smt", "tdp", "colour", "ledmode",
            "light", "screen", "actual", "charge", "start", "end"}
Files == ((Kinds \cup {"online"}) \X Cpus) \cup (Singles \X {0})
Online == {c \in Cpus : regs[<<"online", c>>]}

Allowlist == {"performance", "powersave", "balanced", "ondemand", "user", "schedutil",
  "userspace", "conservative", "interactive", "scheyonic", "energy_perf"}
EppValues == {"performance", "balance_performance", "balance_power", "power", "default",
  "balance-performance", "balance-power"}
TdpProfiles == <<"power_save", "enthusiast", "overboost">>

-----------------------------------------------------------------------------
(* From settings to writes.                                                 *)

\* soft: whether a failure ends the call ("no"), nothing ("each"), or what is left
\* of the setting ("group").
W(file, value, soft) == [do |-> "write", file |-> file, value |-> value, soft |-> soft]

\* get_cpu_count counts the processors of /proc/cpuinfo, which are those online.
Count == Cardinality(Online)
OnEach(kind, v) == [i \in 1..Count |-> W(<<kind, i - 1>>, v, "no")]

Governor(g) ==
  IF g \in Allowlist /\ g \notin Offered[regs[<<"mode", 0>>]]
  THEN <<>>   \* GovernorUnavailable: a warning
  ELSE <<W(<<"gov", 0>>, g, "no")>> \o OnEach("gov", g)

\* normalize_freq_limits.
Clamp(f) == IF f < HwMin THEN HwMin ELSE IF f > HwMax THEN HwMax ELSE f
Lo(s) == Clamp(s.from)
Hi(s) == IF Clamp(s.to) < Lo(s) THEN Lo(s) ELSE Clamp(s.to)

Done(flag) == [do |-> "flag", soft |-> flag]

\* set_cpu_frequency_limits: the order of the two is the same for every CPU,
\* decided by what cpu0 has.
Limits(s, soft) ==
  LET maxFirst == Hi(s) < regs[<<"hi", 0>>] \/ Lo(s) > regs[<<"lo", 0>>]
      of(c, max) == W(<<IF max THEN "hi" ELSE "lo", c>>, IF max THEN Hi(s) ELSE Lo(s), soft)
  IN  Append([i \in 1..2*Count |-> of((i - 1) \div 2, (i % 2 = 1) = maxFirst)], Done(soft))

\* Mutant of Mode: the limits the switch resets are not put back.
ModeOnly(m) == <<W(<<"mode", 0>>, m, "no")>>

\* set_amd_pstate_status and set_intel_pstate_status: the limits are read before
\* the switch and put back after it, as well as that goes.
Mode(m) ==
  <<W(<<"mode", 0>>, m, "no"),
    [do |-> "limits", from |-> regs[<<"lo", 0>>], to |-> regs[<<"hi", 0>>], soft |-> "group"]>>

\* set_tdp_profile: the position in the list goes to the driver of a Uniwill
\* machine, which takes 1 to 3.
Tdp(p) ==
  LET ids == {i \in DOMAIN TdpProfiles : TdpProfiles[i] = p} IN
    <<W(<<"tdp", 0>>, IF ids = {} THEN 0 ELSE (CHOOSE i \in ids : TRUE) - 1, "no")>>

Percent(p) == (p * MaxLight) \div 100

\* RgbKeyboardControl::set_mode; an effect has a mode number and a speed, and
\* zone colours may fail.  Control that is off leaves the keys white, or as they
\* are.
Keyboard(s) ==
  LET effect == W(<<"ledmode", 0>>, s.effect, "no")
      paint == W(<<"colour", 0>>, s.colour, "each")
      light == W(<<"light", 0>>, Percent(s.light), "no")
  IN  CASE ~s.on -> <<W(<<"colour", 0>>, "white", "each"),
                      W(<<"light", 0>>, Percent(50), "group")>>
        [] s.on /\ s.effect = 0 -> <<paint, light>>
        [] s.on /\ s.effect # 0 -> <<effect, paint, light>>

Battery(s) ==
  IF s.on THEN <<W(<<"charge", 0>>, "Custom", "no"), W(<<"start", 0>>, s.start, "no"),
                 W(<<"end", 0>>, s.end, "no")>>
          ELSE <<W(<<"charge", 0>>, "Standard", "no")>>

Writes(s) ==
  CASE s.do = "mode" -> Mode(s.to)
    [] s.do = "governor" -> Governor(s.to)
    [] s.do = "limits" -> Limits(s, "no")
    [] s.do = "tdp" -> Tdp(s.to)
    [] s.do = "epp" -> IF s.to \in EppValues
                       THEN OnEach("epp", s.to)
                       ELSE <<W(<<"none", 0>>, 0, "no")>>
    [] s.do = "boost" -> <<W(<<"boost", 0>>, s.to, "no")>>
    [] s.do = "smt" -> <<W(<<"smt", 0>>, s.to, "no")>>
    [] s.do = "keyboard" -> Keyboard(s)
    [] s.do = "screen" -> <<W(<<"actual", 0>>, Percent(s.to), "each"),
                            W(<<"screen", 0>>, Percent(s.to), "no")>>
    [] s.do = "battery" -> Battery(s)

\* Mutant of Order: the governor before the mode that offers it.
OrderGovernorFirst ==
  <<"governor", "mode", "tdp", "epp", "limits", "boost", "smt", "keyboard", "screen", "battery">>

\* apply_profile_inner, without the GPU and the fans; the battery has a call of
\* its own.
Order ==
  <<"mode", "governor", "tdp", "epp", "limits", "boost", "smt", "keyboard", "screen", "battery">>
Before(k, l) == \E i, j \in DOMAIN Order : i < j /\ Order[i] = k /\ Order[j] = l

-----------------------------------------------------------------------------
(* The files: the guard in front of them and the kernel behind them.        *)

\* Mutant of Guard: only governors are looked at.
GuardGovernors(w) == w.file[1] = "gov" => w.value \in Allowlist

\* guard_sysfs_write, and the checks of the battery and of the driver.
Guard(w) ==
  CASE w.file[1] = "gov" -> w.value \in Allowlist
    [] w.file[1] \in {"lo", "hi"} -> w.value \in HwMin..HwMax
    [] w.file[1] \in {"light", "screen", "actual"} -> w.value \in 0..MaxLight
    [] w.file[1] = "mode" -> w.value \in Modes
    [] w.file[1] = "tdp" -> w.value \in 1..3
    [] w.file[1] \in {"start", "end"} -> w.value \in 0..100
    [] w.file[1] = "ledmode" -> w.value \in 0..255
    [] OTHER -> w.file[1] # "none"

\* A CPU that is offline has no files, and some values are refused.
Accepts(w) ==
  LET c == w.file[2] IN
    /\ w.file[1] \in Kinds => c \in Online
    /\ w.file[1] = "gov" => w.value \in Offered[regs[<<"mode", 0>>]]
    /\ Strict /\ w.file[1] = "lo" => w.value <= regs[<<"hi", c>>]
    /\ Strict /\ w.file[1] = "hi" => w.value >= regs[<<"lo", c>>]

\* A switch of the mode starts the CPUs afresh; SMT turns siblings off and on.
After(w) ==
  LET put == [regs EXCEPT ![w.file] = w.value] IN
    CASE w.file[1] = "mode" /\ w.value # regs[w.file] ->
           [r \in Files |->
              CASE r[1] = "lo" -> HwMin
                [] r[1] = "hi" -> HwMax
                [] r[1] = "gov" -> CHOOSE g \in Offered[w.value] : TRUE
                [] OTHER -> put[r]]
      [] w.file[1] = "smt" ->
           [r \in Files |->
              IF r[1] = "online" THEN w.value \/ r[2] \notin Siblings ELSE put[r]]
      [] OTHER -> put

-----------------------------------------------------------------------------
Nobody == [asked |-> {}, fate |-> "ok", cpus |-> {}, before |-> <<>>]

Init ==
  /\ regs = [r \in Files |->
       CASE r[1] = "lo" -> HwMin
         [] r[1] = "hi" -> HwMax
         [] r[1] = "mode" -> CHOOSE m \in Modes : TRUE
         [] r[1] = "gov" -> CHOOSE g \in Offered[CHOOSE m \in Modes : TRUE] : TRUE
         [] r[1] = "epp" -> "default"
         [] r[1] \in {"online", "boost", "smt"} -> TRUE
         [] r[1] = "colour" -> "white"
         [] r[1] = "charge" -> "Standard"
         [] r[1] = "tdp" -> 1
         [] OTHER -> 0]
  /\ waiting = [t \in Workers |-> {}] /\ plan = [t \in Workers |-> <<>>] /\ mine = [t \in Workers |-> {}]
  /\ fate = [t \in Workers |-> "ok"] /\ alone = [t \in Workers |-> TRUE]
  /\ reached = [t \in Workers |-> {}] /\ before = [t \in Workers |-> <<>>]
  /\ modified = FALSE /\ torn = FALSE /\ told = Nobody /\ used = 0 /\ phase = "runs"

SomeLimits == [c \in Online |-> <<regs[<<"lo", c>>], regs[<<"hi", c>>]>>]

Begin(t, request) ==
  LET busy == {u \in Workers : mine[u] # {}} IN
    /\ waiting' = [waiting EXCEPT ![t] = request]
    /\ mine' = [mine EXCEPT ![t] = request]
    /\ fate' = [fate EXCEPT ![t] = "ok"]
    /\ alone' = [u \in Workers |-> IF u = t THEN busy = {} ELSE alone[u] /\ u \notin busy]
    /\ reached' = [reached EXCEPT ![t] = Online]
    /\ before' = [before EXCEPT ![t] = SomeLimits]
    /\ told' = Nobody

Call(c) ==
  /\ phase # "gone" /\ mine[c] = {} /\ used < MaxRequests
  /\ used' = used + 1
  /\ \E r \in Requests : Begin(c, r)
  /\ UNCHANGED <<regs, plan, modified, torn, phase>>

\* The turn of a setting.
Turn(t) ==
  /\ plan[t] = <<>>
  /\ \E s \in waiting[t] :
       /\ \A u \in waiting[t] \ {s} : Before(s.do, u.do)
       /\ plan' = [plan EXCEPT ![t] = Writes(s)]
       /\ waiting' = [waiting EXCEPT ![t] = @ \ {s}]
  /\ UNCHANGED <<regs, mine, fate, history, modified, torn, told, used, phase>>

\* restore_scaling_limits: what a switch of the mode ends with.
PutBack(t) ==
  /\ Len(plan[t]) = 1 /\ Head(plan[t]).do = "limits"
  /\ plan' = [plan EXCEPT ![t] = Limits(Head(@), "group")]
  /\ UNCHANGED <<regs, waiting, mine, fate, history, modified, torn, told, used, phase>>

Flag(t) ==
  /\ plan[t] # <<>> /\ Head(plan[t]).do = "flag"
  /\ modified' = TRUE /\ torn' = FALSE
  /\ plan' = [plan EXCEPT ![t] = Tail(@)]
  /\ UNCHANGED <<regs, waiting, mine, fate, history, told, used, phase>>

WriteFile(t) ==
  /\ plan[t] # <<>> /\ Head(plan[t]).do = "write"
  /\ LET w == Head(plan[t]) IN
       /\ Guard(w) /\ Accepts(w)
       /\ regs' = After(w)
       /\ reached' = [u \in Workers |-> reached[u] \cap {c \in Cpus : regs'[<<"online", c>>]}]
  /\ plan' = [plan EXCEPT ![t] = Tail(@)]
  /\ UNCHANGED <<waiting, mine, fate, alone, before, modified, torn, told, used, phase>>

WriteFails(t) ==
  /\ plan[t] # <<>> /\ Head(plan[t]).do = "write"
  /\ LET w == Head(plan[t]) IN
       /\ w.file \in Breakable \/ ~(Guard(w) /\ Accepts(w))
       /\ plan' = [plan EXCEPT ![t] = IF w.soft = "each" THEN Tail(@) ELSE <<>>]
       /\ waiting' = [waiting EXCEPT ![t] = IF w.soft = "no" THEN {} ELSE @]
       /\ fate' = [fate EXCEPT ![t] = CASE w.soft = "no" -> "failed"
                                         [] w.soft = "group" -> "warned"
                                         [] w.soft = "each" -> @]
       /\ torn' = (torn \/ w.file[1] \in {"lo", "hi"})
  /\ UNCHANGED <<regs, mine, history, modified, told, used, phase>>

Reply(c) ==
  /\ waiting[c] = {} /\ plan[c] = <<>> /\ mine[c] # {}
  /\ told' = IF fate[c] # "failed" /\ alone[c]
             THEN [asked |-> mine[c], fate |-> fate[c], cpus |-> reached[c],
                   before |-> before[c]]
             ELSE Nobody
  /\ mine' = [mine EXCEPT ![c] = {}] /\ reached' = [reached EXCEPT ![c] = {}]
  /\ before' = [before EXCEPT ![c] = <<>>]
  /\ phase' = IF c = Main THEN "gone" ELSE phase
  /\ UNCHANGED <<regs, waiting, plan, fate, alone, modified, torn, used>>

\* SIGINT: main restores the limits of the hardware, if the flag is up, and the
\* process ends with whatever its tasks are at.
Exit ==
  /\ phase = "runs"
  /\ IF modified
     THEN /\ phase' = "restores"
          /\ Begin(Main, {[do |-> "limits", from |-> HwMin, to |-> HwMax]})
     ELSE phase' = "gone" /\ UNCHANGED <<waiting, mine, fate, history, told>>
  /\ UNCHANGED <<regs, plan, modified, torn, used>>

Step(t) ==
  /\ phase # "gone"
  /\ Turn(t) \/ PutBack(t) \/ Flag(t) \/ WriteFile(t) \/ WriteFails(t) \/ Reply(t)

Next == Exit \/ (\E c \in Callers : Call(c)) \/ \E t \in Workers : Step(t)

Spec == Init /\ [][Next]_stepVars

-----------------------------------------------------------------------------
(* Properties.                                                              *)

TypeOK ==
  /\ \A c \in Cpus : regs[<<"lo", c>>] \in HwMin..HwMax /\ regs[<<"hi", c>>] \in HwMin..HwMax
                     /\ regs[<<"gov", c>>] \in Offered[regs[<<"mode", 0>>]]
                     /\ regs[<<"epp", c>>] \in EppValues
  /\ regs[<<"screen", 0>>] \in 0..MaxLight /\ regs[<<"light", 0>>] \in 0..MaxLight
  /\ regs[<<"tdp", 0>>] \in 1..3
  /\ regs[<<"start", 0>>] \in 0..100 /\ regs[<<"end", 0>>] \in 0..100
  /\ \A t \in Workers : reached[t] \subseteq Cpus /\ alone[t] \in BOOLEAN
                         /\ fate[t] \in {"ok", "warned", "failed"}
  /\ modified \in BOOLEAN /\ torn \in BOOLEAN /\ phase \in {"runs", "restores", "gone"}
  /\ used \in 0..MaxRequests

\* A call that nothing disturbed and that was answered without an error left the
\* machine as it was asked, setting by setting: no later step undoes an earlier
\* one, as the switch of the pstate mode would undo the governor and the limits
\* (apply_profile_inner).  A governor the mode does not offer is a warning, and a
\* CPU that came online during the call is left out (set_smt is a late step).
AsAsked(s, cpus) ==
  LET all(kind, v) == \A c \in cpus : regs[<<kind, c>>] = v IN
    CASE s.do = "mode" -> all("online", TRUE) /\ regs[<<"mode", 0>>] = s.to
      [] s.do = "governor" -> s.to \notin Offered[regs[<<"mode", 0>>]] \/ all("gov", s.to)
      [] s.do = "limits" -> all("lo", Lo(s)) /\ all("hi", Hi(s))
      [] s.do = "epp" -> all("epp", s.to)
      [] s.do \in {"boost", "smt"} -> regs[<<s.do, 0>>] = s.to
      [] s.do = "screen" -> regs[<<"screen", 0>>] = Percent(s.to)
      [] s.do = "keyboard" -> s.on => regs[<<"light", 0>>] = Percent(s.light)
      [] s.do = "battery" -> s.on => regs[<<"start", 0>>] = s.start /\ regs[<<"end", 0>>] = s.end
      [] OTHER -> TRUE
AppliedAsAsked == \A s \in told.asked : AsAsked(s, told.cpus)

\* A switch of the pstate mode "does not silently drop" the limits: they are what
\* they were, unless the call set others (set_amd_pstate_status).
Uniform(limits) == \A c, d \in DOMAIN limits : limits[c] = limits[d]
ModeKeepsLimits ==
  (\E s \in told.asked : s.do = "mode") /\ (\A s \in told.asked : s.do # "limits")
    /\ told.fate = "ok" /\ Uniform(told.before)
  => \A c \in told.cpus : SomeLimits[c] = told.before[c]

\* The daemon leaves the limits of the hardware behind, unless a write of a limit
\* failed, a call was cut off in the middle, or one ran beside the restoration
\* (main, restore_cpu_frequency_limits).
RestoredAtExit ==
  phase = "gone" /\ ~torn /\ alone[Main] /\ (\A t \in Callers : plan[t] = <<>>)
  => \A c \in Online : SomeLimits[c] = <<HwMin, HwMax>>

\* GetCurrentTdpProfile answers the name that SetTdpProfile was given
\* (hardware_detection.rs:1073, "profile_id: 1=powersave, 2=enthusiast,
\* 3=overboost").  It does not hold: the names are counted from 0 (set_tdp_profile).
CurrentTdp == TdpProfiles[regs[<<"tdp", 0>>]]
TdpAsAsked == \A s \in told.asked : s.do = "tdp" => CurrentTdp = s.to
=============================================================================
