---------------------------- MODULE DaemonProofs ----------------------------
(***************************************************************************)
(* The daemon's parts that share no state, each for any values of its        *)
(* constants.                                                                *)
(*                                                                         *)
(* The fans, whatever the driver and the firmware do.  SpeedInv: what a      *)
(* thread carries between its reading and its write is what somebody gave    *)
(* each fan.  HandInv: where two threads may stand while nobody has met.     *)
(* The curve: sorted point by point, and the speed lies between neighbours   *)
(* (SpeedFits).                                                              *)
(*                                                                         *)
(* The passes: a pass that was let begin has seen its adapter awake          *)
(* (AwakeWhenRead).  The numbering: no index is used that could stand for    *)
(* another adapter.  The sessions with the driver: what a thread has open is *)
(* what its step says.  The differences: a sample is of a counter that has   *)
(* only grown since, so any two of them are in some order.                   *)
(*                                                                         *)
(* The rest of the machine: what a call has turned to is written, or is in   *)
(* what is left of its plan, and nothing behind it undoes that (Settled); the *)
(* limits across a switch of the mode are on the CPUs, in its last element or *)
(* in the writes that this becomes (KeptAt); limits that are not those of    *)
(* the hardware have left the flag up, or it is in a plan (DirtyInv).        *)
(***************************************************************************)
EXTENDS FanControl, MachineParts, DataLemmas, FiniteSetTheorems

-----------------------------------------------------------------------------
(* The fans.                                                                *)

\* The speeds that fans are given, and what a thread's buffer may hold.
Speeds == {0} \cup (UNION {Given(f) : f \in Fans})
Buffers == [Fans -> Speeds \cup Perfs]
Controllers == [by : {"firmware", "daemon"}, speed : [Fans -> Speeds], own : BOOLEAN, perf : Perfs]
Steps == {"idle", "next", "manual", "flag", "read", "write",
          "record", "mode", "clear", "duty", "auto", "autoflag"}
Commanding == {"manual", "flag", "read", "write", "record", "mode", "clear", "duty"}

SpeedTypes ==
  /\ iface \in Interfaces /\ ec \in Controllers /\ temp \in Temps /\ perf \in Perfs
  /\ state \in Settings \cup {None} /\ copy \in Settings \cup {None}
  /\ autoOff \in BOOLEAN /\ handed \in BOOLEAN /\ crossed \in BOOLEAN /\ raced \in BOOLEAN
  /\ pc \in [Threads -> Steps] /\ fan \in [Threads -> Int]
  /\ want \in [Threads -> Speeds] /\ seen \in [Threads -> Buffers]

\* A thread that is in set_fan_speed has a fan and a speed that the fan is given ...
Commands ==
  \A t \in Threads : pc[t] \in Commanding => fan[t] \in Fans /\ want[t] \in Given(fan[t])

\* ... and has read speeds that the other fans are given, or a profile.
HasRead ==
  \A t \in Threads :
    /\ pc[t] = "write" => \A f \in Fans : seen[t][f] \in Given(f)
    /\ pc[t] = "clear" => seen[t][0] \in Perfs

SpeedInv == SpeedTypes /\ Commands /\ HasRead /\ OnlyGivenSpeeds

\* The interface never changes, and with it the speeds on the wire.
LEMMA GivenSame ==
  ASSUME iface' = iface
  PROVE  /\ \A f : Given(f)' = Given(f)
         /\ Speeds' = Speeds /\ Buffers' = Buffers /\ Controllers' = Controllers
<1>1. \A p : Wire(p)' = Wire(p)
  BY DEF Wire
<1>2. ASSUME NEW f  PROVE Given(f)' = Given(f)
  BY <1>1 DEF Given, Wire
<1>3. Speeds' = Speeds
  BY <1>2 DEF Speeds
<1> QED  BY <1>2, <1>3 DEF Buffers, Controllers

\* What the fans are given.
LEMMA GivenSpeeds ==
  ASSUME NEW f \in Fans
  PROVE  /\ \A r \in Firmware : r \in Given(f)
         /\ \A p \in Percents : Wire(p) \in Given(f)
         /\ \A s \in Settings : f \in DOMAIN s /\ temp \in Temps => Target(s, f) \in Given(f)
         /\ \A v \in Given(f) : v \in Speeds
<1>1. \A v \in Given(f) : v \in Speeds
  BY DEF Speeds
<1>2. ASSUME NEW s \in Settings, f \in DOMAIN s, temp \in Temps  PROVE Target(s, f) \in Given(f)
  BY <1>2 DEF Given, Target
<1> QED  BY <1>1, <1>2 DEF Given

LEMMA SpeedInit == Init => SpeedInv
<1> SUFFICES ASSUME Init  PROVE SpeedInv
  OBVIOUS
<1>1. \A f \in Fans : ec.speed[f] \in Firmware
  BY DEF Init
<1>2. OnlyGivenSpeeds
  BY <1>1, GivenSpeeds DEF OnlyGivenSpeeds
<1>3. ec \in Controllers
  <2>1. Firmware \subseteq Speeds \/ Fans = {}
    BY GivenSpeeds
  <2>2. [Fans -> Firmware] \subseteq [Fans -> Speeds]
    BY <2>1
  <2>3. /\ ec.by \in {"firmware", "daemon"} /\ ec.speed \in [Fans -> Speeds] /\ ec.own \in BOOLEAN
        /\ ec = [by |-> ec.by, speed |-> ec.speed, own |-> ec.own, perf |-> ec.perf]
    BY <2>2 DEF Init
  <2>4. ec.perf \in Perfs
    <3>1. ec.perf \in IF iface = "Clevo" THEN {0} ELSE Perfs
      BY DEF Init
    <3> QED  BY <3>1, ConstantsOK
  <2> QED  BY <2>3, <2>4 DEF Controllers
<1>4. perf \in Perfs /\ Stopped \in Buffers /\ 0 \in Speeds
  BY <1>3 DEF Init, Controllers, Stopped, Buffers, Speeds
<1>5. SpeedTypes
  <2>1. /\ iface \in Interfaces /\ temp \in Temps /\ state = None /\ copy = None
        /\ autoOff = FALSE /\ crossed = FALSE /\ raced = FALSE /\ handed \in BOOLEAN
    BY DEF Init
  <2>2. pc \in [Threads -> Steps] /\ fan \in [Threads -> Int] /\ \A t \in Threads : pc[t] = "idle"
    BY DEF Init, Steps
  <2>3. want \in [Threads -> Speeds] /\ seen \in [Threads -> Buffers]
    BY <1>4 DEF Init
  <2> QED  BY <1>3, <1>4, <2>1, <2>2, <2>3 DEF SpeedTypes
<1>6. Commands /\ HasRead
  BY DEF Init, Commands, HasRead, Commanding
<1> QED  BY <1>2, <1>5, <1>6 DEF SpeedInv

LocalsKept ==
  /\ pc' \in [Threads -> Steps] /\ fan' \in [Threads -> Int]
  /\ want' \in [Threads -> Speeds]' /\ seen' \in [Threads -> Buffers]'
  /\ Commands' /\ HasRead'

\* What a step leaves when it touches one thread alone, and no speed.
LEMMA OneThread ==
  ASSUME SpeedInv, NEW t \in Threads, NEW to \in Steps, NEW f \in Int, NEW w \in Speeds,
         NEW b \in Buffers,
         pc' = [pc EXCEPT ![t] = to], fan' = [fan EXCEPT ![t] = f],
         want' = [want EXCEPT ![t] = w], seen' = [seen EXCEPT ![t] = b],
         to \in Commanding => f \in Fans /\ w \in Given(f),
         to = "write" => \A x \in Fans : b[x] \in Given(x),
         to = "clear" => b[0] \in Perfs,
         iface' = iface
  PROVE  LocalsKept
<1>1. /\ \A x : Given(x)' = Given(x)
      /\ Speeds' = Speeds /\ Buffers' = Buffers
  BY GivenSame
<1>2. /\ pc' \in [Threads -> Steps] /\ fan' \in [Threads -> Int]
      /\ want' \in [Threads -> Speeds]' /\ seen' \in [Threads -> Buffers]'
  BY <1>1 DEF SpeedInv, SpeedTypes
<1>3. Commands'
  BY <1>1 DEF SpeedInv, SpeedTypes, Commands
<1>4. HasRead'
  BY <1>1 DEF SpeedInv, SpeedTypes, HasRead
<1> QED  BY <1>2, <1>3, <1>4 DEF LocalsKept

\* A thread that goes on with what it has.
LEMMA GoesOn ==
  ASSUME SpeedInv, NEW t \in Threads, NEW to \in Steps, Goto(t, to), UNCHANGED <<locals, iface>>,
         to \in Commanding => pc[t] \in Commanding, to \notin {"write", "clear"}
  PROVE  LocalsKept
<1>1. /\ fan[t] \in Int /\ want[t] \in Speeds /\ seen[t] \in Buffers
      /\ fan' = [fan EXCEPT ![t] = fan[t]] /\ want' = [want EXCEPT ![t] = want[t]]
      /\ seen' = [seen EXCEPT ![t] = seen[t]] /\ pc' = [pc EXCEPT ![t] = to]
  BY DEF locals, Goto, SpeedInv, SpeedTypes
<1>2. to \in Commanding => fan[t] \in Fans /\ want[t] \in Given(fan[t])
  BY DEF SpeedInv, Commands
<1> QED  BY <1>1, <1>2, OneThread

LEMMA Returns ==
  ASSUME SpeedInv, NEW t \in Threads, Return(t), iface' = iface
  PROVE  LocalsKept
<1> DEFINE to == IF t = Job THEN "next" ELSE "idle"
           f == IF t = Job THEN fan[t] + 1 ELSE 0
<1>1. to \in Steps /\ to \notin Commanding /\ f \in Int /\ 0 \in Speeds /\ Stopped \in Buffers
  BY DEF Steps, Commanding, Speeds, Buffers, Stopped, SpeedInv, SpeedTypes
<1>2. /\ pc' = [pc EXCEPT ![t] = to] /\ fan' = [fan EXCEPT ![t] = f]
      /\ want' = [want EXCEPT ![t] = 0] /\ seen' = [seen EXCEPT ![t] = Stopped]
  BY DEF Return, Goto
<1>3. to \notin {"write", "clear"}
  OBVIOUS
<1> HIDE DEF to, f
<1> QED  BY <1>1, <1>2, <1>3, OneThread

\* What the other conjuncts need when the controller is left alone, or changed.
LEMMA SpeedFrom ==
  ASSUME SpeedInv, iface' = iface, ec' \in Controllers, temp' \in Temps, perf' \in Perfs,
         state' \in Settings \cup {None}, copy' \in Settings \cup {None},
         autoOff' \in BOOLEAN, handed' \in BOOLEAN, crossed' \in BOOLEAN, raced' \in BOOLEAN,
         LocalsKept, \A f \in Fans : ec'.speed[f] \in Given(f)
  PROVE  SpeedInv'
<1>1. /\ \A f : Given(f)' = Given(f)
      /\ Controllers' = Controllers
  BY GivenSame
<1>2. SpeedTypes'
  BY <1>1 DEF SpeedTypes, SpeedInv, LocalsKept
<1>3. OnlyGivenSpeeds'
  BY <1>1 DEF OnlyGivenSpeeds
<1> QED  BY <1>2, <1>3 DEF SpeedInv, LocalsKept

LEMMA WatchType ==
  ASSUME SpeedInv, Watch  PROVE crossed' \in BOOLEAN /\ raced' \in BOOLEAN
BY DEF SpeedInv, SpeedTypes, Watch, Meet, MeetsClear

LEMMA LeastFan ==
  ASSUME NEW S, S \subseteq 0..2, S # {}
  PROVE  \E f \in S : \A g \in S : f <= g
<1>1. PICK x \in S : TRUE
  OBVIOUS
<1>2. \A y \in S : y = 0 \/ y = 1 \/ y = 2
  OBVIOUS
<1>3. 0 \in S \/ 1 \in S \/ 2 \in S
  BY <1>1, <1>2
<1> QED  BY <1>2, <1>3

\* Where there is a fan, there is the first.
LEMMA ZeroFan ==
  ASSUME NEW f \in Fans  PROVE 0 \in Fans
<1>1. Fans \in SUBSET Nat /\ \A g \in Fans : g <= 2
  BY ConstantsOK
<1>2. IsFiniteSet(Fans)
  BY <1>1, FS_BoundedSetOfNaturals
<1>3. Cardinality(Fans) \in Nat
  BY <1>2, FS_CardinalityType
<1> QED  BY <1>3, ConstantsOK

LEMMA BeginSteps ==
  ASSUME SpeedInv  PROVE Begin \in Steps \ {"write", "clear"}
<1>1. iface \in {"Clevo", "Uniwill"} /\ autoOff \in BOOLEAN
  BY ConstantsOK DEF SpeedInv, SpeedTypes
<1> QED  BY <1>1 DEF Begin, Steps

\* The tick: the job's next command is what the curve of its fan gives.
LEMMA JobSpeed ==
  ASSUME SpeedInv, Tick \/ NextFan, Watch  PROVE SpeedInv'
<1> USE WatchType
<1>1. Job \in Threads
  BY DEF Threads
<1>2. /\ iface' = iface /\ ec' = ec /\ temp' = temp /\ perf' = perf /\ state' = state
      /\ autoOff' = autoOff /\ handed' = handed
  BY DEF Tick, NextFan, outside, shared
<1>3. CASE Tick
  <2>1. LocalsKept
    BY <1>1, <1>2, <1>3, GoesOn DEF Tick, Steps, Commanding
  <2>2. copy' = state
    BY <1>3 DEF Tick
  <2> QED  BY <1>2, <2>1, <2>2, SpeedFrom DEF SpeedInv, SpeedTypes, OnlyGivenSpeeds
<1>4. CASE NextFan
  <2> DEFINE left == {f \in DOMAIN copy \cap Fans : f >= fan[Job]}
  <2>1. /\ pc[Job] = "next" /\ seen' = [seen EXCEPT ![Job] = seen[Job]]
        /\ seen[Job] \in Buffers /\ fan[Job] \in Int /\ want[Job] \in Speeds /\ 0 \in Speeds
    BY <1>1, <1>4 DEF NextFan, At, SpeedInv, SpeedTypes, Speeds
  <2>2. PICK to \in Steps, f \in Int, w \in Speeds :
          /\ pc' = [pc EXCEPT ![Job] = to] /\ fan' = [fan EXCEPT ![Job] = f]
          /\ want' = [want EXCEPT ![Job] = w]
          /\ to \in Commanding => f \in Fans /\ w \in Given(f)
          /\ to \notin {"write", "clear"}
          /\ copy' \in {copy, None}
    <3>1. CASE left = {}
      <4>1. /\ pc' = [pc EXCEPT ![Job] = "idle"] /\ fan' = [fan EXCEPT ![Job] = 0]
            /\ want' = [want EXCEPT ![Job] = want[Job]] /\ copy' = None
        BY <1>1, <1>4, <3>1 DEF NextFan, Goto, SpeedInv, SpeedTypes
      <4>2. "idle" \in Steps /\ "idle" \notin Commanding
        BY DEF Steps, Commanding
      <4> USE <2>1, <4>2
      <4> WITNESS "idle" \in Steps, 0 \in Int, want[Job] \in Speeds
      <4> QED  BY <4>1, <4>2
    <3>2. CASE left # {}
      <4> DEFINE f == CHOOSE f \in left : \A g \in left : f <= g
      <4>1. \E g \in left : \A h \in left : g <= h
        BY <3>2, LeastFan, ConstantsOK
      <4>2. f \in left
        BY <4>1
      <4>3. f \in Fans /\ f \in DOMAIN copy /\ f \in Int
        <5>1. \A x \in Fans : x \in Int
          BY ConstantsOK
        <5> HIDE DEF f
        <5> QED  BY <4>2, <5>1
      <4>4. copy \in Settings
        <5>1. DOMAIN None = {}
          BY DEF None
        <5> QED  BY <4>3, <5>1 DEF SpeedInv, SpeedTypes
      <4>5. Target(copy, f) \in Given(f) /\ Target(copy, f) \in Speeds
        BY <4>3, <4>4, GivenSpeeds DEF SpeedInv, SpeedTypes
      <4>6. \/ /\ pc' = [pc EXCEPT ![Job] = Begin] /\ fan' = [fan EXCEPT ![Job] = f]
               /\ want' = [want EXCEPT ![Job] = Target(copy, f)] /\ copy' = copy
            \/ /\ pc' = [pc EXCEPT ![Job] = "next"] /\ fan' = [fan EXCEPT ![Job] = f + 1]
               /\ want' = [want EXCEPT ![Job] = 0] /\ copy' = copy
        BY <1>4, <3>2 DEF NextFan, Goto
      <4>7. "next" \in Steps /\ "next" \notin Commanding
        BY DEF Steps, Commanding
      <4> HIDE DEF f
      <4> QED  BY <2>1, <4>3, <4>5, <4>6, <4>7, BeginSteps
    <3> QED  BY <3>1, <3>2
  <2>3. LocalsKept
    BY <1>1, <1>2, <2>1, <2>2, OneThread
  <2> QED  BY <1>2, <2>2, <2>3, SpeedFrom DEF SpeedInv, SpeedTypes, OnlyGivenSpeeds
<1> QED  BY <1>3, <1>4

\* A thread in set_fan_speed or set_fan_auto that writes no speed.
LEMMA QuietSteps ==
  ASSUME SpeedInv, Watch, NEW t \in Threads,
         \/ TakeManual(t) \/ SetFlag(t) \/ ReadBack(t) \/ Record(t)
         \/ ReadMode(t) \/ ClearOwnership(t) \/ HandBack(t) \/ ClearFlag(t)
  PROVE  SpeedInv'
<1>1. /\ iface' = iface /\ temp' = temp /\ perf' = perf /\ state' = state /\ copy' = copy
  BY DEF TakeManual, SetFlag, ReadBack, Record, ReadMode, ClearOwnership, HandBack, ClearFlag,
         shared, outside
<1>2. autoOff' \in BOOLEAN /\ handed' \in BOOLEAN
  BY DEF TakeManual, SetFlag, ReadBack, Record, ReadMode, ClearOwnership, HandBack, ClearFlag,
         shared, SpeedInv, SpeedTypes
<1>3. ec \in Controllers /\ \A f \in Fans : ec.speed[f] \in Given(f)
  BY DEF SpeedInv, SpeedTypes, OnlyGivenSpeeds
<1>4. ec' \in Controllers /\ ec'.speed = ec.speed
  <2>1. \/ ec' = ec
        \/ ec' = [ec EXCEPT !.by = "daemon"]
        \/ ec' = [ec EXCEPT !.by = "firmware", !.own = FALSE]
        \/ pc[t] = "clear" /\ ec' = [ec EXCEPT !.own = FALSE, !.perf = seen[t][0]]
    BY DEF TakeManual, SetFlag, ReadBack, Record, ReadMode, ClearOwnership, HandBack, ClearFlag, At
  <2>2. pc[t] = "clear" => seen[t][0] \in Perfs
    BY DEF SpeedInv, HasRead
  <2> QED  BY <1>3, <2>1, <2>2 DEF Controllers
<1>5. LocalsKept
  <2>1. CASE Return(t)
    BY <1>1, <2>1, Returns
  <2>2. ASSUME NEW to \in {"flag", "read", "record", "duty", "autoflag"},
               Goto(t, to), UNCHANGED locals,
               to \in Commanding => pc[t] \in Commanding
        PROVE  LocalsKept
    <3>1. to \in Steps /\ to \notin {"write", "clear"}
      BY DEF Steps
    <3> QED  BY <1>1, <2>2, <3>1, GoesOn
  <2>3. CASE TakeManual(t) \/ SetFlag(t) \/ Record(t) \/ ClearOwnership(t) \/ HandBack(t) \/ ClearFlag(t)
    BY <2>1, <2>2, <2>3
    DEF TakeManual, SetFlag, Record, ClearOwnership, HandBack, ClearFlag, At, Commanding
  <2>4. /\ fan[t] \in Int /\ want[t] \in Speeds /\ seen[t] \in Buffers
        /\ (UNCHANGED <<fan, want>> =>
             fan' = [fan EXCEPT ![t] = fan[t]] /\ want' = [want EXCEPT ![t] = want[t]])
        /\ pc[t] \in Commanding => fan[t] \in Fans /\ want[t] \in Given(fan[t])
    BY DEF SpeedInv, SpeedTypes, Commands
  <2>5. CASE ReadBack(t)
    <3>1. CASE pc[t] = "read" /\ seen' = [seen EXCEPT ![t] = ec.speed] /\ Goto(t, "write")
               /\ UNCHANGED <<fan, want>>
      <4>1. ec.speed \in Buffers
        BY <1>3 DEF Controllers, Buffers
      <4>2. "write" \in Steps /\ "read" \in Commanding
        BY DEF Steps, Commanding
      <4>3. /\ pc' = [pc EXCEPT ![t] = "write"] /\ fan' = [fan EXCEPT ![t] = fan[t]]
            /\ want' = [want EXCEPT ![t] = want[t]] /\ seen' = [seen EXCEPT ![t] = ec.speed]
            /\ fan[t] \in Fans /\ want[t] \in Given(fan[t])
        BY <2>4, <3>1, <4>2 DEF Goto
      <4> QED  BY <1>1, <1>3, <2>4, <4>1, <4>2, <4>3, OneThread
    <3> QED  BY <2>1, <2>5, <3>1 DEF ReadBack, At
  <2>6. CASE ReadMode(t)
    <3>1. CASE pc[t] = "mode" /\ Goto(t, "clear")
               /\ seen' = [seen EXCEPT ![t][0] = ec.perf] /\ UNCHANGED <<fan, want>>
      <4> DEFINE b == [seen[t] EXCEPT ![0] = ec.perf]
      <4>1. ec.perf \in Perfs /\ "clear" \in Steps /\ "mode" \in Commanding
        BY <1>3 DEF Controllers, Steps, Commanding
      <4>2. 0 \in Fans
        BY <2>4, <3>1, <4>1, ZeroFan
      <4>3. b \in Buffers /\ b[0] \in Perfs
        BY <2>4, <4>1, <4>2 DEF Buffers
      <4>4. seen' = [seen EXCEPT ![t] = b]
        BY <3>1
      <4>5. /\ pc' = [pc EXCEPT ![t] = "clear"] /\ fan' = [fan EXCEPT ![t] = fan[t]]
            /\ want' = [want EXCEPT ![t] = want[t]]
            /\ fan[t] \in Fans /\ want[t] \in Given(fan[t])
        BY <2>4, <3>1, <4>1 DEF Goto
      <4> HIDE DEF b
      <4> QED  BY <1>1, <2>4, <4>1, <4>3, <4>4, <4>5, OneThread
    <3>2. CASE pc[t] = "mode" /\ Goto(t, "duty") /\ UNCHANGED locals
      BY <2>2, <3>2 DEF Commanding
    <3> QED  BY <2>1, <2>6, <3>1, <3>2 DEF ReadMode, At
  <2> QED  BY <2>3, <2>5, <2>6
<1> QED  BY <1>1, <1>2, <1>3, <1>4, <1>5, WatchType, SpeedFrom DEF SpeedInv, SpeedTypes

\* The word for all fans: to its own the speed that was asked for, to the others what was read.
LEMMA WriteSpeed ==
  ASSUME SpeedInv, Watch, NEW t \in Threads, WriteSpeeds(t) \/ WriteDuty(t)
  PROVE  SpeedInv'
<1>1. /\ iface' = iface /\ temp' = temp /\ perf' = perf /\ state' = state /\ copy' = copy
      /\ autoOff' = autoOff /\ handed' \in BOOLEAN
  BY DEF WriteSpeeds, WriteDuty, shared, outside, SpeedInv, SpeedTypes
<1>2. ec \in Controllers /\ \A f \in Fans : ec.speed[f] \in Given(f)
  BY DEF SpeedInv, SpeedTypes, OnlyGivenSpeeds
<1>3. /\ pc[t] \in {"write", "duty"} /\ fan[t] \in Fans /\ want[t] \in Given(fan[t])
      /\ want[t] \in Speeds
  BY DEF WriteSpeeds, WriteDuty, At, SpeedInv, SpeedTypes, Commands, Commanding
<1>4. LocalsKept
  <2>1. CASE Return(t)
    BY <1>1, <2>1, Returns
  <2>2. CASE Goto(t, "record") /\ UNCHANGED locals
    <3>1. "record" \in Steps /\ "record" \notin {"write", "clear"} /\ pc[t] \in Commanding
      BY <1>3 DEF Steps, Commanding
    <3> QED  BY <1>1, <2>2, <3>1, GoesOn
  <2> QED  BY <2>1, <2>2 DEF WriteSpeeds, WriteDuty
<1>5. ec' \in Controllers /\ \A f \in Fans : ec'.speed[f] \in Given(f)
  <2>1. CASE ec' = ec
    BY <1>2, <2>1
  <2>2. CASE pc[t] = "write" /\ ec' = [ec EXCEPT !.speed = [seen[t] EXCEPT ![fan[t]] = want[t]]]
    <3> DEFINE b == [seen[t] EXCEPT ![fan[t]] = want[t]]
    <3>1. seen[t] \in Buffers /\ \A f \in Fans : seen[t][f] \in Given(f)
      BY <2>2 DEF SpeedInv, SpeedTypes, HasRead
    <3>2. \A f \in Fans : b[f] \in Given(f)
      BY <1>3, <3>1 DEF Buffers
    <3>3. b \in [Fans -> Speeds]
      <4>1. \A f \in Fans : b[f] \in Speeds
        BY <3>2, GivenSpeeds
      <4>2. b \in [Fans -> Speeds \cup Perfs]
        BY <1>3, <3>1 DEF Buffers
      <4> HIDE DEF b
      <4> QED  BY <4>1, <4>2
    <3>4. ec' = [ec EXCEPT !.speed = b]
      BY <2>2
    <3> HIDE DEF b
    <3>5. ec' \in Controllers /\ ec'.speed = b
      BY <1>2, <3>3, <3>4 DEF Controllers
    <3> QED  BY <3>2, <3>5
  <2>3. CASE ec' = [ec EXCEPT !.by = "daemon", !.speed[fan[t]] = want[t]]
    <3> DEFINE b == [ec.speed EXCEPT ![fan[t]] = want[t]]
    <3>1. ec.speed \in [Fans -> Speeds]
      BY <1>2 DEF Controllers
    <3>2. b \in [Fans -> Speeds] /\ \A f \in Fans : b[f] \in Given(f)
      BY <1>2, <1>3, <3>1
    <3>3. ec' = [ec EXCEPT !.by = "daemon", !.speed = b]
      BY <2>3
    <3> HIDE DEF b
    <3>4. ec' \in Controllers /\ ec'.speed = b
      BY <1>2, <3>2, <3>3 DEF Controllers
    <3> QED  BY <3>2, <3>4
  <2> QED  BY <2>1, <2>2, <2>3 DEF WriteSpeeds, WriteDuty, At
<1> QED  BY <1>1, <1>4, <1>5, WatchType, SpeedFrom DEF SpeedInv, SpeedTypes

\* The calls of a client, and what is around the daemon.
LEMMA CallSpeed ==
  ASSUME SpeedInv, Watch, NEW c \in Clients, Call(c)  PROVE SpeedInv'
<1>1. /\ c \in Threads /\ iface' = iface /\ temp' = temp /\ copy' = copy
  BY DEF Threads, Call, ApplyFanSettings, SetFanSpeed, SetAllFansAuto, SetPerformanceProfile,
         Leave, Shutdown, outside
<1>2. /\ autoOff' = autoOff /\ handed' \in BOOLEAN /\ state' \in Settings \cup {None}
  BY DEF Call, ApplyFanSettings, SetFanSpeed, SetAllFansAuto, SetPerformanceProfile,
         Leave, Shutdown, shared, SpeedInv, SpeedTypes
<1>3. ec \in Controllers /\ \A f \in Fans : ec.speed[f] \in Given(f)
  BY DEF SpeedInv, SpeedTypes, OnlyGivenSpeeds
<1>4. ec' \in Controllers /\ ec'.speed = ec.speed /\ perf' \in Perfs
  <2>1. \/ ec' = ec /\ perf' = perf
        \/ \E p \in Perfs : ec' = [ec EXCEPT !.perf = p] /\ perf' = p
    BY DEF Call, ApplyFanSettings, SetFanSpeed, SetAllFansAuto, SetPerformanceProfile,
           Leave, Shutdown
  <2> QED  BY <1>3, <2>1 DEF Controllers, SpeedInv, SpeedTypes
<1>5. LocalsKept
  <2>1. ASSUME NEW to \in {"idle", "auto"}, Goto(c, to), UNCHANGED locals  PROVE LocalsKept
    <3>1. to \in Steps /\ to \notin Commanding /\ to \notin {"write", "clear"}
      BY DEF Steps, Commanding
    <3> QED  BY <1>1, <2>1, <3>1, GoesOn
  <2>2. CASE ApplyFanSettings(c) \/ SetAllFansAuto(c) \/ Leave(c)
    BY <2>1, <2>2 DEF ApplyFanSettings, SetAllFansAuto, Leave
  <2>3. CASE SetFanSpeed(c)
    <3>1. PICK f \in Fans, p \in Percents :
            /\ fan' = [fan EXCEPT ![c] = f] /\ want' = [want EXCEPT ![c] = Wire(p)]
      BY <2>3 DEF SetFanSpeed
    <3>2. f \in Int /\ Wire(p) \in Given(f) /\ Wire(p) \in Speeds
      BY GivenSpeeds, ConstantsOK
    <3>3. seen' = [seen EXCEPT ![c] = seen[c]] /\ seen[c] \in Buffers
      BY <1>1, <2>3 DEF SetFanSpeed, SpeedInv, SpeedTypes
    <3>4. pc' = [pc EXCEPT ![c] = Begin]
      BY <2>3 DEF SetFanSpeed, Goto
    <3>5. Begin \in Steps /\ Begin \notin {"write", "clear"}
      BY BeginSteps
    <3> QED  BY <1>1, <3>1, <3>2, <3>3, <3>4, <3>5, OneThread
  <2>4. CASE SetPerformanceProfile(c) \/ Shutdown(c)
    <3>1. UNCHANGED <<pc, locals>>
      BY <2>4 DEF SetPerformanceProfile, Shutdown
    <3> QED  BY <1>1, <3>1, GivenSame DEF locals, LocalsKept, SpeedInv, SpeedTypes, Commands, HasRead
  <2> QED  BY <2>2, <2>3, <2>4 DEF Call
<1> QED  BY <1>1, <1>2, <1>3, <1>4, <1>5, WatchType, SpeedFrom DEF SpeedInv, SpeedTypes

LEMMA OutsideSpeed ==
  ASSUME SpeedInv, (Environment /\ Watch) \/ UNCHANGED vars  PROVE SpeedInv'
<1>1. /\ iface' = iface /\ perf' = perf /\ state' = state /\ copy' = copy
      /\ autoOff' = autoOff /\ handed' = handed /\ temp' \in Temps
      /\ UNCHANGED <<pc, locals>>
  BY DEF Environment, CalmDown, FirmwareSets, FirmwareTakes, Warm, Expire, shared, outside, vars,
         SpeedInv, SpeedTypes
<1>2. crossed' \in BOOLEAN /\ raced' \in BOOLEAN
  BY WatchType DEF vars, SpeedInv, SpeedTypes
<1>3. ec \in Controllers /\ \A f \in Fans : ec.speed[f] \in Given(f)
  BY DEF SpeedInv, SpeedTypes, OnlyGivenSpeeds
<1>4. ec' \in Controllers /\ \A f \in Fans : ec'.speed[f] \in Given(f)
  <2>1. CASE ec' = ec
    BY <1>3, <2>1
  <2>2. CASE ec' = [ec EXCEPT !.own = TRUE]
    BY <1>3, <2>2 DEF Controllers
  <2>3. ASSUME NEW f \in Fans, NEW r \in Firmware, ec' = [ec EXCEPT !.speed[f] = r]
        PROVE  ec' \in Controllers /\ \A x \in Fans : ec'.speed[x] \in Given(x)
    <3> DEFINE b == [ec.speed EXCEPT ![f] = r]
    <3>1. ec.speed \in [Fans -> Speeds] /\ r \in Given(f) /\ r \in Speeds
      BY <1>3, GivenSpeeds DEF Controllers
    <3>2. b \in [Fans -> Speeds] /\ \A x \in Fans : b[x] \in Given(x)
      BY <1>3, <3>1
    <3>3. ec' = [ec EXCEPT !.speed = b]
      BY <2>3
    <3> HIDE DEF b
    <3>4. ec' \in Controllers /\ ec'.speed = b
      BY <1>3, <3>2, <3>3 DEF Controllers
    <3> QED  BY <3>2, <3>4
  <2> QED  BY <2>1, <2>2, <2>3
           DEF Environment, CalmDown, FirmwareSets, FirmwareTakes, Warm, Expire, vars
<1>5. LocalsKept
  BY <1>1, GivenSame DEF locals, LocalsKept, SpeedInv, SpeedTypes, Commands, HasRead
<1> QED  BY <1>1, <1>2, <1>4, <1>5, SpeedFrom DEF SpeedInv, SpeedTypes

LEMMA SpeedNext ==
  ASSUME SpeedInv, [Next]_vars  PROVE SpeedInv'
<1>1. ASSUME NEW t \in Threads, SpeedStep(t), Watch  PROVE SpeedInv'
  BY <1>1, QuietSteps, WriteSpeed DEF SpeedStep
<1>2. Job \in Threads /\ Clients \subseteq Threads
  BY DEF Threads
<1> QED  BY <1>1, <1>2, JobSpeed, CallSpeed, OutsideSpeed DEF Next, JobStep

\* No fan runs at a speed that nobody asked for: the curves, the clients and the firmware are
\* the only sources, whoever else writes the word the fans share, and whatever fails.
THEOREM SpeedsAreGiven == Spec => []OnlyGivenSpeeds
<1>1. Init => SpeedInv
  BY SpeedInit
<1>2. SpeedInv /\ [Next]_vars => SpeedInv'
  BY SpeedNext
<1>3. SpeedInv => OnlyGivenSpeeds
  BY DEF SpeedInv
<1> QED  BY <1>1, <1>2, <1>3, PTL DEF Spec

-----------------------------------------------------------------------------
(* The handing back.                                                        *)

\* The places are the interface's own.
PlacesFit ==
  /\ autoOff => iface = "Clevo"
  /\ \A t \in Threads : pc[t] \in {"manual", "flag", "read", "write", "record", "autoflag"} =>
       iface = "Clevo"

\* As long as nobody has met: the flag follows the controller, or will when the thread that
\* hands back has cleared it.
FlagFollows ==
  ~crossed =>
    /\ ~Meet
    /\ \A t \in Threads : pc[t] = "flag" => ec.by = "daemon"
    /\ autoOff /\ ec.by = "firmware" => \E t \in Threads : pc[t] = "autoflag"

\* The profile bits survive the two halves of clear_fan_ownership.
PerfFollows ==
  ~raced => ec.perf = perf /\ \A t \in Threads : pc[t] = "clear" => seen[t][0] = perf

HandInv == PlacesFit /\ FlagFollows /\ PerfFollows

LEMMA HandInit == Init => HandInv
<1> SUFFICES ASSUME Init  PROVE HandInv
  OBVIOUS
<1>1. \A t \in Threads : pc[t] = "idle"
  BY DEF Init
<1>2. PlacesFit
  BY <1>1 DEF Init, PlacesFit
<1>3. FlagFollows
  BY <1>1 DEF Init, FlagFollows, Meet
<1>4. PerfFollows
  BY <1>1 DEF Init, PerfFollows
<1> QED  BY <1>2, <1>3, <1>4 DEF HandInv

\* Watching: nobody has met who has not been seen.
LEMMA Watching ==
  ASSUME SpeedInv, Watch
  PROVE  (~crossed' => ~crossed /\ ~Meet') /\ (~raced' => ~raced /\ ~MeetsClear)
BY DEF Watch, SpeedInv, SpeedTypes, Meet, MeetsClear

\* The interface fits where a thread goes.
LEMMA PlacesNext ==
  ASSUME SpeedInv, PlacesFit, Next  PROVE PlacesFit'
<1>1. iface \in {"Clevo", "Uniwill"} /\ iface' = iface /\ pc \in [Threads -> Steps]
  BY ConstantsOK DEF SpeedInv, SpeedTypes, Next, JobStep, SpeedStep, Call, Environment,
     Tick, NextFan, TakeManual, SetFlag, ReadBack, WriteSpeeds, Record, ReadMode, ClearOwnership,
     WriteDuty, HandBack, ClearFlag, ApplyFanSettings, SetFanSpeed, SetAllFansAuto,
     SetPerformanceProfile, Leave, Shutdown, CalmDown, FirmwareSets, FirmwareTakes, Warm, Expire,
     outside
<1>2. Job \in Threads /\ Clients \subseteq Threads
  BY DEF Threads
<1> USE <1>1 DEF PlacesFit
<1>3. CASE Tick
  BY <1>2, <1>3 DEF Tick, Goto, shared
<1>4. CASE NextFan
  BY <1>2, <1>4 DEF NextFan, Goto, Begin, shared
<1>5. ASSUME NEW t \in Threads, SpeedStep(t)  PROVE PlacesFit'
  <2>1. CASE TakeManual(t) \/ SetFlag(t) \/ ReadBack(t)
    BY <2>1 DEF TakeManual, SetFlag, ReadBack, At, Goto, Return, shared
  <2>2. CASE WriteSpeeds(t) \/ Record(t)
    BY <2>2 DEF WriteSpeeds, Record, At, Goto, Return, shared
  <2>3. CASE ReadMode(t) \/ ClearOwnership(t) \/ WriteDuty(t)
    BY <2>3 DEF ReadMode, ClearOwnership, WriteDuty, At, Goto, Return, shared
  <2>4. CASE HandBack(t) \/ ClearFlag(t)
    BY <2>4 DEF HandBack, ClearFlag, At, Goto, Return, shared
  <2> QED  BY <1>5, <2>1, <2>2, <2>3, <2>4 DEF SpeedStep
<1>6. ASSUME NEW c \in Clients, Call(c)  PROVE PlacesFit'
  BY <1>2, <1>6 DEF Call, ApplyFanSettings, SetFanSpeed, SetAllFansAuto, SetPerformanceProfile,
     Leave, Shutdown, Goto, Begin, shared
<1>7. CASE Environment
  BY <1>7 DEF Environment, CalmDown, FirmwareSets, FirmwareTakes, Warm, Expire, shared
<1> QED  BY <1>2, <1>3, <1>4, <1>5, <1>6, <1>7 DEF Next, JobStep

\* A profile set between the two halves is seen, or is the same.
LEMMA PerfNext ==
  ASSUME SpeedInv, PerfFollows, Next  PROVE PerfFollows'
<1> SUFFICES ASSUME ~raced'    PROVE /\ ec'.perf = perf'
                                     /\ \A t \in Threads : pc'[t] = "clear" => seen'[t][0] = perf'
  BY DEF PerfFollows
<1>1. /\ ~raced /\ ~MeetsClear /\ ec.perf = perf
      /\ \A t \in Threads : pc[t] = "clear" => seen[t][0] = perf
  BY Watching DEF PerfFollows, Next
<1>2. /\ ec \in Controllers /\ pc \in [Threads -> Steps] /\ seen \in [Threads -> Buffers]
      /\ Job \in Threads /\ Clients \subseteq Threads
  BY DEF SpeedInv, SpeedTypes, Threads
<1> USE <1>1, <1>2
<1>3. CASE Tick \/ NextFan
  <2>1. ec' = ec /\ perf' = perf /\ seen' = seen
    BY <1>3 DEF Tick, NextFan, locals
  <2>2. \A t \in Threads : pc'[t] = "clear" => pc[t] = "clear"
    BY <1>3, BeginSteps DEF Tick, NextFan, Goto
  <2> QED  BY <2>1, <2>2
<1>4. ASSUME NEW t \in Threads, SpeedStep(t)
      PROVE  /\ ec'.perf = perf'
             /\ \A u \in Threads : pc'[u] = "clear" => seen'[u][0] = perf'
  <2>1. perf' = perf
    BY <1>4 DEF SpeedStep, TakeManual, SetFlag, ReadBack, WriteSpeeds, Record, ReadMode,
                ClearOwnership, WriteDuty, HandBack, ClearFlag
  <2>2. ec'.perf = ec.perf
    BY <1>4 DEF SpeedStep, TakeManual, SetFlag, ReadBack, WriteSpeeds, Record, ReadMode,
                ClearOwnership, WriteDuty, HandBack, ClearFlag, At, Controllers
  <2>3. \A u \in Threads : u # t => pc'[u] = pc[u] /\ seen'[u] = seen[u]
    BY <1>4 DEF SpeedStep, TakeManual, SetFlag, ReadBack, WriteSpeeds, Record, ReadMode,
                ClearOwnership, WriteDuty, HandBack, ClearFlag, Goto, Return, locals
  <2>4. pc'[t] = "clear" => seen'[t] = [seen[t] EXCEPT ![0] = ec.perf] /\ fan[t] \in Fans
    <3>1. pc'[t] = "clear" => ReadMode(t)
      BY <1>4 DEF SpeedStep, TakeManual, SetFlag, ReadBack, WriteSpeeds, Record,
                  ClearOwnership, WriteDuty, HandBack, ClearFlag, Goto, Return
    <3>2. ReadMode(t) => fan[t] \in Fans
      BY DEF ReadMode, At, SpeedInv, Commands, Commanding
    <3>3. ReadMode(t) /\ pc'[t] = "clear" => seen'[t] = [seen[t] EXCEPT ![0] = ec.perf]
      BY DEF ReadMode, Goto, Return
    <3> QED  BY <3>1, <3>2, <3>3
  <2>5. fan[t] \in Fans => 0 \in Fans
    BY ZeroFan
  <2>6. pc'[t] = "clear" => seen'[t][0] = perf'
    BY <2>1, <2>4, <2>5 DEF Buffers
  <2> QED  BY <2>1, <2>2, <2>3, <2>6
<1>5. ASSUME NEW c \in Clients, Call(c)
      PROVE  /\ ec'.perf = perf'
             /\ \A u \in Threads : pc'[u] = "clear" => seen'[u][0] = perf'
  <2>1. seen' = seen /\ \A u \in Threads : pc'[u] = "clear" => pc[u] = "clear"
    BY <1>5, BeginSteps DEF Call, ApplyFanSettings, SetFanSpeed, SetAllFansAuto,
                            SetPerformanceProfile, Leave, Shutdown, Goto, locals
  <2>2. ec'.perf = perf'
    BY <1>5 DEF Call, ApplyFanSettings, SetFanSpeed, SetAllFansAuto, SetPerformanceProfile,
                Leave, Shutdown, Controllers
  <2>3. (\E u \in Threads : pc[u] = "clear") => perf' = perf
    BY <2>2 DEF MeetsClear
  <2> QED  BY <2>1, <2>2, <2>3
<1>6. CASE Environment
  <2>1. UNCHANGED <<pc, seen, perf>>
    BY <1>6 DEF Environment, CalmDown, FirmwareSets, FirmwareTakes, Warm, Expire, locals
  <2>2. ec'.perf = ec.perf
    BY <1>6 DEF Environment, CalmDown, FirmwareSets, FirmwareTakes, Warm, Expire, Controllers
  <2> QED  BY <2>1, <2>2
<1> QED  BY <1>3, <1>4, <1>5, <1>6 DEF Next, JobStep

\* The flag.  While a thread hands back, or clears the flag, every other is idle.
LEMMA FlagNext ==
  ASSUME SpeedInv, PlacesFit, FlagFollows, Next  PROVE FlagFollows'
<1> SUFFICES ASSUME ~crossed'
             PROVE  /\ ~Meet'
                    /\ \A t \in Threads : pc'[t] = "flag" => ec'.by = "daemon"
                    /\ autoOff' /\ ec'.by = "firmware" => \E t \in Threads : pc'[t] = "autoflag"
  BY DEF FlagFollows
<1>1. /\ ~crossed /\ ~Meet' /\ ~Meet
      /\ \A t \in Threads : pc[t] = "flag" => ec.by = "daemon"
      /\ autoOff /\ ec.by = "firmware" => \E t \in Threads : pc[t] = "autoflag"
  BY Watching DEF FlagFollows, Next
<1>2. /\ ec \in Controllers /\ pc \in [Threads -> Steps]
      /\ Job \in Threads /\ Clients \subseteq Threads
      /\ iface \in {"Clevo", "Uniwill"}
  BY ConstantsOK DEF SpeedInv, SpeedTypes, Threads
<1> DEFINE Follows == /\ \A t \in Threads : pc'[t] = "flag" => ec'.by = "daemon"
                      /\ autoOff' /\ ec'.by = "firmware" => \E t \in Threads : pc'[t] = "autoflag"
<1>3. ASSUME NEW t \in Threads, autoOff' = autoOff, ec'.by = ec.by,
             \A u \in Threads : u # t => pc'[u] = pc[u],
             pc[t] # "autoflag", pc'[t] # "flag"
      PROVE  Follows
  BY <1>1, <1>3
<1>4. ASSUME Tick \/ NextFan  PROVE Follows
  <2>1. autoOff' = autoOff /\ ec' = ec /\ pc[Job] # "autoflag" /\ \A u \in Threads : u # Job => pc'[u] = pc[u]
    BY <1>2, <1>4 DEF Tick, NextFan, At, Goto, shared
  <2>2. pc'[Job] # "flag"
    BY <1>2, <1>4 DEF Tick, NextFan, At, Goto, Begin
  <2> QED  BY <1>1, <1>2, <1>3, <2>1, <2>2
<1>5. ASSUME NEW t \in Threads, SpeedStep(t)  PROVE Follows
  <2>1. \A u \in Threads : u # t => pc'[u] = pc[u]
    BY <1>2, <1>5 DEF SpeedStep, TakeManual, SetFlag, ReadBack, WriteSpeeds, Record, ReadMode,
                ClearOwnership, WriteDuty, HandBack, ClearFlag, Goto, Return
  <2>2. CASE TakeManual(t)
    <3>1. CASE ec' = [ec EXCEPT !.by = "daemon"]
      BY <1>2, <3>1 DEF Controllers
    <3>2. CASE ec' = ec /\ Return(t)
      <4>1. pc'[t] # "flag"
        BY <1>2, <3>2 DEF Return, Goto
      <4> QED  BY <1>3, <2>1, <2>2, <3>2, <4>1 DEF TakeManual, At, shared
    <3> QED  BY <2>2, <3>1, <3>2 DEF TakeManual
  <2>3. CASE SetFlag(t)
    BY <1>1, <1>2, <2>3 DEF SetFlag, At, Goto, Controllers
  <2>4. CASE ReadBack(t) \/ WriteSpeeds(t) \/ Record(t)
    <3>1. autoOff' = autoOff /\ ec'.by = ec.by /\ pc[t] # "autoflag" /\ pc'[t] # "flag"
      BY <1>2, <2>4 DEF ReadBack, WriteSpeeds, Record, At, Goto, Return, shared, Controllers
    <3> QED  BY <1>3, <2>1, <3>1
  <2>5. CASE ReadMode(t) \/ ClearOwnership(t)
    <3>1. autoOff' = autoOff /\ ec'.by = ec.by /\ pc[t] # "autoflag" /\ pc'[t] # "flag"
      BY <1>2, <2>5 DEF ReadMode, ClearOwnership, At, Goto, Return, shared, Controllers
    <3> QED  BY <1>3, <2>1, <3>1
  <2>6. CASE WriteDuty(t)
    <3>1. CASE ec' = ec
      <4>1. autoOff' = autoOff /\ pc[t] # "autoflag" /\ pc'[t] # "flag"
        BY <1>2, <2>6 DEF WriteDuty, At, Goto, Return, shared
      <4> QED  BY <1>3, <2>1, <3>1, <4>1
    <3>2. CASE ec' = [ec EXCEPT !.by = "daemon", !.speed[fan[t]] = want[t]]
      <4>1. ec'.by = "daemon"
        BY <1>2, <3>2 DEF Controllers
      <4> QED  BY <4>1
    <3> QED  BY <2>6, <3>1, <3>2 DEF WriteDuty
  <2>7. CASE HandBack(t)
    <3>1. \A u \in Threads : u # t => pc[u] = "idle"
      BY <1>1, <2>7 DEF HandBack, At, Meet
    <3>2. autoOff' = autoOff /\ pc[t] = "auto"
      BY <2>7 DEF HandBack, At, shared
    <3>3. CASE Goto(t, "autoflag")
      BY <1>2, <2>1, <3>1, <3>3 DEF Goto
    <3>4. CASE ec' = ec /\ Return(t)
      <4>1. pc'[t] # "flag"
        BY <1>2, <3>4 DEF Return, Goto
      <4> QED  BY <1>3, <2>1, <3>2, <3>4, <4>1
    <3>5. CASE iface # "Clevo" /\ Return(t)
      <4>1. pc'[t] # "flag" /\ ~autoOff
        BY <1>2, <3>5 DEF Return, Goto, PlacesFit
      <4> QED  BY <2>1, <3>1, <3>2, <4>1
    <3> QED  BY <2>7, <3>3, <3>4, <3>5 DEF HandBack
  <2>8. CASE ClearFlag(t)
    <3>1. \A u \in Threads : u # t => pc[u] = "idle"
      BY <1>1, <2>8 DEF ClearFlag, At, Meet
    <3>2. ~autoOff' /\ pc'[t] # "flag"
      BY <1>2, <2>8 DEF ClearFlag, Return, Goto
    <3> QED  BY <2>1, <3>1, <3>2
  <2> QED  BY <1>5, <2>2, <2>3, <2>4, <2>5, <2>6, <2>7, <2>8 DEF SpeedStep
<1>6. ASSUME NEW c \in Clients, Call(c)  PROVE Follows
  <2>1. CASE Shutdown(c)
    BY <1>1, <2>1 DEF Shutdown, shared
  <2>2. CASE SetPerformanceProfile(c)
    BY <1>1, <1>2, <2>2 DEF SetPerformanceProfile, shared, Controllers
  <2>3. CASE ApplyFanSettings(c) \/ SetFanSpeed(c) \/ SetAllFansAuto(c) \/ Leave(c)
    <3>1. /\ autoOff' = autoOff /\ ec' = ec /\ pc[c] # "autoflag"
          /\ \A u \in Threads : u # c => pc'[u] = pc[u]
      BY <1>2, <2>3 DEF ApplyFanSettings, SetFanSpeed, SetAllFansAuto, Leave, Calls, At, Goto, shared
    <3>2. pc'[c] # "flag"
      BY <1>2, <2>3 DEF ApplyFanSettings, SetFanSpeed, SetAllFansAuto, Leave, Goto, Begin
    <3> QED  BY <1>2, <1>3, <3>1, <3>2
  <2> QED  BY <1>6, <2>1, <2>2, <2>3 DEF Call
<1>7. ASSUME Environment  PROVE Follows
  <2>1. ec'.by = ec.by /\ autoOff' = autoOff /\ pc' = pc
    BY <1>2, <1>7 DEF Environment, CalmDown, FirmwareSets, FirmwareTakes, Warm, Expire, shared,
                      Controllers
  <2> QED  BY <1>1, <2>1
<1> HIDE DEF Follows
<1>8. Follows
  BY <1>2, <1>4, <1>5, <1>6, <1>7 DEF Next, JobStep
<1> QED  BY <1>1, <1>8 DEF Follows

FanInv == SpeedInv /\ HandInv

LEMMA FanNext ==
  ASSUME FanInv, [Next]_vars  PROVE FanInv'
<1>1. SpeedInv'
  BY SpeedNext DEF FanInv
<1>2. CASE Next
  BY <1>1, <1>2, PlacesNext, FlagNext, PerfNext DEF FanInv, HandInv
<1>3. CASE UNCHANGED vars
  BY <1>1, <1>3 DEF FanInv, HandInv, PlacesFit, FlagFollows, PerfFollows, Meet,
     vars, shared, locals, outside
<1> QED  BY <1>2, <1>3

\* The performance profile survives the clearing of the ownership bit beside it, by whatever
\* threads, unless it is set between the two halves (TuxedoIo::clear_fan_ownership).
THEOREM ProfileSurvives == Spec => []ProfileKept
<1>1. Init => FanInv
  BY SpeedInit, HandInit DEF FanInv
<1>2. FanInv /\ [Next]_vars => FanInv'
  BY FanNext
<1>3. FanInv => ProfileKept
  BY DEF FanInv, HandInv, PerfFollows, ProfileKept
<1> QED  BY <1>1, <1>2, <1>3, PTL DEF Spec

\* The flag that saves the switch to manual is up only while the controller is in manual mode.
THEOREM FlagIsTrue == Spec => []FlagMeansManual
<1>1. Init => FanInv
  BY SpeedInit, HandInit DEF FanInv
<1>2. FanInv /\ [Next]_vars => FanInv'
  BY FanNext
<1>3. FanInv => FlagMeansManual
  BY DEF FanInv, SpeedInv, SpeedTypes, Controllers, HandInv, FlagFollows, FlagMeansManual, Quiet
<1> QED  BY <1>1, <1>2, <1>3, PTL DEF Spec

-----------------------------------------------------------------------------
(* The passes that read the adapters.                                       *)

\* Times are numbers.
Timing == Delay \in Nat /\ Latency \in Nat /\ Reprobe \in Nat

\* A pass that has still to ask for identities, and so was let begin, has seen an adapter awake.
AwakeWhenRead(p) ==
  /\ p.identify => \E a \in Adapters : p.status[a] # "suspended"
  /\ p.left # {} => p.status \in [Adapters -> {"active", "suspended"}]

Pass == [kind : {"none", "monitor", "dynamic", "fans"}, left : SUBSET Adapters, identify : BOOLEAN,
         status : {<<>>} \cup [Adapters -> {"active", "suspended"}]]
PollState == [status : {"none", "active", "suspended"}, pstate : {Asks!None, 0, 3, 8},
              load : {Asks!None, 0, 5}, age : {Asks!None} \cup 0..Reprobe]

PassInv ==
  /\ power \in [Adapters -> {"active", "suspended"}]
  /\ work \in [Adapters -> {"none", "light", "heavy"}]
  /\ rest \in [Adapters -> 0..Delay + Latency]
  /\ poll \in [Adapters -> PollState] /\ pass \in [Asks!Threads -> Pass] /\ due \subseteq ReadJobs
  /\ woken \in {"no", "along"} /\ \A t \in Asks!Threads : AwakeWhenRead(pass[t])

LEMMA LiveIsAwake ==
  ASSUME NEW s, NEW status  PROVE Asks!Tier(s, status) = "live" => status # "suspended"
  BY DEF Asks!Tier

LEMMA PassInit ==
  ASSUME Timing, Asks!Init  PROVE PassInv
<1>1. rest \in [Adapters -> 0..Delay + Latency] /\ poll \in [Adapters -> PollState]
  BY DEF Timing, Asks!Init, Asks!Unseen, Asks!None, PollState
<1>2. pass \in [Asks!Threads -> Pass] /\ \A t \in Asks!Threads : AwakeWhenRead(pass[t])
  BY DEF Asks!Init, Asks!Idle, Pass, AwakeWhenRead
<1> QED  BY <1>1, <1>2 DEF Asks!Init, PassInv

\* A touch by a pass that has seen one of the adapters awake is of no sleeper alone.
LEMMA TouchAwake ==
  ASSUME Timing, PassInv, NEW A \in SUBSET Adapters, NEW status, Asks!Touch(A, status),
         \E a \in A : status[a] # "suspended"
  PROVE  /\ power' \in [Adapters -> {"active", "suspended"}]
         /\ rest' \in [Adapters -> 0..Delay + Latency] /\ woken' \in {"no", "along"}
<1>1. woken' \in {"no", "along"}
  <2> DEFINE sleepers == {a \in A : status[a] = "suspended"}
  <2>1. woken' = IF sleepers = {} \/ woken = "alone" THEN woken
                 ELSE IF sleepers = A THEN "alone" ELSE "along"
    BY DEF Asks!Touch
  <2>2. sleepers # A
    OBVIOUS
  <2> QED  BY <2>1, <2>2 DEF PassInv
<1>2. power' \in [Adapters -> {"active", "suspended"}] /\ rest' \in [Adapters -> 0..Delay + Latency]
  BY DEF Asks!Touch, PassInv, Timing
<1> QED  BY <1>1, <1>2

LEMMA PollKeeps ==
  ASSUME Timing, NEW s \in PollState, NEW status \in {"active", "suspended"}
  PROVE  /\ Asks!Observed(s, status) \in PollState
         /\ \A p \in {0, 3, 8}, u \in {Asks!None, 0, 5} : Asks!Probed(s, status, p, u) \in PollState
  BY DEF Asks!Observed, Asks!Probed, PollState, Timing

LEMMA BeginPass ==
  ASSUME Timing, PassInv, NEW t \in Asks!Threads, NEW kind \in {"monitor", "dynamic"},
         Asks!Begin(t, kind), due' \subseteq ReadJobs
  PROVE  PassInv'
<1>1. UNCHANGED <<power, work, rest, woken>>
  BY DEF Asks!Begin
<1>2. CASE Asks!Live(power) = {}
  <2>1. poll' = [a \in Adapters |-> Asks!Observed(poll[a], power[a])] /\ UNCHANGED pass
    BY <1>2 DEF Asks!Begin
  <2>2. poll' \in [Adapters -> PollState]
    BY <2>1, PollKeeps DEF PassInv
  <2> QED  BY <1>1, <2>1, <2>2 DEF PassInv
<1>3. CASE Asks!Live(power) # {}
  <2> DEFINE p == [kind |-> kind, status |-> power, left |-> Adapters, identify |-> TRUE]
  <2>1. pass' = [pass EXCEPT ![t] = p] /\ UNCHANGED poll
    BY <1>3 DEF Asks!Begin
  <2>2. \E a \in Adapters : power[a] # "suspended"
    <3>1. PICK a \in Adapters : Asks!Tier(poll[a], power[a]) = "live"
      BY <1>3 DEF Asks!Live
    <3> QED  BY <3>1, LiveIsAwake
  <2>3. p \in Pass /\ AwakeWhenRead(p)
    BY <2>2 DEF AwakeWhenRead, PassInv, Pass
  <2> HIDE DEF p
  <2>4. pass' \in [Asks!Threads -> Pass] /\ \A u \in Asks!Threads : AwakeWhenRead(pass'[u])
    BY <2>1, <2>3 DEF PassInv
  <2> QED  BY <1>1, <2>1, <2>4 DEF PassInv, AwakeWhenRead
<1> QED  BY <1>2, <1>3

LEMMA IdentifyPass ==
  ASSUME Timing, PassInv, NEW t \in Asks!Threads, Asks!Identify(t)  PROVE PassInv'
<1> DEFINE p == [pass[t] EXCEPT !.identify = FALSE]
<1>1. pass[t] \in Pass /\ AwakeWhenRead(pass[t]) /\ \E a \in Adapters : pass[t].status[a] # "suspended"
  BY DEF Asks!Identify, PassInv, AwakeWhenRead
<1>2. pass' = [pass EXCEPT ![t] = p] /\ Asks!Touch(Adapters, pass[t].status) /\ UNCHANGED <<work, poll, due>>
  BY DEF Asks!Identify
<1>3. p \in Pass /\ AwakeWhenRead(p)
  BY <1>1 DEF Pass, AwakeWhenRead
<1> HIDE DEF p
<1>4. pass' \in [Asks!Threads -> Pass] /\ \A u \in Asks!Threads : AwakeWhenRead(pass'[u])
  BY <1>2, <1>3 DEF PassInv
<1>5. /\ power' \in [Adapters -> {"active", "suspended"}]
      /\ rest' \in [Adapters -> 0..Delay + Latency] /\ woken' \in {"no", "along"}
  <2> DEFINE status == pass[t].status
  <2>1. Adapters \in SUBSET Adapters /\ Asks!Touch(Adapters, status) /\ \E a \in Adapters : status[a] # "suspended"
    BY <1>1, <1>2
  <2> HIDE DEF status
  <2> QED  BY <2>1, TouchAwake
<1> QED  BY <1>2, <1>4, <1>5 DEF PassInv

LEMMA QueryPass ==
  ASSUME Timing, PassInv, NEW t \in Asks!Threads, NEW a \in Adapters, Asks!Query(t, a)
  PROVE  PassInv'
<1> DEFINE status == pass[t].status[a]
           p == IF pass[t].left = {a} THEN Asks!Idle ELSE [pass[t] EXCEPT !.left = @ \ {a}]
<1>1. /\ pass[t] \in Pass /\ ~pass[t].identify /\ a \in pass[t].left /\ AwakeWhenRead(pass[t])
      /\ UNCHANGED <<work, due>>
  BY DEF Asks!Query, PassInv
<1>2. pass' = [pass EXCEPT ![t] = p]
  BY DEF Asks!Query
<1>3. p \in Pass /\ AwakeWhenRead(p)
  BY <1>1 DEF Pass, AwakeWhenRead, Asks!Idle
<1> HIDE DEF p
<1>4. pass' \in [Asks!Threads -> Pass] /\ \A u \in Asks!Threads : AwakeWhenRead(pass'[u])
  BY <1>2, <1>3 DEF PassInv
<1>5. status \in {"active", "suspended"}
  BY <1>1 DEF AwakeWhenRead
<1>6. CASE Asks!Tier(poll[a], status) = "live"
  <2>1. Asks!Touch({a}, pass[t].status)
    BY <1>6 DEF Asks!Query
  <2>2. PICK pstate \in Asks!PState(work[a]), util \in {Asks!None, 0, 5} :
          poll' = [poll EXCEPT ![a] = Asks!Probed(@, status, pstate, util)]
    BY <1>6 DEF Asks!Query
  <2>3. poll' \in [Adapters -> PollState]
    <3>1. pstate \in {0, 3, 8}
      BY DEF PassInv, Asks!PState
    <3> QED  BY <1>5, <2>2, <3>1, PollKeeps DEF PassInv
  <2>4. \E b \in {a} : pass[t].status[b] # "suspended"
    BY <1>6, LiveIsAwake
  <2>5. /\ power' \in [Adapters -> {"active", "suspended"}]
        /\ rest' \in [Adapters -> 0..Delay + Latency] /\ woken' \in {"no", "along"}
    <3> DEFINE A == {a}
               was == pass[t].status
    <3>1. A \in SUBSET Adapters /\ Asks!Touch(A, was) /\ \E b \in A : was[b] # "suspended"
      BY <2>1, <2>4
    <3> HIDE DEF A, was
    <3> QED  BY <3>1, TouchAwake
  <2> QED  BY <1>1, <1>4, <2>3, <2>5 DEF PassInv
<1>7. CASE Asks!Tier(poll[a], status) # "live"
  <2>1. poll' = [poll EXCEPT ![a] = Asks!Observed(@, status)] /\ UNCHANGED <<power, rest, woken>>
    BY <1>7 DEF Asks!Query
  <2>2. poll' \in [Adapters -> PollState]
    BY <1>5, <2>1, PollKeeps DEF PassInv
  <2> QED  BY <1>1, <1>4, <2>1, <2>2 DEF PassInv
<1> QED  BY <1>1, <1>6, <1>7

LEMMA FansPass ==
  ASSUME Timing, PassInv, Asks!ReadFans  PROVE PassInv'
<1>1. \E a \in Adapters : power[a] # "suspended"
  <2>1. PICK a \in Adapters : Asks!Tier(poll[a], power[a]) = "live"
    BY DEF Asks!ReadFans, Asks!Live
  <2> QED  BY <2>1, LiveIsAwake
<1>2. Asks!Touch(Adapters, power) /\ UNCHANGED <<work, poll, pass, due>>
  BY DEF Asks!ReadFans
<1> QED  BY <1>1, <1>2, TouchAwake DEF PassInv, AwakeWhenRead

LEMMA AdapterPass ==
  ASSUME Timing, PassInv, NEW a \in Adapters,
         (\E w \in {"none", "light", "heavy"} : Asks!Work(a, w)) \/ Asks!Suspend(a)
  PROVE  PassInv'
<1>1. UNCHANGED <<poll, pass, due, woken>>
  BY DEF Asks!Work, Asks!Suspend
<1>2. /\ power' \in [Adapters -> {"active", "suspended"}]
      /\ work' \in [Adapters -> {"none", "light", "heavy"}]
      /\ rest' \in [Adapters -> 0..Delay + Latency]
  BY DEF Asks!Work, Asks!Suspend, PassInv, Timing
<1> QED  BY <1>1, <1>2 DEF PassInv, AwakeWhenRead

LEMMA TickPass ==
  ASSUME Timing, PassInv, Asks!Tick  PROVE PassInv'
<1>1. rest' \in [Adapters -> 0..Delay + Latency]
  <2>1. ASSUME NEW a \in Adapters, power[a] = "active", work[a] = "none"
        PROVE  rest[a] + 1 \in 0..Delay + Latency
    <3>1. rest[a] \in Nat /\ (rest[a] >= Delay => rest[a] < Delay + Latency)
      BY <2>1 DEF PassInv, Asks!Tick, Asks!CanSuspend, Timing
    <3>2. CASE Latency = 0
      BY <3>1, <3>2 DEF Timing
    <3>3. CASE Latency # 0
      BY <3>1, <3>3 DEF Timing
    <3> QED  BY <3>2, <3>3
  <2> QED  BY <2>1 DEF Asks!Tick, Timing
<1>2. poll' \in [Adapters -> PollState]
  <2>1. ASSUME NEW a \in Adapters, poll[a].age \in 0..Reprobe-1
        PROVE  [poll[a] EXCEPT !.age = @ + 1] \in PollState
    BY <2>1 DEF PassInv, PollState, Timing
  <2>2. \A a \in Adapters : poll[a] \in PollState
    BY DEF PassInv
  <2> QED  BY <2>1, <2>2 DEF Asks!Tick
<1>3. due' \subseteq ReadJobs /\ UNCHANGED <<power, work, pass, woken>>
  BY DEF Asks!Tick
<1> QED  BY <1>1, <1>2, <1>3 DEF PassInv, AwakeWhenRead

LEMMA PassNext ==
  ASSUME Timing, PassInv, ReadJobs \subseteq {"monitor", "dynamic"}, [Asks!Next]_(Asks!pollVars)
  PROVE  PassInv'
<1>1. ASSUME NEW k \in ReadJobs, Asks!BeginJob(k)  PROVE PassInv'
  <2>1. k \in {"monitor", "dynamic"} /\ due' \subseteq ReadJobs /\ Asks!Job \in Asks!Threads
    BY <1>1 DEF Asks!BeginJob, PassInv, Asks!Threads
  <2> QED  BY <1>1, <2>1, BeginPass DEF Asks!BeginJob
<1>2. ASSUME NEW c \in Readers, Asks!BeginCall(c)  PROVE PassInv'
  <2>1. due' \subseteq ReadJobs /\ c \in Asks!Threads
    BY <1>2 DEF Asks!BeginCall, PassInv, Asks!Threads
  <2> QED  BY <1>2, <2>1, BeginPass DEF Asks!BeginCall
<1>3. ASSUME NEW t \in Asks!Threads, Asks!PassStep(t)  PROVE PassInv'
  BY <1>3, IdentifyPass, QueryPass DEF Asks!PassStep
<1>4. CASE UNCHANGED Asks!pollVars
  BY <1>4 DEF Asks!pollVars, PassInv, AwakeWhenRead
<1> QED  BY <1>1, <1>2, <1>3, <1>4, FansPass, AdapterPass, TickPass DEF Asks!Next, Asks!JobStep, Asks!Threads

LEMMA PassGives ==
  ASSUME PassInv  PROVE Asks!NotAskedAlone /\ Asks!TypeOK
<1>1. \A t \in Asks!Threads : pass[t].kind \in {"none", "monitor", "dynamic", "fans"}
                          /\ pass[t].left \subseteq Adapters
  BY DEF PassInv, Pass
<1> QED  BY <1>1 DEF PassInv, Asks!NotAskedAlone, Asks!TypeOK, PollState

\* Whatever the jobs and any number of clients do, and however their passes cross, with any
\* number of adapters: a pass that saw all of them suspended asks none, and one that it saw
\* suspended is asked, if at all, together with one that was awake (get_nvidia_gpu_info).
THEOREM SleeperNotAsked ==
  ASSUME Timing, ReadJobs \subseteq {"monitor", "dynamic"}
  PROVE  Asks!Spec => [](Asks!NotAskedAlone /\ Asks!TypeOK)
<1>1. Asks!Init => PassInv
  BY PassInit
<1>2. PassInv /\ [Asks!Next]_(Asks!pollVars) => PassInv'
  BY PassNext
<1>3. PassInv => Asks!NotAskedAlone /\ Asks!TypeOK
  BY PassGives
<1> QED  BY <1>1, <1>2, <1>3, PTL DEF Asks!Spec

-----------------------------------------------------------------------------
(* Which adapter an index stands for.                                       *)

\* Adapters are positive numbers, and a pass reads no fields that there are not.
Numbering ==
  /\ IsFiniteSet(Gpus) /\ Ident!None \notin Gpus /\ Readable \subseteq SUBSET Ident!Fields

\* What is learned of an index is so.
LearnedInv ==
  /\ Ident!TypeOK /\ ~roused
  /\ \A i \in Ident!Indexes : learned[i] \in {Ident!None, order[i]}

LEMMA LearnedInit ==
  ASSUME Numbering, Ident!Init  PROVE LearnedInv
<1>1. order \in [Ident!Indexes -> Gpus]
  BY DEF Ident!Init, Ident!Bijection, Ident!Injection, Ident!Surjection
<1> QED  BY <1>1 DEF Ident!Init, LearnedInv, Ident!TypeOK

LEMMA SameCount == Ident!Cardinality(Gpus) = Cardinality(Gpus)
  BY DEF Ident!Cardinality, Cardinality

\* The status that a pass takes for a device.
LEMMA StatusOfDevice ==
  ASSUME Numbering, LearnedInv, NEW s \in [Ident!Indexes -> Gpus \cup {Ident!None}], NEW i \in Ident!Indexes,
         s[i] \in {Ident!None, order[i]}
  PROVE  Ident!StatusOf(s)[i] \in {word[order[i]], Ident!Unknown}
<1>1. order[i] \in Gpus /\ order[i] # Ident!None
  BY DEF LearnedInv, Ident!TypeOK, Numbering
<1>2. CASE s[i] # Ident!None
  BY <1>2 DEF Ident!StatusOf
<1>3. CASE s[i] = Ident!None /\ Cardinality(Gpus) = 1
  <2>1. PICK g : Gpus = {g}
    BY <1>3, FS_Singleton DEF Numbering
  <2>2. (CHOOSE h \in Gpus : TRUE) = order[i]
    BY <1>1, <2>1
  <2>3. Ident!Cardinality(Gpus) = 1
    BY <1>3, SameCount
  <2> QED  BY <1>1, <1>3, <2>2, <2>3 DEF Ident!StatusOf
<1>4. CASE s[i] = Ident!None /\ Cardinality(Gpus) # 1
  <2>1. Ident!Cardinality(Gpus) # 1
    BY <1>4, SameCount
  <2> QED  BY <1>4, <2>1 DEF Ident!StatusOf
<1> QED  BY <1>2, <1>3, <1>4

LEMMA IdentifyStatus ==
  ASSUME Numbering, LearnedInv, Ident!Identify
  PROVE  LearnedInv' /\ \A i \in Ident!Indexes : statuses'[i] \in {word[order[i]], Ident!Unknown}
<1>1. PICK said \in [Ident!Indexes -> BOOLEAN] :
        /\ slots' = [i \in Ident!Indexes |-> IF said[i] THEN order[i] ELSE Ident!None]
        /\ learned' = [i \in Ident!Indexes |-> IF said[i] THEN order[i] ELSE learned[i]]
        /\ statuses' = Ident!StatusOf(slots')
  BY DEF Ident!Identify
<1>2. /\ slots' \in [Ident!Indexes -> Gpus \cup {Ident!None}]
      /\ \A i \in Ident!Indexes : slots'[i] \in {Ident!None, order[i]}
  BY <1>1 DEF LearnedInv, Ident!TypeOK
<1>3. \A i \in Ident!Indexes : statuses'[i] \in {word[order[i]], Ident!Unknown}
  BY <1>1, <1>2, StatusOfDevice
<1>4. statuses' \in [Ident!Indexes -> StatusWords \cup {Ident!Unknown}]
  <2>1. statuses' = [i \in Ident!Indexes |-> statuses'[i]]
    BY <1>1 DEF Ident!StatusOf
  <2>2. \A i \in Ident!Indexes : word[order[i]] \in StatusWords
    BY DEF LearnedInv, Ident!TypeOK
  <2> QED  BY <1>3, <2>1, <2>2
<1>5. /\ learned' \in [Ident!Indexes -> Gpus \cup {Ident!None}]
      /\ \A i \in Ident!Indexes : learned'[i] \in {Ident!None, order[i]}
  BY <1>1 DEF LearnedInv, Ident!TypeOK
<1>6. todo' \subseteq Ident!Indexes /\ UNCHANGED <<order, word, meta, good, roused>>
  BY DEF Ident!Identify
<1> QED  BY <1>2, <1>3, <1>4, <1>5, <1>6 DEF LearnedInv, Ident!TypeOK

LEMMA DescribeStatus ==
  ASSUME Numbering, LearnedInv, NEW i \in Ident!Indexes, Ident!Skip(i) \/ Ident!Describe(i)  PROVE LearnedInv'
<1>1. UNCHANGED <<order, word, learned, slots, statuses, roused>> /\ todo' \subseteq Ident!Indexes
  BY DEF Ident!Skip, Ident!Describe, LearnedInv, Ident!TypeOK
<1>2. /\ meta' \in [Ident!Indexes -> [cached : BOOLEAN, fields : SUBSET Ident!Fields]]
      /\ good' \subseteq Ident!Indexes
  <2>1. CASE Ident!Skip(i)
    BY <2>1 DEF Ident!Skip, LearnedInv, Ident!TypeOK
  <2>2. CASE Ident!Describe(i)
    <3>1. PICK read \in Readable :
            /\ meta' = [meta EXCEPT ![i] = Ident!Refreshed(@, read)]
            /\ good' = IF read = Ident!Fields THEN good \cup {i} ELSE good
      BY <2>2 DEF Ident!Describe
    <3>2. Ident!Refreshed(meta[i], read) \in [cached : BOOLEAN, fields : SUBSET Ident!Fields]
      BY DEF Ident!Refreshed, LearnedInv, Ident!TypeOK, Numbering
    <3> QED  BY <3>1, <3>2 DEF LearnedInv, Ident!TypeOK
  <2> QED  BY <2>1, <2>2
<1> QED  BY <1>1, <1>2 DEF LearnedInv, Ident!TypeOK

\* What lets a call through knows the adapter to be awake.
LEMMA CallStatus ==
  ASSUME Numbering, LearnedInv, NEW i \in Ident!Indexes, Ident!Call(i)  PROVE LearnedInv'
<1>1. order[i] \in Gpus /\ learned[i] \in {Ident!None, order[i]} /\ roused \in BOOLEAN /\ ~roused
  BY DEF LearnedInv, Ident!TypeOK
<1>2. ~Ident!IsSuspended(i) => word[order[i]] # "suspended"
  BY <1>1 DEF Ident!IsSuspended
<1>3. Ident!WriteAllowed(i) => word[order[i]] # "suspended"
  BY <1>1 DEF Ident!WriteAllowed
<1>4. word[order[i]] # "suspended" /\ Ident!Rouse(i)
  BY <1>2, <1>3 DEF Ident!Call, Ident!GetRanges, Ident!GetOffsetLimits, Ident!MayQuery, Ident!Write
<1>5. ~roused' /\ roused' \in BOOLEAN
  BY <1>1, <1>4 DEF Ident!Rouse
<1> QED  BY <1>5 DEF Ident!Call, LearnedInv, Ident!TypeOK

LEMMA LearnedNext ==
  ASSUME Numbering, LearnedInv, [Ident!Next]_(Ident!identityVars)  PROVE LearnedInv'
<1>1. ASSUME NEW g \in Gpus, Ident!Power(g)  PROVE LearnedInv'
  BY <1>1 DEF Ident!Power, LearnedInv, Ident!TypeOK
<1>2. CASE UNCHANGED Ident!identityVars
  BY <1>2 DEF Ident!identityVars, LearnedInv, Ident!TypeOK
<1> QED  BY <1>1, <1>2, IdentifyStatus, DescribeStatus, CallStatus DEF Ident!Next

\* For any number of adapters, in whatever order the library numbers them and whatever it fails
\* to say: no call asks or writes one that is suspended, and a pass takes for a device the
\* status of no other.
THEOREM NumberingIsSafe ==
  ASSUME Numbering
  PROVE  Ident!Spec => [](Ident!SleepersLeftAlone /\ Ident!TypeOK) /\ StatusIsItsOwn
<1>1. Ident!Init => LearnedInv
  BY LearnedInit
<1>2. LearnedInv /\ [Ident!Next]_(Ident!identityVars) => LearnedInv'
  BY LearnedNext
<1>3. LearnedInv => Ident!SleepersLeftAlone /\ Ident!TypeOK
  BY DEF LearnedInv, Ident!SleepersLeftAlone
<1>4. ASSUME LearnedInv, Ident!Next, statuses' # statuses
      PROVE  \A i \in Ident!Indexes : statuses'[i] \in {word[order[i]], Ident!Unknown}
  <2>1. Ident!Identify
    BY <1>4 DEF Ident!Next, Ident!Skip, Ident!Describe, Ident!Call, Ident!Power
  <2> QED  BY <1>4, <2>1, IdentifyStatus
<1>5. LearnedInv /\ [Ident!Next]_(Ident!identityVars) =>
        [statuses' # statuses => \A i \in Ident!Indexes : statuses'[i] \in {word[order[i]], Ident!Unknown}]_(Ident!identityVars)
  BY <1>4
<1> QED  BY <1>1, <1>2, <1>3, <1>5, PTL DEF Ident!Spec, Ident!StatusIsItsOwn, StatusIsItsOwn

-----------------------------------------------------------------------------
(* The ways past the driver's library.                                      *)

Phases == {"idle", "open", "words", "library", "stats", "unload"}

DriverInv ==
  /\ at \in [Askers -> Phases] /\ files \in [Askers -> SUBSET {"control", "device"}]
  /\ Driver!SessionsClosed

\* The threads at some of the phases.
In(phases) == {t \in Askers : at[t] \in phases}

LEMMA InMoves ==
  ASSUME DriverInv, NEW t \in Askers, NEW stage \in Phases, NEW phases, Driver!Go(t, stage)
  PROVE  /\ at' \in [Askers -> Phases] /\ at'[t] = stage
         /\ \A u \in Askers : u # t => at'[u] = at[u]
         /\ In(phases)' = IF stage \in phases THEN In(phases) \cup {t} ELSE In(phases) \ {t}
<1>1. at' = [at EXCEPT ![t] = stage] /\ at \in [Askers -> Phases]
  BY DEF Driver!Go, DriverInv
<1>2. at'[t] = stage /\ \A u \in Askers : u # t => at'[u] = at[u]
  BY <1>1
<1> QED  BY <1>1, <1>2 DEF In

LEMMA SessionCount ==
  ASSUME IsFiniteSet(Askers), DriverInv
  PROVE  /\ IsFiniteSet(In({"stats", "unload"})) /\ nvapi = Cardinality(In({"stats", "unload"}))
         /\ nvapi \in Nat
<1>1. Driver!Cardinality(In({"stats", "unload"})) = Cardinality(In({"stats", "unload"}))
  BY DEF Driver!Cardinality, Cardinality
<1>2. In({"stats", "unload"}) \in SUBSET Askers
  BY DEF In
<1>3. nvapi = Cardinality(In({"stats", "unload"}))
  BY <1>1 DEF DriverInv, Driver!SessionsClosed, In
<1> QED  BY <1>2, <1>3, FS_Subset, FS_CardinalityType

LEMMA SessionsClose ==
  ASSUME at' \in [Askers -> Phases], files' \in [Askers -> SUBSET {"control", "device"}],
         nvapi' = Cardinality(In({"stats", "unload"})'),
         library' = In({"library", "stats", "unload"})',
         \A t \in Askers : at'[t] \notin {"open", "words"} => files'[t] = {}
  PROVE  DriverInv'
<1>1. Driver!Cardinality(In({"stats", "unload"})') = Cardinality(In({"stats", "unload"})')
  BY DEF Driver!Cardinality, Cardinality
<1> QED  BY <1>1 DEF DriverInv, Driver!SessionsClosed, In

\* A step of the resource manager leaves NVAPI and the library alone.
LEMMA MemoryDriver ==
  ASSUME IsFiniteSet(Askers), DriverInv, NEW t \in Askers,
         Driver!BeginMemory(t) \/ Driver!Open(t) \/ Driver!OpenFails(t) \/ Driver!Word(t) \/ Driver!FromLibrary(t)
  PROVE  DriverInv'
<1>1. UNCHANGED <<nvapi, library>>
  BY DEF Driver!BeginMemory, Driver!Open, Driver!OpenFails, Driver!Word, Driver!FromLibrary
<1>2. library = In({"library", "stats", "unload"})
      /\ \A u \in Askers : at[u] \notin {"open", "words"} => files[u] = {}
  BY DEF DriverInv, Driver!SessionsClosed, In
<1>3. PICK stage \in {"idle", "open", "words"} :
        /\ at[t] \in {"idle", "open", "words"}
        /\ \/ Driver!Go(t, stage)
           \/ UNCHANGED at /\ stage = at[t]
        /\ \/ UNCHANGED files /\ (stage = "idle" => at[t] = "idle")
           \/ stage = "idle" /\ files' = [files EXCEPT ![t] = {}]
           \/ \E f \in SUBSET {"control", "device"} : stage # "idle" /\ files' = [files EXCEPT ![t] = @ \cup f]
  <2>1. CASE Driver!BeginMemory(t)
    BY <2>1 DEF Driver!BeginMemory
  <2>2. CASE Driver!Open(t)
    <3>1. \E f \in SUBSET {"control", "device"} : files' = [files EXCEPT ![t] = @ \cup f]
      BY <2>2 DEF Driver!Open
    <3>2. at[t] = "open" /\ (UNCHANGED at \/ Driver!Go(t, "words"))
      BY <2>2 DEF Driver!Open
    <3> QED  BY <3>1, <3>2
  <2>3. CASE Driver!OpenFails(t)
    BY <2>3 DEF Driver!OpenFails
  <2>4. CASE Driver!Word(t)
    BY <2>4 DEF Driver!Word
  <2>5. CASE Driver!FromLibrary(t)
    BY <2>5 DEF Driver!FromLibrary
  <2> QED  BY <2>1, <2>2, <2>3, <2>4, <2>5
<1>4. /\ at' \in [Askers -> Phases] /\ at'[t] = stage
      /\ \A u \in Askers : u # t => at'[u] = at[u]
      /\ In({"stats", "unload"})' = In({"stats", "unload"})
      /\ In({"library", "stats", "unload"})' = In({"library", "stats", "unload"})
  <2>1. CASE Driver!Go(t, stage)
    <3>1. stage \in Phases
      BY DEF Phases
    <3> QED  BY <1>3, <2>1, <3>1, InMoves DEF In
  <2>2. CASE UNCHANGED at /\ stage = at[t]
    BY <2>2 DEF In, DriverInv
  <2> QED  BY <1>3, <2>1, <2>2
<1>5. /\ files' \in [Askers -> SUBSET {"control", "device"}]
      /\ \A u \in Askers : u # t => files'[u] = files[u]
      /\ stage = "idle" => files'[t] = {}
  BY <1>2, <1>3 DEF DriverInv
<1>6. \A u \in Askers : at'[u] \notin {"open", "words"} => files'[u] = {}
  BY <1>2, <1>3, <1>4, <1>5
<1> QED  BY <1>1, <1>2, <1>4, <1>5, <1>6, SessionCount, SessionsClose

LEMMA StatsDriver ==
  ASSUME IsFiniteSet(Askers), DriverInv, NEW t \in Askers,
         Driver!BeginStats(t) \/ Driver!InitFails(t) \/ Driver!Initialise(t) \/ Driver!EnumFails(t) \/ Driver!Stats(t)
           \/ Driver!Unload(t)
  PROVE  DriverInv'
<1> DEFINE inUse == In({"stats", "unload"})
           loaded == In({"library", "stats", "unload"})
<1>1. /\ UNCHANGED files /\ library = loaded /\ files \in [Askers -> SUBSET {"control", "device"}]
      /\ \A u \in Askers : at[u] \notin {"open", "words"} => files[u] = {}
  BY DEF Driver!BeginStats, Driver!InitFails, Driver!Initialise, Driver!EnumFails, Driver!Stats, Driver!Unload, DriverInv,
         Driver!SessionsClosed, In
<1>2. PICK stage \in {"idle", "library", "stats", "unload"} :
        /\ Driver!Go(t, stage) /\ at[t] \in {"idle", "library", "stats", "unload"}
        /\ library' = IF stage = "idle" THEN library \ {t} ELSE library \cup {t}
        /\ \/ UNCHANGED nvapi /\ (t \in inUse <=> stage \in {"stats", "unload"})
           \/ nvapi' = nvapi + 1 /\ t \notin inUse /\ stage = "stats"
           \/ nvapi' = nvapi - 1 /\ t \in inUse /\ stage = "idle"
  <2>1. CASE Driver!BeginStats(t)
    BY <2>1 DEF Driver!BeginStats, In
  <2>2. CASE Driver!InitFails(t)
    BY <2>2 DEF Driver!InitFails, Driver!Leave, In
  <2>3. CASE Driver!Initialise(t)
    BY <1>1, <2>3 DEF Driver!Initialise, In
  <2>4. CASE Driver!EnumFails(t)
    BY <2>4 DEF Driver!EnumFails, Driver!Leave, In
  <2>5. CASE Driver!Stats(t)
    BY <1>1, <2>5 DEF Driver!Stats, In
  <2>6. CASE Driver!Unload(t)
    BY <2>6 DEF Driver!Unload, Driver!Leave, In
  <2> QED  BY <2>1, <2>2, <2>3, <2>4, <2>5, <2>6
<1>3. stage \in Phases
  BY DEF Phases
<1>4. /\ at' \in [Askers -> Phases] /\ at'[t] = stage
      /\ \A u \in Askers : u # t => at'[u] = at[u]
      /\ inUse' = IF stage \in {"stats", "unload"} THEN inUse \cup {t} ELSE inUse \ {t}
      /\ loaded' = IF stage \in {"library", "stats", "unload"} THEN loaded \cup {t} ELSE loaded \ {t}
  BY <1>2, <1>3, InMoves
<1>5. library' = loaded'
  BY <1>1, <1>2, <1>4
<1>6. IsFiniteSet(inUse) /\ nvapi = Cardinality(inUse) /\ nvapi \in Nat
  BY SessionCount
<1> HIDE DEF inUse, loaded
<1>7. nvapi' = Cardinality(inUse')
  <2>1. CASE UNCHANGED nvapi /\ (t \in inUse <=> stage \in {"stats", "unload"})
    <3>1. inUse' = inUse
      BY <1>4, <2>1
    <3> QED  BY <1>6, <2>1, <3>1
  <2>2. CASE nvapi' = nvapi + 1 /\ t \notin inUse /\ stage = "stats"
    <3>1. inUse' = inUse \cup {t}
      BY <1>4, <2>2
    <3> QED  BY <1>6, <2>2, <3>1, FS_AddElement
  <2>3. CASE nvapi' = nvapi - 1 /\ t \in inUse /\ stage = "idle"
    <3>1. inUse' = inUse \ {t}
      BY <1>4, <2>3
    <3> QED  BY <1>6, <2>3, <3>1, FS_RemoveElement
  <2> QED  BY <1>2, <2>1, <2>2, <2>3
<1>8. \A u \in Askers : at'[u] \notin {"open", "words"} => files'[u] = {}
  BY <1>1, <1>2, <1>4
<1> QED  BY <1>1, <1>4, <1>5, <1>7, <1>8, SessionsClose DEF inUse, loaded

\* Whatever step fails, and however many passes cross: NVAPI is unloaded as often as it was
\* initialised, the library stays until then, and no file of the resource manager is left open.
THEOREM SessionsAreClosed ==
  ASSUME IsFiniteSet(Askers)  PROVE Driver!Spec => []Driver!SessionsClosed
<1>1. Driver!Init => DriverInv
  <2>1. Driver!Init => In({"stats", "unload"}) = {} /\ In({"library", "stats", "unload"}) = {}
    BY DEF Driver!Init, In
  <2>2. Driver!Cardinality({}) = 0
    <3>1. Driver!Cardinality({}) = Cardinality({})
      BY DEF Driver!Cardinality, Cardinality
    <3> QED  BY <3>1, FS_EmptySet
  <2> QED  BY <2>1, <2>2 DEF Driver!Init, In, DriverInv, Driver!SessionsClosed, Phases
<1>2. DriverInv /\ [Driver!Next]_(Driver!driverVars) => DriverInv'
  <2>1. ASSUME DriverInv, UNCHANGED Driver!driverVars  PROVE DriverInv'
    BY <2>1 DEF Driver!driverVars, DriverInv, Driver!SessionsClosed
  <2> QED  BY <2>1, MemoryDriver, StatsDriver DEF Driver!Next
<1>3. DriverInv => Driver!SessionsClosed
  BY DEF DriverInv
<1> QED  BY <1>1, <1>2, <1>3, PTL DEF Driver!Spec

\* The three side by side, as they share nothing, for any number of adapters: whatever passes
\* and calls of the daemon cross, no call asks or writes a suspended adapter and no pass asks
\* one alone, and no session is left open that would keep one awake (hardware_detection.rs).
THEOREM SleepersAreLeft ==
  ASSUME Timing, ReadJobs \subseteq {"monitor", "dynamic"}, Numbering, IsFiniteSet(Askers)
  PROVE  Asks!Spec /\ Ident!Spec /\ Driver!Spec => []SleepersLeftAlone
<1>1. Asks!Spec => []Asks!NotAskedAlone
  BY SleeperNotAsked, PTL
<1>2. Ident!Spec => []Ident!SleepersLeftAlone
  BY NumberingIsSafe, PTL
<1>3. Driver!Spec => []Driver!SessionsClosed
  BY SessionsAreClosed
<1> QED  BY <1>1, <1>2, <1>3, PTL DEF SleepersLeftAlone

-----------------------------------------------------------------------------
(* Readings that are differences.                                           *)

\* A counter that can begin anew is sampled by one thread, and is always that of the association.
Sampling ==
  /\ Measured \subseteq {"cpu", "net", "disk", "energy"} /\ ~IwFails
  /\ MaxNow \in Nat /\ MaxCount \in Nat /\ Wrap \in Nat \ {0}
  /\ \A k \in Measured \cap {"net", "energy"} : \E t : Takers[k] = {t}

\* Two samples of the processor's counters, of which either may have been taken first.
Taken(c) == c \in Nat \X Nat /\ c[1] <= cpu[1] /\ c[2] <= cpu[2]
InSomeOrder(c, d) == \/ c[1] <= d[1] /\ c[2] <= d[2]
                     \/ d[1] <= c[1] /\ d[2] <= c[2]

CpuInv ==
  /\ cpu \in Nat \X Nat
  /\ prevCpu # <<>> => Taken(prevCpu)
  /\ \A t \in Askers : sample[t].kind = "cpu" =>
       /\ Taken(sample[t].cpu)
       /\ prevCpu # <<>> => InSomeOrder(prevCpu, sample[t].cpu)
       /\ \A u \in Askers : sample[u].kind = "cpu" => InSomeOrder(sample[t].cpu, sample[u].cpu)
  /\ load \in Nat \X Nat /\ Diff!LoadIsPercent

\* A sample of a rate's counter, and what was really counted when it was taken.
Sampled(k, s) ==
  /\ s.value \in Nat /\ s.total \in Nat /\ s.total <= count[k]
  /\ k = "disk" => s.value = s.total
  /\ k = "net" => s.value <= s.total /\ s.total - s.value <= joined
  /\ k = "energy" => s.value = s.total % Wrap

\* A counter that can begin anew is compared in the order in which it was read.
Later(k, p, s) ==
  /\ k \in {"net", "energy"} => p.total <= s.total
  /\ k = "net" => p.total - p.value <= s.total - s.value

RateInv ==
  /\ now \in Nat /\ joined \in Nat /\ count \in [Diff!Rates -> Nat]
  /\ "net" \in Measured => joined <= count["net"]
  /\ \A k \in Diff!Rates :
       /\ prev[k].at \in Nat
       /\ prev[k].value # Diff!None => Sampled(k, prev[k])
       /\ \A t \in Askers : sample[t].kind = k =>
            /\ t \in Takers[k] /\ Sampled(k, sample[t])
            /\ prev[k].value # Diff!None => Later(k, prev[k], sample[t])
  /\ Diff!RateIsReal

Sample == [kind : Measured \cup {"none"}, value : Nat, total : Nat, cpu : Nat \X Nat]

ReadingsInv ==
  /\ sample \in [Askers -> Sample]
  /\ prev \in [Diff!Rates -> [value : Nat \cup {Diff!None}, at : Nat, total : Nat]]
  /\ CpuInv /\ RateInv

LEMMA ReadingsInit ==
  ASSUME Sampling, Diff!Init  PROVE ReadingsInv
<1>1. sample \in [Askers -> Sample] /\ \A t \in Askers : sample[t].kind = "none"
  BY DEF Diff!Init, Diff!Nobody, Sample
<1>2. prev \in [Diff!Rates -> [value : Nat \cup {Diff!None}, at : Nat, total : Nat]]
      /\ \A k \in Diff!Rates : prev[k].value = Diff!None
  BY DEF Diff!Init, Diff!Missing, Diff!None
<1>3. "none" \notin Measured
  BY DEF Sampling
<1>4. CpuInv
  BY <1>1 DEF Diff!Init, CpuInv, Diff!LoadIsPercent
<1>5. RateInv
  <2>1. Diff!RateIsReal
    BY DEF Diff!Init, Diff!RateIsReal
  <2>2. now \in Nat /\ joined \in Nat /\ count \in [Diff!Rates -> Nat]
        /\ ("net" \in Measured => joined <= count["net"])
    BY DEF Diff!Init, Diff!Rates
  <2>3. \A k \in Diff!Rates : prev[k].at \in Nat /\ \A t \in Askers : sample[t].kind # k
    BY <1>1, <1>2, <1>3 DEF Diff!Rates
  <2> QED  BY <1>2, <2>1, <2>2, <2>3 DEF RateInv
<1> QED  BY <1>1, <1>2, <1>4, <1>5 DEF ReadingsInv

\* A counter that starts again at Wrap never shows more than was counted.
LEMMA Remainders ==
  ASSUME NEW a \in Nat, NEW b \in Nat, NEW w \in Nat \ {0}, b <= a,
         NEW q \in Nat, NEW x \in Nat, NEW r \in 0..w-1, NEW y \in 0..w-1,
         a = q * w + r, b = x * w + y
  PROVE  r - y <= a - b
<1>1. q * w \in Int /\ x * w \in Int
  OBVIOUS
<1>2. x * w <= q * w
  <2>1. CASE x <= q
    BY <2>1
  <2>2. CASE q + 1 <= x
    <3>1. (q + 1) * w <= x * w
      BY <2>2
    <3>2. (q + 1) * w = q * w + w
      OBVIOUS
    <3> QED  BY <1>1, <3>1, <3>2
  <2> QED  BY <2>1, <2>2
<1> QED  BY <1>1, <1>2

LEMMA WrapHides ==
  ASSUME NEW a \in Nat, NEW b \in Nat, NEW w \in Nat \ {0}, b <= a
  PROVE  (a % w) - (b % w) <= a - b
<1>1. a \div w \in Nat /\ a % w \in 0..w-1 /\ b \div w \in Nat /\ b % w \in 0..w-1
  OBVIOUS
<1>2. a = (a \div w) * w + (a % w)
  BY SMT
<1>3. b = (b \div w) * w + (b % w)
  BY SMT
<1> QED  BY <1>1, <1>2, <1>3, Remainders

\* A sample compared with the one before it.
LEMMA RateOfSamples ==
  ASSUME Sampling, RateInv, NEW k \in Diff!Rates, NEW s \in Sample, NEW p,
         Sampled(k, p), Sampled(k, s), Later(k, p, s)
  PROVE  LET v == Diff!Minus(s.value, p.value)
             d == s.total - p.total
         IN  0 <= v /\ (IF d >= 0 THEN v <= d ELSE v = 0)
<1>1. k \in {"net", "disk", "energy"}
  BY DEF Diff!Rates, Sampling
<1>2. s.value \in Nat /\ s.total \in Nat /\ p.value \in Nat /\ p.total \in Nat
  BY DEF Sampled
<1>3. CASE k = "disk"
  BY <1>2, <1>3 DEF Sampled, Diff!Minus
<1>4. CASE k = "net"
  <2>1. p.total <= s.total /\ p.total - p.value <= s.total - s.value
    BY <1>4 DEF Later
  <2> QED  BY <1>2, <2>1 DEF Diff!Minus
<1>5. CASE k = "energy"
  <2>1. p.total <= s.total /\ s.value = s.total % Wrap /\ p.value = p.total % Wrap
    BY <1>5 DEF Later, Sampled
  <2>2. s.value - p.value <= s.total - p.total
    <3>1. Wrap \in Nat \ {0}
      BY DEF Sampling
    <3>2. \A a \in Nat, b \in Nat : b <= a => (a % Wrap) - (b % Wrap) <= a - b
      BY <3>1, WrapHides
    <3>3. (s.total % Wrap) - (p.total % Wrap) <= s.total - p.total
      BY <1>2, <2>1, <3>2
    <3> QED  BY <1>2, <2>1, <3>1, <3>3
  <2> QED  BY <1>2, <2>1, <2>2 DEF Diff!Minus
<1> QED  BY <1>1, <1>3, <1>4, <1>5

\* A load from two samples, in whichever order they were taken.
LEMMA LoadOfSamples ==
  ASSUME NEW c \in Nat \X Nat, NEW d \in Nat \X Nat, InSomeOrder(d, c)
  PROVE  LET total == Diff!Minus(c[1] + c[2], d[1] + d[2])
         IN  /\ Diff!Minus(c[1], d[1]) \in Nat /\ total \in Nat
             /\ Diff!Minus(c[1], d[1]) <= total
  BY DEF InSomeOrder, Diff!Minus

\* The machine goes on: counters grow, and an association that begins anew begins later.
LEMMA MachineReadings ==
  ASSUME Sampling, ReadingsInv,
         \/ Diff!Tick \/ Diff!Associate
         \/ \E k \in Diff!Rates : Diff!Transfer(k)
         \/ \E c \in (0..MaxCount) \X (0..MaxCount) : Diff!Spend(c)
         \/ UNCHANGED Diff!readingsVars
  PROVE  ReadingsInv'
<1>1. UNCHANGED <<prevCpu, prev, sample, load, rate>>
  BY DEF Diff!Tick, Diff!Associate, Diff!Transfer, Diff!Spend, Diff!readingsVars
<1>2. /\ now' \in Nat /\ joined' \in Nat /\ joined <= joined'
      /\ count' \in [Diff!Rates -> Nat] /\ \A k \in Diff!Rates : count[k] <= count'[k]
      /\ "net" \in Measured => joined' <= count'["net"]
  <2>1. /\ now \in Nat /\ joined \in Nat /\ count \in [Diff!Rates -> Nat]
        /\ "net" \in Measured => joined <= count["net"] /\ "net" \in Diff!Rates
    BY DEF ReadingsInv, RateInv, Diff!Rates
  <2>2. CASE Diff!Tick
    BY <2>1, <2>2 DEF Diff!Tick
  <2>3. CASE Diff!Associate
    BY <2>1, <2>3 DEF Diff!Associate
  <2>4. ASSUME NEW k \in Diff!Rates, Diff!Transfer(k)
        PROVE  /\ UNCHANGED <<now, joined>> /\ count' \in [Diff!Rates -> Nat]
               /\ \A l \in Diff!Rates : count[l] <= count'[l]
    BY <2>1, <2>4 DEF Diff!Transfer
  <2>5. CASE (\E c \in (0..MaxCount) \X (0..MaxCount) : Diff!Spend(c)) \/ UNCHANGED Diff!readingsVars
    BY <2>1, <2>5 DEF Diff!Spend, Diff!readingsVars
  <2> QED  BY <2>1, <2>2, <2>3, <2>4, <2>5
<1>3. cpu' \in Nat \X Nat /\ cpu[1] <= cpu'[1] /\ cpu[2] <= cpu'[2]
  <2>1. cpu \in Nat \X Nat
    BY DEF ReadingsInv, CpuInv
  <2>2. ASSUME NEW c \in (0..MaxCount) \X (0..MaxCount), Diff!Spend(c)
        PROVE  cpu' \in Nat \X Nat /\ cpu[1] <= cpu'[1] /\ cpu[2] <= cpu'[2]
    <3>1. cpu' \in {<<cpu[1] + 1, cpu[2]>>, <<cpu[1], cpu[2] + 1>>}
      BY <2>2 DEF Diff!Spend
    <3> QED  BY <2>1, <3>1
  <2>3. CASE UNCHANGED cpu
    BY <2>1, <2>3
  <2> QED  BY <2>2, <2>3 DEF Diff!Tick, Diff!Associate, Diff!Transfer, Diff!readingsVars
<1>4. \A c : Taken(c) => Taken(c)'
  BY <1>3 DEF Taken, ReadingsInv, CpuInv
<1>5. CpuInv'
  BY <1>1, <1>3, <1>4 DEF ReadingsInv, CpuInv, Diff!LoadIsPercent, InSomeOrder
<1>6. ASSUME NEW k \in Diff!Rates, NEW s, Sampled(k, s)  PROVE Sampled(k, s)'
  BY <1>2, <1>6 DEF Sampled, ReadingsInv, RateInv
<1>7. RateInv'
  <2>1. \A k \in Diff!Rates : Diff!Rates' = Diff!Rates
    BY DEF Diff!Rates
  <2>2. \A k \in Diff!Rates : Sampled(k, prev[k]) => Sampled(k, prev[k])'
    BY <1>1, <1>6 DEF Sampled
  <2>3. \A k \in Diff!Rates, t \in Askers : Sampled(k, sample[t]) => Sampled(k, sample[t])'
    BY <1>1, <1>6 DEF Sampled
  <2> QED  BY <1>1, <1>2, <2>2, <2>3 DEF ReadingsInv, RateInv, Diff!RateIsReal, Later, Sampled
<1> QED  BY <1>1, <1>5, <1>7 DEF ReadingsInv

\* A step of one thread's reading leaves those of the others alone.
LEMMA SampleCpuReadings ==
  ASSUME Sampling, ReadingsInv, NEW t \in Askers, Diff!SampleCpu(t)  PROVE ReadingsInv'
<1> DEFINE s == [Diff!Nobody EXCEPT !.kind = "cpu", !.cpu = cpu]
<1>1. /\ sample' = [sample EXCEPT ![t] = s] /\ "cpu" \in Measured
      /\ UNCHANGED <<now, count, joined, cpu, prevCpu, prev, load, rate>>
  BY DEF Diff!SampleCpu
<1>2. s \in Sample /\ s.kind = "cpu" /\ s.cpu = cpu /\ Taken(s.cpu)
  <2>1. cpu \in Nat \X Nat
    BY DEF ReadingsInv, CpuInv
  <2>2. Diff!Nobody \in Sample
    BY DEF Diff!Nobody, Sample
  <2>3. s \in Sample /\ s.kind = "cpu" /\ s.cpu = cpu
    BY <1>1, <2>1, <2>2 DEF Sample
  <2>4. Taken(cpu)
    BY <2>1 DEF Taken
  <2> QED  BY <2>3, <2>4
<1> HIDE DEF s
<1>3. /\ sample' \in [Askers -> Sample] /\ sample'[t] = s
      /\ \A u \in Askers : u # t => sample'[u] = sample[u]
  BY <1>1, <1>2 DEF ReadingsInv
<1>4. \A c : Taken(c) => InSomeOrder(c, s.cpu) /\ InSomeOrder(s.cpu, c)
  BY <1>2 DEF Taken, InSomeOrder
<1>5. CpuInv'
  <2>1. \A u \in Askers : sample'[u].kind = "cpu" => Taken(sample'[u].cpu)
    BY <1>2, <1>3 DEF ReadingsInv, CpuInv
  <2>2. \A u \in Askers : sample'[u].kind = "cpu" /\ prevCpu # <<>> =>
          InSomeOrder(prevCpu, sample'[u].cpu)
    BY <1>3, <1>4 DEF ReadingsInv, CpuInv
  <2>3. \A u, v \in Askers : sample'[u].kind = "cpu" /\ sample'[v].kind = "cpu" =>
          InSomeOrder(sample'[u].cpu, sample'[v].cpu)
    BY <1>2, <1>3, <1>4, <2>1 DEF ReadingsInv, CpuInv
  <2> QED  BY <1>1, <2>1, <2>2, <2>3 DEF ReadingsInv, CpuInv, Taken, InSomeOrder, Diff!LoadIsPercent
<1>6. RateInv'
  <2>1. \A k \in Diff!Rates, u \in Askers : sample'[u].kind = k => sample[u].kind = k /\ sample'[u] = sample[u]
    BY <1>2, <1>3 DEF Diff!Rates
  <2> QED  BY <1>1, <2>1 DEF ReadingsInv, RateInv, Diff!RateIsReal, Sampled, Later
<1> QED  BY <1>1, <1>3, <1>5, <1>6 DEF ReadingsInv

LEMMA StoreCpuReadings ==
  ASSUME Sampling, ReadingsInv, NEW t \in Askers, Diff!StoreCpu(t)  PROVE ReadingsInv'
<1> DEFINE c == sample[t].cpu
           total == Diff!Minus(c[1] + c[2], prevCpu[1] + prevCpu[2])
<1>1. /\ sample[t].kind = "cpu" /\ sample' = [sample EXCEPT ![t] = Diff!Nobody]
      /\ prevCpu' = c
      /\ load' = IF prevCpu # <<>> /\ total > 0 THEN <<Diff!Minus(c[1], prevCpu[1]), total>> ELSE <<0, 0>>
      /\ UNCHANGED <<now, count, joined, cpu, prev, rate>>
  BY DEF Diff!StoreCpu
<1>2. Diff!Nobody \in Sample /\ Diff!Nobody.kind = "none" /\ "none" \notin Measured
  BY DEF Diff!Nobody, Sample, Sampling
<1>3. /\ sample' \in [Askers -> Sample] /\ sample'[t].kind = "none"
      /\ \A u \in Askers : u # t => sample'[u] = sample[u]
  BY <1>1, <1>2 DEF ReadingsInv
<1>4. Taken(c) /\ (prevCpu # <<>> => Taken(prevCpu) /\ InSomeOrder(prevCpu, c))
      /\ \A u \in Askers : sample[u].kind = "cpu" => InSomeOrder(c, sample[u].cpu)
  BY <1>1 DEF ReadingsInv, CpuInv
<1>5. load' \in Nat \X Nat /\ Diff!LoadIsPercent'
  <2>1. CASE prevCpu # <<>> /\ total > 0
    <3>1. c \in Nat \X Nat /\ prevCpu \in Nat \X Nat /\ InSomeOrder(prevCpu, c)
      BY <1>4, <2>1 DEF Taken
    <3>2. Diff!Minus(c[1], prevCpu[1]) \in Nat /\ total \in Nat /\ Diff!Minus(c[1], prevCpu[1]) <= total
      BY <3>1, LoadOfSamples
    <3>3. load' = <<Diff!Minus(c[1], prevCpu[1]), total>>
      BY <1>1, <2>1
    <3> HIDE DEF total, c
    <3> QED  BY <3>2, <3>3 DEF Diff!LoadIsPercent
  <2>2. CASE ~(prevCpu # <<>> /\ total > 0)
    <3>1. load' = <<0, 0>>
      BY <1>1, <2>2
    <3> QED  BY <3>1 DEF Diff!LoadIsPercent
  <2> QED  BY <2>1, <2>2
<1> HIDE DEF c, total
<1>6. CpuInv'
  <2>1. \A u \in Askers : sample'[u].kind = "cpu" => sample'[u] = sample[u] /\ sample[u].kind = "cpu"
    BY <1>3
  <2> QED  BY <1>1, <1>4, <1>5, <2>1 DEF ReadingsInv, CpuInv, Taken, InSomeOrder
<1>7. RateInv'
  <2>1. \A k \in Diff!Rates, u \in Askers : sample'[u].kind = k => sample[u].kind = k /\ sample'[u] = sample[u]
    BY <1>2, <1>3 DEF Diff!Rates
  <2> QED  BY <1>1, <2>1 DEF ReadingsInv, RateInv, Diff!RateIsReal, Sampled, Later
<1> QED  BY <1>1, <1>3, <1>6, <1>7 DEF ReadingsInv

LEMMA SampleRateReadings ==
  ASSUME Sampling, ReadingsInv, NEW t \in Askers, NEW k \in Diff!Rates, Diff!SampleRate(t, k)
  PROVE  ReadingsInv'
<1>1. PICK v \in Diff!Counter(k) :
        sample' = [sample EXCEPT ![t] = [Diff!Nobody EXCEPT !.kind = k, !.value = v, !.total = count[k]]]
  BY DEF Diff!SampleRate
<1> DEFINE s == [Diff!Nobody EXCEPT !.kind = k, !.value = v, !.total = count[k]]
<1>2. /\ UNCHANGED <<now, count, joined, cpu, prevCpu, prev, load, rate>>
      /\ sample[t] = Diff!Nobody /\ t \in Takers[k] /\ k # "cpu" /\ k \in Measured
      /\ k \in {"net", "disk", "energy"}
  BY DEF Diff!SampleRate, Diff!Rates, Sampling
<1>3. /\ joined \in Nat /\ count[k] \in Nat /\ (k = "net" => joined <= count[k])
      /\ Wrap \in Nat \ {0}
  BY <1>2 DEF ReadingsInv, RateInv, Sampling
<1>4. /\ k = "net" => v = count[k] - joined
      /\ k = "disk" => v = count[k]
      /\ k = "energy" => v = count[k] % Wrap
  BY <1>2 DEF Diff!Counter, Sampling
<1>5. v \in Nat
  <2>1. CASE k = "energy"
    BY <1>3, <1>4, <2>1
  <2>2. CASE k \in {"net", "disk"}
    BY <1>3, <1>4, <2>2
  <2> QED  BY <1>2, <2>1, <2>2
<1>6. s \in Sample /\ s.kind = k /\ s.value = v /\ s.total = count[k]
  BY <1>2, <1>3, <1>5 DEF Diff!Nobody, Sample
<1> HIDE DEF s
<1>7. Sampled(k, s)
  BY <1>3, <1>4, <1>5, <1>6 DEF Sampled
<1>8. prev[k].value # Diff!None => Later(k, prev[k], s)
  <2>1. ASSUME prev[k].value # Diff!None  PROVE Sampled(k, prev[k])
    BY <2>1 DEF ReadingsInv, RateInv
  <2> QED  BY <1>3, <1>4, <1>6, <2>1 DEF Sampled, Later
<1>9. /\ sample' \in [Askers -> Sample] /\ sample'[t] = s
      /\ \A u \in Askers : u # t => sample'[u] = sample[u]
  BY <1>1, <1>6 DEF ReadingsInv, s
<1>10. CpuInv'
  <2>1. \A u \in Askers : sample'[u].kind = "cpu" => sample'[u] = sample[u] /\ sample[u].kind = "cpu"
    BY <1>2, <1>6, <1>9
  <2> QED  BY <1>2, <2>1 DEF ReadingsInv, CpuInv, Taken, InSomeOrder, Diff!LoadIsPercent
<1>11. RateInv'
  <2>1. ASSUME NEW l \in Diff!Rates, NEW u \in Askers, sample'[u].kind = l
        PROVE  /\ u \in Takers[l] /\ Sampled(l, sample'[u])
               /\ prev[l].value # Diff!None => Later(l, prev[l], sample'[u])
    <3>1. CASE u = t
      BY <1>2, <1>6, <1>7, <1>8, <1>9, <2>1, <3>1
    <3>2. CASE u # t
      BY <1>9, <2>1, <3>2 DEF ReadingsInv, RateInv
    <3> QED  BY <3>1, <3>2
  <2> QED  BY <1>2, <2>1 DEF ReadingsInv, RateInv, Diff!RateIsReal, Sampled, Later
<1> QED  BY <1>2, <1>9, <1>10, <1>11 DEF ReadingsInv

LEMMA StoreRateReadings ==
  ASSUME Sampling, ReadingsInv, NEW t \in Askers, Diff!StoreRate(t)  PROVE ReadingsInv'
<1> DEFINE s == sample[t]
           k == s.kind
           p == prev[k]
           elapsed == now - p.at
           q == [value |-> s.value, at |-> now, total |-> s.total]
<1>1. /\ k \in Diff!Rates /\ UNCHANGED <<now, count, joined, cpu, prevCpu, load>>
      /\ sample' = [sample EXCEPT ![t] = Diff!Nobody]
  BY DEF Diff!StoreRate
<1>2. \/ /\ p.value # Diff!None /\ elapsed > 0
         /\ rate' = <<Diff!Minus(s.value, p.value), elapsed, s.total - p.total>>
      \/ UNCHANGED rate
  BY DEF Diff!StoreRate
<1>3. UNCHANGED prev \/ prev' = [prev EXCEPT ![k] = q]
  BY DEF Diff!StoreRate
<1>4. /\ s \in Sample /\ t \in Takers[k] /\ Sampled(k, s) /\ now \in Nat
      /\ p.value # Diff!None => Sampled(k, p) /\ Later(k, p, s)
      /\ prev \in [Diff!Rates -> [value : Nat \cup {Diff!None}, at : Nat, total : Nat]]
  BY <1>1 DEF ReadingsInv, RateInv
<1>5. Diff!Nobody \in Sample /\ Diff!Nobody.kind = "none" /\ "none" \notin Measured
  BY DEF Diff!Nobody, Sample, Sampling
<1>6. /\ sample' \in [Askers -> Sample] /\ sample'[t].kind = "none"
      /\ \A u \in Askers : u # t => sample'[u] = sample[u]
  BY <1>1, <1>5 DEF ReadingsInv
<1>7. Diff!RateIsReal'
  <2>1. CASE UNCHANGED rate
    BY <2>1 DEF ReadingsInv, RateInv, Diff!RateIsReal
  <2>2. CASE /\ p.value # Diff!None
             /\ rate' = <<Diff!Minus(s.value, p.value), elapsed, s.total - p.total>>
    <3>1. /\ 0 <= Diff!Minus(s.value, p.value)
          /\ IF s.total - p.total >= 0 THEN Diff!Minus(s.value, p.value) <= s.total - p.total
             ELSE Diff!Minus(s.value, p.value) = 0
      BY <1>1, <1>4, <2>2, RateOfSamples DEF ReadingsInv
    <3> QED  BY <2>2, <3>1 DEF Diff!RateIsReal
  <2> QED  BY <1>2, <2>1, <2>2
<1>8. q \in [value : Nat \cup {Diff!None}, at : Nat, total : Nat] /\ Sampled(k, q)
  BY <1>4 DEF Sample, Sampled
<1> HIDE DEF q
<1>9. prev' \in [Diff!Rates -> [value : Nat \cup {Diff!None}, at : Nat, total : Nat]]
      /\ \A l \in Diff!Rates : prev'[l] = prev[l] \/ (l = k /\ prev'[l] = q)
  BY <1>1, <1>3, <1>4, <1>8
<1>10. CpuInv'
  <2>1. \A u \in Askers : sample'[u].kind = "cpu" => sample'[u] = sample[u] /\ sample[u].kind = "cpu"
    BY <1>6
  <2> QED  BY <1>1, <2>1 DEF ReadingsInv, CpuInv, Taken, InSomeOrder, Diff!LoadIsPercent
<1>11. RateInv'
  <2>1. ASSUME NEW l \in Diff!Rates
        PROVE  /\ prev'[l].at \in Nat
               /\ prev'[l].value # Diff!None => Sampled(l, prev'[l])
    BY <1>8, <1>9 DEF ReadingsInv, RateInv
  <2>2. ASSUME NEW l \in Diff!Rates, NEW u \in Askers, sample'[u].kind = l
        PROVE  /\ u \in Takers[l] /\ Sampled(l, sample'[u])
               /\ prev'[l].value # Diff!None => Later(l, prev'[l], sample'[u])
    <3>1. u # t /\ sample'[u] = sample[u]
      BY <1>5, <1>6, <2>2 DEF Diff!Rates
    <3>2. u \in Takers[l] /\ Sampled(l, sample[u])
          /\ (prev[l].value # Diff!None => Later(l, prev[l], sample[u]))
      BY <2>2, <3>1 DEF ReadingsInv, RateInv
    <3>3. CASE l = k
      <4>1. l \notin {"net", "energy"}
        <5>1. l \in {"net", "energy"} => \E x : Takers[l] = {x}
          BY <2>2 DEF Sampling, Diff!Rates
        <5> QED  BY <1>4, <3>1, <3>2, <3>3, <5>1
      <4> QED  BY <3>1, <3>2, <4>1 DEF Later
    <3>4. CASE l # k
      BY <1>9, <3>1, <3>2, <3>4
    <3> QED  BY <3>3, <3>4
  <2> QED  BY <1>1, <1>7, <2>1, <2>2 DEF ReadingsInv, RateInv, Sampled, Later
<1> QED  BY <1>6, <1>9, <1>10, <1>11 DEF ReadingsInv

\* However samples cross between the counter and the place where the last one is kept: a load
\* is a percentage, and a rate never claims more than was counted.
THEOREM DifferencesAreReal ==
  ASSUME Sampling  PROVE Diff!Spec => [](Diff!LoadIsPercent /\ Diff!RateIsReal)
<1>1. Diff!Init => ReadingsInv
  BY ReadingsInit
<1>2. ReadingsInv /\ [Diff!Next]_(Diff!readingsVars) => ReadingsInv'
  BY MachineReadings, SampleCpuReadings, StoreCpuReadings, SampleRateReadings, StoreRateReadings
     DEF Diff!Next
<1>3. ReadingsInv => Diff!LoadIsPercent /\ Diff!RateIsReal
  BY DEF ReadingsInv, CpuInv, RateInv
<1> QED  BY <1>1, <1>2, <1>3, PTL DEF Diff!Spec

-----------------------------------------------------------------------------
(* The curve of a fan.                                                      *)

\* What apply_fan_settings is given: a curve has points of a temperature and a speed (u8).
CurvesGiven ==
  /\ CurveTemps \subseteq Nat
  /\ \A s \in CurveSettings : \A f \in DOMAIN s : s[f] \in Seq(Nat \X Nat)

\* A curve is sorted point by point.
SortTurns(h, n, s) == h[0] = <<>> /\ \A i \in 1..n : h[i] = Curve!PutIn(h[i-1], s[i])

LEMMA SortedInTurn ==
  ASSUME NEW X, <<>> \in X, NEW n \in Nat, NEW s, DOMAIN s = 1..n,
         \A acc \in X, i \in 1..n : Curve!PutIn(acc, s[i]) \in X
  PROVE  \E h : SortTurns(h, n, s) /\ Curve!ByTemp(s) = h[n]
<1> DEFINE Step(f, r) == IF r = {} THEN <<>> ELSE Curve!PutIn(f[r \ {Greatest(r)}], s[Greatest(r)])
<1>1. PICK D : D = [z \in X \X (1..n) |-> Curve!PutIn(z[1], s[z[2]])]
  OBVIOUS
<1>2. D \in [X \X (1..n) -> X] /\ \A x \in X, i \in 1..n : D[<<x, i>>] = Curve!PutIn(x, s[i])
  BY <1>1
<1>3. PICK g \in [SUBSET (1..n) -> X] : FoldsTo(g, n, <<>>, D)
  BY <1>2, FoldExists
<1>4. g = [r \in SUBSET (1..n) |-> Step(g, r)]
  <2>1. ASSUME NEW r \in SUBSET (1..n), r # {}  PROVE g[r] = Step(g, r)
    <3>1. Greatest(r) \in r /\ r \ {Greatest(r)} \in SUBSET (1..n) /\ Greatest(r) \in 1..n
      BY <2>1, MaxIn
    <3> QED  BY <3>1, <2>1, <1>2, <1>3 DEF FoldsTo
  <2>2. g[{}] = <<>>
    BY <1>3 DEF FoldsTo
  <2> QED  BY <2>1, <2>2, <1>3, Zenon
<1>5. Curve!ByTemp(s)
        = (CHOOSE f : f = [r \in SUBSET (1..n) |-> Step(f, r)])[1..n]
  BY Zenon DEF Curve!ByTemp, Curve!FoldLeft, Curve!MapThenFoldSet, Curve!Max, Greatest
<1>6. PICK f : f = CHOOSE e : e = [r \in SUBSET (1..n) |-> Step(e, r)]
  OBVIOUS
<1>7. f = [r \in SUBSET (1..n) |-> Step(f, r)]
  BY <1>4, <1>6, Zenon
<1>8. Curve!ByTemp(s) = f[1..n]
  BY <1>5, <1>6, Zenon
<1>9. ASSUME NEW i \in 1..n  PROVE f[1..i] = Curve!PutIn(f[1..(i-1)], s[i])
  <2>1. PICK r : r = 1..i
    OBVIOUS
  <2>2. r \in SUBSET (1..n) /\ r # {} /\ Greatest(r) = i /\ r \ {i} = 1..(i-1)
    BY <2>1, UpTo
  <2>3. f[r] = Curve!PutIn(f[r \ {Greatest(r)}], s[Greatest(r)])
    BY <1>7, <2>2
  <2> QED  BY <2>1, <2>2, <2>3
<1>10. f[1..0] = <<>>
  <2>1. 1..0 = {}
    OBVIOUS
  <2> QED  BY <1>7, <2>1
<1>11. PICK h : h = [i \in 0..n |-> f[1..i]]
  OBVIOUS
<1>12. h[0] = <<>> /\ h[n] = f[1..n] /\ \A i \in 1..n : h[i] = Curve!PutIn(h[i-1], s[i])
  BY <1>9, <1>10, <1>11
<1>13. SortTurns(h, n, s)
  BY <1>12 DEF SortTurns
<1> QED  BY <1>8, <1>12, <1>13, Zenon

LEMMA PutInGoesIn ==
  ASSUME NEW a \in Seq(Nat \X Nat), NEW p \in Nat \X Nat
  PROVE  Curve!PutIn(a, p) \in Seq(Nat \X Nat) /\ GoesIn(Curve!PutIn(a, p), a, p)
<1>1. PICK n : n = Len(a)
  OBVIOUS
<1>2. n \in Nat /\ \A i \in 1..n : a[i] \in Nat \X Nat
  BY <1>1, LenProperties, ElementOfSeq
<1>3. PICK below : below = {i \in 1..n : a[i][1] <= p[1]}
  OBVIOUS
<1>4. PICK m : m = Curve!Max({0} \cup below)
  OBVIOUS
<1>5. m \in {0} \cup below /\ m \in 0..n /\ \A i \in below : i <= m
  <2>1. below \in SUBSET (1..n)
    BY <1>3
  <2>2. m = CHOOSE x \in {0} \cup below : \A y \in {0} \cup below : x >= y
    BY <1>4 DEF Curve!Max
  <2> QED  BY <1>2, <2>1, <2>2, LastPlace
<1>6. m > 0 => a[m][1] <= p[1]
  BY <1>2, <1>3, <1>5
<1>7. \A i \in 1..n : i > m => p[1] < a[i][1]
  <2>1. ASSUME NEW i \in 1..n, i > m, ~(p[1] < a[i][1])  PROVE FALSE
    <3>1. p[1] \in Int /\ a[i][1] \in Int
      BY <1>2
    <3>2. i \in below
      BY <1>3, <2>1, <3>1
    <3> QED  BY <1>5, <2>1, <3>2
  <2> QED  BY <2>1
<1>8. Curve!PutIn(a, p) = SubSeq(a, 1, m) \o <<p>> \o SubSeq(a, m + 1, n)
  <2>1. Curve!PutIn(a, p) = Curve!InsertAt(a, 1 + m, p)
    BY <1>1, <1>3, <1>4 DEF Curve!PutIn
  <2>2. (1 + m) - 1 = m /\ 1 + m = m + 1
    BY <1>5
  <2> QED  BY <1>1, <2>1, <2>2 DEF Curve!InsertAt
<1>9. PICK P : P = Nat \X Nat
  OBVIOUS
<1> QED  BY <1>1, <1>5, <1>6, <1>7, <1>8, <1>9, Inserted

LEMMA CurveSorted ==
  ASSUME NEW c \in Seq(Nat \X Nat)
  PROVE  Curve!ByTemp(c) \in Seq(Nat \X Nat) /\ Ascends(Curve!ByTemp(c), c, Len(c))
<1>1. PICK n : n = Len(c)
  OBVIOUS
<1>2. n \in Nat /\ DOMAIN c = 1..n /\ \A i \in 1..n : c[i] \in Nat \X Nat
  BY <1>1, LenProperties, ElementOfSeq
<1>3. PICK X : X = Seq(Nat \X Nat)
  OBVIOUS
<1>4. <<>> \in X /\ \A a \in X, i \in 1..n : Curve!PutIn(a, c[i]) \in X
  BY <1>2, <1>3, PutInGoesIn
<1>5. PICK h : SortTurns(h, n, c) /\ Curve!ByTemp(c) = h[n]
  BY <1>2, <1>4, SortedInTurn
<1>6. \A i \in 1..n : h[i-1] \in X => h[i] \in X
  BY <1>4, <1>5 DEF SortTurns
<1>7. h[0] = <<>>
  BY <1>5 DEF SortTurns
<1>8. PICK T : T = {k \in 0..n : h[k] \in X}
  OBVIOUS
<1>9. 0..n \subseteq T
  <2>1. 0 \in T /\ \A i \in 1..n : i - 1 \in T => i \in T
    BY <1>2, <1>4, <1>6, <1>7, <1>8
  <2> QED  BY <1>2, <2>1, Climb
<1>10. ASSUME NEW i \in 1..n  PROVE GoesIn(h[i], h[i-1], c[i])
  <2>1. h[i-1] \in Seq(Nat \X Nat)
    <3>1. i - 1 \in 0..n
      BY <1>2
    <3> QED  BY <1>3, <1>8, <1>9, <3>1
  <2>2. h[i] = Curve!PutIn(h[i-1], c[i])
    BY <1>5 DEF SortTurns
  <2> QED  BY <1>2, <2>1, <2>2, PutInGoesIn
<1>11. \A i \in 1..n : c[i][1] \in Int
  BY <1>2
<1>12. Len(h[0]) = 0
  BY <1>7
<1>13. Ascends(h[n], c, n)
  BY <1>2, <1>10, <1>11, <1>12, InsertionSorts
<1>14. n \in 0..n
  BY <1>2
<1> QED  BY <1>1, <1>3, <1>5, <1>8, <1>9, <1>13, <1>14

\* To the nearest whole number: a mean of two speeds lies between them.
LEMMA NearestFits ==
  ASSUME NEW d \in Nat, d > 0, NEW a \in Nat, NEW lo \in Nat, NEW hi \in Nat,
         lo * d <= a, a <= hi * d
  PROVE  lo <= Curve!Nearest(a, d) /\ Curve!Nearest(a, d) <= hi
<1>1. PICK z \in Nat : z = 2 * a + d
  OBVIOUS
<1>2. PICK e \in Nat : e = 2 * d /\ e > 0
  OBVIOUS
<1>3. PICK q \in Int : q = Curve!Nearest(a, d) /\ e * q <= z /\ z < e * q + e
  <2>1. z \div e \in Int /\ e * (z \div e) <= z /\ z < e * (z \div e) + e
    BY <1>2
  <2>2. Curve!Nearest(a, d) = z \div e
    BY <1>1, <1>2 DEF Curve!Nearest
  <2> QED  BY <2>1, <2>2
<1>4. PICK b \in Nat : b = lo * d
  OBVIOUS
<1>5. PICK c \in Nat : c = hi * d
  OBVIOUS
<1>6. e * lo = 2 * b /\ e * hi = 2 * c
  BY <1>2, <1>4, <1>5
<1>7. lo <= q
  <2>1. ASSUME q < lo  PROVE FALSE
    <3>1. PICK k \in Nat : lo = q + 1 + k
      <4>1. lo - (q + 1) \in Nat /\ lo = q + 1 + (lo - (q + 1))
        BY <2>1
      <4> QED  BY <4>1
    <3>2. e * lo = e * q + e + e * k /\ e * k \in Nat /\ e * q \in Int
      BY <3>1
    <3> QED  BY <1>1, <1>3, <1>4, <1>6, <3>2
  <2> QED  BY <2>1
<1>8. q <= hi
  <2>1. ASSUME hi < q  PROVE FALSE
    <3>1. PICK k \in Nat : q = hi + 1 + k
      <4>1. q - (hi + 1) \in Nat /\ q = hi + 1 + (q - (hi + 1))
        BY <2>1
      <4> QED  BY <4>1
    <3>2. e * q = e * hi + e + e * k /\ e * k \in Nat
      BY <3>1
    <3> QED  BY <1>1, <1>2, <1>3, <1>5, <1>6, <3>2
  <2> QED  BY <2>1
<1> QED  BY <1>3, <1>7, <1>8

\* Between two points the speed is between theirs, and at the second it is the second's.
LEMMA BetweenFits ==
  ASSUME NEW p \in Nat \X Nat, NEW q \in Nat \X Nat, NEW t \in Nat, p[1] < t, t <= q[1]
  PROVE  \E v \in Nat : /\ v = Curve!Between(p, q, t)
                        /\ (p[2] <= v /\ v <= q[2]) \/ (q[2] <= v /\ v <= p[2])
                        /\ t = q[1] => v = q[2]
<1>1. PICK d \in Nat : d = q[1] - p[1] /\ d > 0
  OBVIOUS
<1>2. PICK x \in Nat : x = t - p[1] /\ x <= d /\ (t = q[1] <=> x = d)
  BY <1>1
<1>3. PICK y \in Nat : d = x + y
  <2>1. d - x \in Nat /\ d = x + (d - x)
    BY <1>2
  <2> QED  BY <2>1
<1>4. PICK u, w : u = p[2] /\ w = q[2] /\ u \in Nat /\ w \in Nat
  OBVIOUS
<1>5. PICK a : a = u * d + x * (w - u)
  OBVIOUS
<1>6. a = u * y + w * x
  <2>1. u * d = u * x + u * y
    BY <1>3, <1>4
  <2>2. x * (w - u) = w * x - u * x
    BY <1>2, <1>4
  <2>3. u * x \in Nat /\ u * y \in Nat /\ w * x \in Nat
    BY <1>2, <1>3, <1>4
  <2> QED  BY <1>5, <2>1, <2>2, <2>3
<1>7. ASSUME NEW lo \in Nat, NEW hi \in Nat, lo <= hi, {lo, hi} = {u, w}  PROVE lo * d <= a /\ a <= hi * d
  <2>1. PICK g \in Nat : hi = lo + g
    <3>1. hi - lo \in Nat /\ hi = lo + (hi - lo)
      BY <1>7
    <3> QED  BY <3>1
  <2>2. /\ lo * d = lo * x + lo * y /\ hi * d = hi * x + hi * y
        /\ hi * x = lo * x + g * x /\ hi * y = lo * y + g * y
        /\ g * x \in Nat /\ g * y \in Nat /\ lo * x \in Nat /\ lo * y \in Nat
    BY <1>3, <2>1
  <2>3. \/ lo = u /\ hi = w
        \/ lo = w /\ hi = u
    BY <1>7
  <2>4. CASE lo = u /\ hi = w
    <3>1. a = lo * y + hi * x
      BY <1>6, <2>4
    <3> QED  BY <2>2, <3>1
  <2>5. CASE lo = w /\ hi = u
    <3>1. a = hi * y + lo * x
      BY <1>6, <2>5
    <3> QED  BY <2>2, <3>1
  <2> QED  BY <2>3, <2>4, <2>5
<1>8. a \in Nat
  <2>1. u * y \in Nat /\ w * x \in Nat
    BY <1>2, <1>3, <1>4
  <2> QED  BY <1>6, <2>1
<1>9. PICK v : v = Curve!Between(p, q, t)
  OBVIOUS
<1>10. v = Curve!Nearest(a, d)
  BY <1>1, <1>2, <1>4, <1>5, <1>9 DEF Curve!Between
<1>11. v \in Nat
  <2>1. 2 * a + d \in Nat /\ 2 * d \in Nat /\ 2 * d > 0
    BY <1>1, <1>8
  <2>2. PICK z, e : z = 2 * a + d /\ e = 2 * d
    OBVIOUS
  <2>3. z \div e \in Nat
    BY <2>1, <2>2
  <2> QED  BY <1>10, <2>2, <2>3 DEF Curve!Nearest
<1>12. u <= w => u <= v /\ v <= w
  BY <1>1, <1>4, <1>7, <1>8, <1>10, NearestFits
<1>13. w <= u => w <= v /\ v <= u
  <2>1. {w, u} = {u, w}
    OBVIOUS
  <2>2. w <= u => w * d <= a /\ a <= u * d
    BY <1>4, <1>7, <2>1
  <2> QED  BY <1>1, <1>4, <1>8, <1>10, <2>2, NearestFits
<1>14. t = q[1] => v = w
  <2>1. SUFFICES ASSUME x = d  PROVE v = w
    BY <1>2
  <2>2. a = w * d
    <3>1. y = 0
      BY <1>2, <1>3, <2>1
    <3>2. u * y = 0 /\ w * x = w * d /\ w * d \in Nat
      BY <1>1, <1>4, <2>1, <3>1
    <3> QED  BY <1>6, <3>2
  <2>3. w * d <= a /\ a <= w * d
    BY <1>1, <1>4, <1>8, <2>2
  <2>4. w <= v /\ v <= w
    BY <1>1, <1>4, <1>8, <1>10, <2>3, NearestFits
  <2> QED  BY <1>4, <1>11, <2>4
<1>15. u <= w \/ w <= u
  BY <1>4
<1>16. (p[2] <= v /\ v <= q[2]) \/ (q[2] <= v /\ v <= p[2])
  <2>1. CASE u <= w
    BY <1>4, <1>12, <2>1, Zenon
  <2>2. CASE w <= u
    BY <1>4, <1>13, <2>2, Zenon
  <2> QED  BY <1>15, <2>1, <2>2, Zenon
<1>17. t = q[1] => v = q[2]
  BY <1>4, <1>14
<1> QED  BY <1>9, <1>11, <1>16, <1>17, Zenon

\* The speed of a curve: that of one of its points where it has one at that temperature, or
\* beside the first and the last; else one between those of the points before and behind.
Beside(s, n, i, t) ==
  \/ s[i][1] <= t /\ \A k \in 1..n : s[k][1] <= t => s[k][1] <= s[i][1]
  \/ s[i][1] >= t /\ \A k \in 1..n : s[k][1] >= t => s[k][1] >= s[i][1]

\* The points are in the order of their temperatures.
Rises(s, n) == \A i, j \in 1..n : i <= j => s[i][1] <= s[j][1]

LEMMA SpeedFits ==
  ASSUME NEW n \in Nat \ {0}, NEW s \in Seq(Nat \X Nat), Len(s) = n,
         Rises(s, n), NEW t \in Nat, NEW v, v = Curve!FanSpeed(s, t)
  PROVE  \E i, j \in 1..n : /\ Beside(s, n, i, t) /\ Beside(s, n, j, t)
                            /\ s[i][2] <= v /\ v <= s[j][2]
<1>1. \A i \in 1..n : s[i] \in Nat \X Nat /\ s[i][1] \in Nat /\ s[i][2] \in Nat
  <2>1. \A i \in 1..n : s[i] \in Nat \X Nat
    BY ElementOfSeq
  <2> QED  BY <2>1
<1>2. ASSUME NEW i \in 1..n, v = s[i][2], Beside(s, n, i, t)
      PROVE  \E j, k \in 1..n : /\ Beside(s, n, j, t) /\ Beside(s, n, k, t)
                                /\ s[j][2] <= v /\ v <= s[k][2]
  <2>1. v <= v
    BY <1>1, <1>2
  <2> QED  BY <1>2, <2>1
<1>3. s # <<>>
  <2>1. Len(<<>>) = 0
    OBVIOUS
  <2> QED  BY <2>1
<1>4. 1 \in 1..n /\ n \in 1..n
  OBVIOUS
<1>5. CASE n = 1 \/ t <= s[1][1]
  <2>1. v = s[1][2]
    BY <1>3, <1>5 DEF Curve!FanSpeed
  <2>2. Beside(s, n, 1, t)
    <3>1. \A k \in 1..n : s[k][1] >= s[1][1]
      <4>1. \A k \in 1..n : s[1][1] <= s[k][1] /\ s[1][1] \in Nat /\ s[k][1] \in Nat
        BY <1>1, <1>4 DEF Rises
      <4> QED  BY <4>1
    <3>2. CASE t <= s[1][1]
      <4>1. s[1][1] >= t
        BY <1>1, <1>4, <3>2
      <4> QED  BY <3>1, <4>1 DEF Beside
    <3>3. CASE n = 1 /\ s[1][1] <= t
      <4>1. \A k \in 1..n : k = 1 /\ s[1][1] <= s[1][1]
        BY <1>1, <1>4, <3>3
      <4>2. \A k \in 1..n : s[k][1] <= s[1][1]
        BY <4>1
      <4> QED  BY <3>3, <4>2 DEF Beside
    <3> QED  BY <1>1, <1>4, <1>5, <3>2, <3>3
  <2> QED  BY <1>2, <1>4, <2>1, <2>2
<1>6. CASE n > 1 /\ ~(t <= s[1][1]) /\ t >= s[n][1]
  <2>1. v = s[n][2]
    BY <1>3, <1>6 DEF Curve!FanSpeed, Curve!Last
  <2>2. Beside(s, n, n, t)
    BY <1>1, <1>4, <1>6 DEF Beside, Rises
  <2> QED  BY <1>2, <1>4, <2>1, <2>2
<1>7. CASE n > 1 /\ ~(t <= s[1][1]) /\ ~(t >= s[n][1])
  <2> DEFINE holds(i) == s[i][1] <= t /\ t <= s[i+1][1]
  <2>1. PICK found : found = {i \in 1..n-1 : holds(i) /\ \A j \in 1..i-1 : ~holds(j)}
    OBVIOUS
  <2>2. v = IF found = {} THEN 50
            ELSE LET i == CHOOSE i \in found : TRUE IN Curve!Between(s[i], s[i+1], t)
    <3>1. ~(s = <<>>) /\ ~(Len(s) = 1 \/ t <= s[1][1])
      BY <1>3, <1>7
    <3>2. ~(t >= Curve!Last(s)[1])
      BY <1>7 DEF Curve!Last
    <3>3. found = {i \in 1..Len(s)-1 : holds(i) /\ \A j \in 1..i-1 : ~holds(j)}
      BY <2>1
    <3>4. v = LET meets(i) == s[i][1] <= t /\ t <= s[i+1][1]
                  first == {i \in 1..Len(s)-1 : meets(i) /\ \A j \in 1..i-1 : ~meets(j)}
              IN  IF first = {} THEN 50
                  ELSE LET i == CHOOSE i \in first : TRUE IN Curve!Between(s[i], s[i+1], t)
      BY <3>1, <3>2, Zenon DEF Curve!FanSpeed
    <3> QED  BY <3>3, <3>4, Zenon
  <2>3. s[1][1] < t /\ t < s[n][1]
    BY <1>1, <1>4, <1>7
  <2>4. ASSUME NEW k \in 1..n-1, s[k][1] < t, t <= s[k+1][1]  PROVE k \in found
    <3>1. ASSUME NEW j \in 1..k-1  PROVE ~holds(j)
      <4>1. j + 1 \in 1..n /\ k \in 1..n /\ j + 1 <= k
        OBVIOUS
      <4>2. s[j+1][1] <= s[k][1] /\ s[j+1][1] \in Nat /\ s[k][1] \in Nat
        BY <1>1, <4>1 DEF Rises
      <4>3. ASSUME NEW x \in Nat, NEW y \in Nat, x <= y, y < t  PROVE ~(t <= x)
        BY <4>3
      <4>4. ~(t <= s[j+1][1])
        BY <2>4, <4>2, <4>3
      <4> QED  BY <4>4
    <3>2. s[k][1] \in Nat
      BY <1>1
    <3>3. holds(k)
      BY <2>4, <3>2
    <3> HIDE DEF holds
    <3> QED  BY <2>1, <3>1, <3>3
  <2>5. found # {}
    <3> SUFFICES ASSUME found = {}  PROVE FALSE
      BY Zenon
    <3>1. PICK T : T = {k \in 0..n : k = 0 \/ s[k][1] < t}
      BY Zenon
    <3>2. ASSUME NEW k \in 1..n, k - 1 \in T  PROVE k \in T
      <4>1. CASE k = 1
        BY <2>3, <3>1, <4>1
      <4>2. CASE k # 1
        <5>1. k - 1 \in 1..n-1 /\ (k - 1) + 1 = k /\ k - 1 # 0
          BY <4>2
        <5>2. s[k-1][1] < t
          BY <3>1, <3>2, <5>1
        <5>3. ~(t <= s[k][1])
          BY <2>4, <5>1, <5>2
        <5> QED  BY <1>1, <3>1, <5>3
      <4> QED  BY <4>1, <4>2
    <3>3. 0 \in T
      BY <3>1
    <3>4. 0..n \subseteq T
      BY <3>2, <3>3, Climb
    <3>5. s[n][1] < t
      BY <1>4, <3>1, <3>4
    <3> QED  BY <1>1, <1>4, <2>3, <3>5
  <2>6. PICK i \in found : v = Curve!Between(s[i], s[i+1], t)
    BY <2>2, <2>5
  <2>7. i \in 1..n-1 /\ s[i][1] <= t /\ t <= s[i+1][1] /\ \A j \in 1..i-1 : ~holds(j)
    BY <2>1
  <2>8. i \in 1..n /\ i + 1 \in 1..n
    <3>1. i \in 1..n-1
      BY <2>7
    <3> HIDE DEF holds
    <3> QED  BY <3>1
  <2>9. s[i][1] < t
    <3> SUFFICES ASSUME s[i][1] = t  PROVE FALSE
      BY <1>1, <2>7, <2>8
    <3>1. i # 1
      BY <1>1, <1>4, <2>3
    <3>2. i - 1 \in 1..i-1 /\ i - 1 \in 1..n /\ (i - 1) + 1 = i /\ i - 1 <= i
      BY <2>7, <3>1
    <3>3. s[i-1][1] <= s[i][1]
      BY <2>8, <3>2 DEF Rises
    <3>4. holds(i - 1)
      BY <1>1, <2>8, <3>2, <3>3
    <3> HIDE DEF holds
    <3> QED  BY <2>7, <3>2, <3>4
  <2>10. PICK w \in Nat :
           /\ v = w
           /\ (s[i][2] <= w /\ w <= s[i+1][2]) \/ (s[i+1][2] <= w /\ w <= s[i][2])
           /\ t = s[i+1][1] => w = s[i+1][2]
    BY <1>1, <2>6, <2>7, <2>8, <2>9, BetweenFits
  <2>11. Beside(s, n, i + 1, t)
    <3>1. ASSUME NEW k \in 1..n, s[k][1] >= t  PROVE s[k][1] >= s[i+1][1]
      <4>1. ~(k <= i)
        BY <1>1, <2>8, <2>9, <3>1 DEF Rises
      <4>2. i + 1 <= k
        BY <2>7, <4>1
      <4> QED  BY <1>1, <2>8, <4>2 DEF Rises
    <3> QED  BY <1>1, <2>7, <2>8, <3>1 DEF Beside
  <2>12. CASE t = s[i+1][1]
    BY <1>2, <2>8, <2>10, <2>11, <2>12
  <2>13. CASE t # s[i+1][1]
    <3>1. ASSUME NEW k \in 1..n, s[k][1] <= t  PROVE s[k][1] <= s[i][1]
      <4>1. ASSUME i + 1 <= k  PROVE FALSE
        <5>1. s[i+1][1] <= s[k][1] /\ s[i+1][1] \in Nat /\ s[k][1] \in Nat
          BY <1>1, <2>8, <4>1 DEF Rises
        <5> QED  BY <2>7, <2>13, <3>1, <5>1
      <4>2. k <= i
        BY <2>7, <4>1
      <4> QED  BY <2>8, <4>2 DEF Rises
    <3>2. Beside(s, n, i, t)
      BY <2>7, <3>1 DEF Beside
    <3> QED  BY <2>8, <2>10, <2>11, <3>2
  <2> QED  BY <2>12, <2>13
<1> QED  BY <1>5, <1>6, <1>7

CurveInv == temp \in CurveTemps /\ state \in CurveSettings \cup {None}

LEMMA CurveSpeedFits ==
  ASSUME CurvesGiven, CurveInv  PROVE Curve!SpeedIsBetween
<1> SUFFICES ASSUME NEW f \in DOMAIN state
    PROVE LET points == Curve!Range(state[f])
              below == {p \in points : p[1] <= temp /\ \A q \in points : q[1] <= temp => q[1] <= p[1]}
              above == {p \in points : p[1] >= temp /\ \A q \in points : q[1] >= temp => q[1] >= p[1]}
              near == IF below = {} THEN above ELSE IF above = {} THEN below ELSE below \cup above
              speed == Curve!FanSpeed(Curve!ByTemp(state[f]), temp)
          IN  points # {} => /\ \E p \in near : p[2] <= speed
                             /\ \E p \in near : speed <= p[2]
  BY Zenon DEF Curve!SpeedIsBetween
<1>1. PICK c : c = state[f]
  OBVIOUS
<1>2. c \in Seq(Nat \X Nat) /\ temp \in Nat
  <2>1. state # None
    BY DEF None
  <2> QED  BY <1>1, <2>1 DEF CurvesGiven, CurveInv
<1>3. PICK points : points = Curve!Range(c)
  OBVIOUS
<1>4. PICK below : below = {p \in points : p[1] <= temp /\ \A q \in points : q[1] <= temp => q[1] <= p[1]}
  OBVIOUS
<1>5. PICK above : above = {p \in points : p[1] >= temp /\ \A q \in points : q[1] >= temp => q[1] >= p[1]}
  OBVIOUS
<1>6. PICK near : near = IF below = {} THEN above ELSE IF above = {} THEN below ELSE below \cup above
  OBVIOUS
<1>7. PICK speed : speed = Curve!FanSpeed(Curve!ByTemp(c), temp)
  OBVIOUS
<1>8. ASSUME points # {}  PROVE \E p, q \in near : p[2] <= speed /\ speed <= q[2]
  <2>1. PICK n : n = Len(c)
    OBVIOUS
  <2>2. n \in Nat /\ DOMAIN c = 1..n
    BY <1>2, <2>1, LenProperties
  <2>3. points = {c[i] : i \in 1..n}
    BY <1>3, <2>2 DEF Curve!Range
  <2>4. n \in Nat \ {0}
    BY <1>8, <2>2, <2>3
  <2>5. PICK a : a = Curve!ByTemp(c)
    OBVIOUS
  <2>6. a \in Seq(Nat \X Nat) /\ Ascends(a, c, n)
    BY <1>2, <2>1, <2>5, CurveSorted
  <2>7. /\ Len(a) = n /\ Rises(a, n)
        /\ \A i \in 1..n : a[i] \in points
        /\ \A p \in points : \E i \in 1..n : p = a[i]
    <3>1. /\ Len(a) = n /\ \A i, j \in 1..n : i <= j => a[i][1] <= a[j][1]
          /\ \A i \in 1..n : \E j \in 1..n : a[i] = c[j]
          /\ \A j \in 1..n : \E i \in 1..n : a[i] = c[j]
      BY <2>6, Zenon DEF Ascends
    <3>2. \A i \in 1..n : a[i] \in points
      BY <2>3, <3>1, Zenon
    <3>3. \A p \in points : \E i \in 1..n : p = a[i]
      <4> SUFFICES ASSUME NEW p \in points  PROVE \E i \in 1..n : p = a[i]
        OBVIOUS
      <4>1. PICK j \in 1..n : p = c[j]
        BY <2>3
      <4>2. PICK i \in 1..n : a[i] = c[j]
        BY <3>1
      <4> QED  BY <4>1, <4>2
    <3> QED  BY <3>1, <3>2, <3>3 DEF Rises
  <2>8. PICK i, j \in 1..n : /\ Beside(a, n, i, temp) /\ Beside(a, n, j, temp)
                             /\ a[i][2] <= speed /\ speed <= a[j][2]
    BY <1>2, <1>7, <2>4, <2>5, <2>6, <2>7, SpeedFits
  <2>9. ASSUME NEW k \in 1..n, Beside(a, n, k, temp)  PROVE a[k] \in near
    <3>1. a[k] \in below \/ a[k] \in above
      BY <1>4, <1>5, <2>7, <2>9 DEF Beside
    <3> QED  BY <1>6, <3>1
  <2> QED  BY <2>8, <2>9
<1>9. points # {} => (\E p \in near : p[2] <= speed) /\ (\E p \in near : speed <= p[2])
  BY <1>8
<1> QED  BY <1>1, <1>3, <1>4, <1>5, <1>6, <1>7, <1>9, ZenonT(30)

LEMMA CurveNext ==
  ASSUME CurveInv, [Curve!Next]_(Curve!vars)  PROVE CurveInv'
<1>1. CASE UNCHANGED Curve!vars
  BY <1>1 DEF CurveInv, Curve!vars, Curve!shared, Curve!outside
<1>2. ASSUME UNCHANGED <<state, temp>>  PROVE CurveInv'
  BY <1>2 DEF CurveInv
<1>3. CASE Curve!Tick \/ Curve!NextFan
  BY <1>2, <1>3 DEF Curve!Tick, Curve!NextFan, Curve!shared, Curve!outside
<1>4. ASSUME NEW t, Curve!SpeedStep(t)  PROVE UNCHANGED <<state, temp>>
  BY <1>4 DEF Curve!SpeedStep, Curve!TakeManual, Curve!SetFlag, Curve!ReadBack, Curve!WriteSpeeds,
       Curve!Record, Curve!ReadMode, Curve!ClearOwnership, Curve!WriteDuty, Curve!HandBack,
       Curve!ClearFlag, Curve!shared, Curve!outside
<1>5. ASSUME NEW c \in Clients, Curve!Call(c)  PROVE CurveInv'
  <2>1. temp' = temp
    BY <1>5 DEF Curve!Call, Curve!ApplyFanSettings, Curve!SetFanSpeed, Curve!SetAllFansAuto,
         Curve!SetPerformanceProfile, Curve!Leave, Curve!Shutdown, Curve!outside
  <2>2. CASE Curve!ApplyFanSettings(c)
    BY <2>1, <2>2 DEF Curve!ApplyFanSettings, Curve!None, None, CurveInv
  <2>3. CASE ~Curve!ApplyFanSettings(c)
    BY <1>2, <1>5, <2>1, <2>3 DEF Curve!Call, Curve!SetFanSpeed, Curve!SetAllFansAuto,
         Curve!SetPerformanceProfile, Curve!Leave, Curve!Shutdown, Curve!shared
  <2> QED  BY <2>2, <2>3
<1>6. CASE Curve!Environment
  <2>1. state' = state
    BY <1>6 DEF Curve!Environment, Curve!CalmDown, Curve!FirmwareSets, Curve!FirmwareTakes,
         Curve!Warm, Curve!Expire, Curve!shared
  <2>2. temp' \in CurveTemps
    BY <1>6 DEF Curve!Environment, Curve!CalmDown, Curve!FirmwareSets, Curve!FirmwareTakes,
         Curve!Warm, Curve!Expire, Curve!outside, CurveInv
  <2> QED  BY <2>1, <2>2 DEF CurveInv
<1> QED  BY <1>1, <1>2, <1>3, <1>4, <1>5, <1>6 DEF Curve!Next, Curve!JobStep

\* Every speed that a curve gives lies between its points, two at one temperature or not,
\* beside the readings that are real.
THEOREM TrueNumbers ==
  ASSUME Sampling, CurvesGiven  PROVE Curve!Spec /\ Diff!Spec => []NumbersAreReal
<1>1. Curve!Init => CurveInv
  BY DEF Curve!Init, Curve!None, None, CurveInv
<1>2. CurveInv /\ [Curve!Next]_(Curve!vars) => CurveInv'
  BY CurveNext
<1>3. CurveInv => Curve!SpeedIsBetween
  BY CurvesGiven, CurveSpeedFits
<1>4. Curve!SpeedIsBetween /\ Diff!LoadIsPercent /\ Diff!RateIsReal => NumbersAreReal
  BY DEF NumbersAreReal, ReadingsAreReal
<1>5. Diff!Spec => [](Diff!LoadIsPercent /\ Diff!RateIsReal)
  BY DifferencesAreReal
<1> QED  BY <1>1, <1>2, <1>3, <1>4, <1>5, PTL DEF Curve!Spec

-----------------------------------------------------------------------------
(* The calls that set the rest of the machine.                              *)

\* What a call may ask: each setting once, and of its kind.
IsSetting(s) ==
  /\ s.do \in {"mode", "governor", "tdp", "epp", "limits", "boost", "smt", "keyboard",
               "screen", "battery"}
  /\ s.do = "limits" => s.from \in Int /\ s.to \in Int
  /\ s.do \in {"keyboard", "battery"} => s.on \in BOOLEAN

IsCall(request) ==
  /\ \A s \in request : IsSetting(s)
  /\ \A s, u \in request : s.do = u.do => s = u

StepBounds ==
  /\ Prof!Main \notin Clients
  /\ \E n \in Nat : Cpus = 0..n
  /\ 0 \notin Siblings
  /\ HwMin \in Int /\ HwMax \in Int /\ HwMin <= HwMax
  /\ Prof!Modes # {} /\ \A m \in Prof!Modes : Offered[m] # {}
  /\ MaxLight \in Nat /\ MaxRequests \in Nat
  /\ \A r \in Requests : IsCall(r)

Restore == [do |-> "limits", from |-> HwMin, to |-> HwMax]

\* The files of a setting.
FilesOf(k) ==
  CASE k = "mode" -> {"mode"}
    [] k = "governor" -> {"gov"}
    [] k = "tdp" -> {"tdp"}
    [] k = "epp" -> {"epp", "none"}
    [] k = "limits" -> {"lo", "hi"}
    [] k = "boost" -> {"boost"}
    [] k = "smt" -> {"smt"}
    [] k = "keyboard" -> {"ledmode", "colour", "light"}
    [] k = "screen" -> {"screen", "actual"}
    [] k = "battery" -> {"charge", "start", "end"}
    [] OTHER -> {}

\* A plan: the writes of one setting, of which a failure ends all or what is left, and
\* behind those of the limits their flag.
IsSeq(p) == \E S : p \in Seq(S)
Items(p) == {p[i] : i \in 1..Len(p)}
Writing(e, names) == e.do = "write" /\ e.file[1] \in names

IsItem(e) ==
  /\ e.do \in {"write", "flag", "limits"} /\ e.soft \in {"no", "each", "group"}
  /\ Writing(e, {"epp"}) => e.value \in Prof!EppValues
  /\ Writing(e, {"mode"}) => e.file = <<"mode", 0>>
  /\ e.do = "limits" => e.soft = "group" /\ e.from \in HwMin..HwMax /\ e.to \in HwMin..HwMax

PlanShape(p) ==
  /\ IsSeq(p)
  /\ \A e \in Items(p) : IsItem(e)
  /\ \E k : \A e \in Items(p) : e.do = "write" => e.file[1] \in FilesOf(k)
  /\ \A i, j \in 1..Len(p) : i < j /\ p[i].soft = "group" => p[j].soft = "group"
  /\ \A i \in 1..Len(p) : p[i].do = "flag" =>
       i = Len(p) /\ \A e \in Items(p) : e.do = "write" => e.file[1] \in {"lo", "hi"}
  /\ \A e \in Items(p) : Writing(e, {"lo", "hi"}) => p[Len(p)].do = "flag"

\* A plan is its head and what is behind it.
LEMMA FirstOfPlan ==
  ASSUME NEW p, IsSeq(p), p # <<>>
  PROVE  /\ Len(p) \in Nat \ {0} /\ Head(p) = p[1]
         /\ IsSeq(Tail(p)) /\ Len(Tail(p)) = Len(p) - 1
         /\ \A i \in 1..Len(p)-1 : Tail(p)[i] = p[i+1]
         /\ Head(p) \in Items(p) /\ Items(Tail(p)) \subseteq Items(p)
         /\ Items(p) = {Head(p)} \cup Items(Tail(p))
<1>1. PICK S : p \in Seq(S)
  BY DEF IsSeq
<1>2. Tail(p) \in Seq(S) /\ Len(Tail(p)) = Len(p) - 1 /\ Len(p) \in Nat \ {0}
      /\ \A i \in 1..Len(p)-1 : Tail(p)[i] = p[i+1]
  BY <1>1, HeadTailProperties, EmptySeq, LenProperties
<1>3. Head(p) = p[1]
  BY <1>1
<1>4. IsSeq(Tail(p))
  BY <1>2 DEF IsSeq
<1>5. Items(p) = {Head(p)} \cup Items(Tail(p))
  <2>1. ASSUME NEW i \in 1..Len(p)  PROVE p[i] \in {Head(p)} \cup Items(Tail(p))
    <3>1. CASE i = 1
      BY <1>3, <3>1
    <3>2. CASE i # 1
      <4>1. i - 1 \in 1..Len(p)-1 /\ (i - 1) + 1 = i
        BY <1>2, <3>2
      <4>2. p[i] = Tail(p)[i-1]
        BY <1>2, <4>1
      <4> QED  BY <1>2, <4>1, <4>2 DEF Items
    <3> QED  BY <3>1, <3>2
  <2>2. ASSUME NEW i \in 1..Len(Tail(p))  PROVE Tail(p)[i] \in Items(p)
    <3>1. i + 1 \in 1..Len(p) /\ Tail(p)[i] = p[i+1]
      BY <1>2
    <3> QED  BY <3>1 DEF Items
  <2>3. Head(p) \in Items(p)
    BY <1>2, <1>3 DEF Items
  <2> QED  BY <2>1, <2>2, <2>3 DEF Items
<1> QED  BY <1>2, <1>3, <1>4, <1>5

LEMMA SeqOfItems ==
  ASSUME NEW n \in Nat, NEW f, f = [i \in 1..n |-> f[i]]
  PROVE  \E S : f \in Seq(S) /\ Len(f) = n
<1>1. PICK S : S = {f[i] : i \in 1..n}
  OBVIOUS
<1>2. f \in [1..n -> S]
  BY <1>1
<1> QED  BY <1>2

\* What is behind the head is a plan too.
LEMMA TailShape ==
  ASSUME NEW p, PlanShape(p), p # <<>>  PROVE PlanShape(Tail(p))
<1>1. IsSeq(p)
  BY DEF PlanShape
<1>2. PICK n : n = Len(p)
  OBVIOUS
<1>3. PICK q : q = Tail(p)
  OBVIOUS
<1>4. /\ n \in Nat \ {0} /\ IsSeq(q) /\ Len(q) = n - 1 /\ Items(q) \subseteq Items(p)
      /\ \A i \in 1..n-1 : q[i] = p[i+1]
  BY <1>1, <1>2, <1>3, FirstOfPlan
<1>5. \A i, j \in 1..n-1 : i < j /\ q[i].soft = "group" => q[j].soft = "group"
  <2> SUFFICES ASSUME NEW i \in 1..n-1, NEW j \in 1..n-1, i < j, q[i].soft = "group"
               PROVE  q[j].soft = "group"
    OBVIOUS
  <2>1. i + 1 \in 1..n /\ j + 1 \in 1..n /\ i + 1 < j + 1 /\ q[i] = p[i+1] /\ q[j] = p[j+1]
    BY <1>4
  <2> QED  BY <1>2, <2>1 DEF PlanShape
<1>6. ASSUME NEW i \in 1..n-1, q[i].do = "flag"
      PROVE  i = n - 1 /\ \A e \in Items(q) : e.do = "write" => e.file[1] \in {"lo", "hi"}
  <2>1. i + 1 \in 1..n /\ q[i] = p[i+1]
    BY <1>4
  <2>2. i + 1 = n /\ \A e \in Items(p) : e.do = "write" => e.file[1] \in {"lo", "hi"}
    BY <1>2, <1>6, <2>1 DEF PlanShape
  <2> QED  BY <1>4, <2>2
<1>7. ASSUME NEW e \in Items(q), Writing(e, {"lo", "hi"})  PROVE q[n-1].do = "flag"
  <2>1. PICK i \in 1..n-1 : e = q[i]
    BY <1>4 DEF Items
  <2>2. n - 1 \in 1..n-1 /\ q[n-1] = p[n]
    BY <1>4, <2>1
  <2> QED  BY <1>2, <1>4, <1>7, <2>2 DEF PlanShape
<1>8. /\ \A e \in Items(q) : IsItem(e)
      /\ \E k : \A e \in Items(q) : e.do = "write" => e.file[1] \in FilesOf(k)
  <2>1. PICK k : \A e \in Items(p) : e.do = "write" => e.file[1] \in FilesOf(k)
    BY DEF PlanShape
  <2> QED  BY <1>4, <2>1 DEF PlanShape
<1> QED  BY <1>3, <1>4, <1>5, <1>6, <1>7, <1>8 DEF PlanShape

LEMMA NothingLeft == PlanShape(<<>>) /\ Items(<<>>) = {} /\ IsSeq(<<>>)
<1>1. Items(<<>>) = {}
  BY DEF Items
<1>2. IsSeq(<<>>)
  <2>1. <<>> \in Seq({})
    OBVIOUS
  <2> QED  BY <2>1 DEF IsSeq
<1> QED  BY <1>1, <1>2 DEF PlanShape

-----------------------------------------------------------------------------
\* The machine: the files and what they hold, and the first CPU online.
MachineTypes ==
  /\ DOMAIN regs = Prof!Files
  /\ \A c \in Cpus : /\ regs[<<"lo", c>>] \in HwMin..HwMax /\ regs[<<"hi", c>>] \in HwMin..HwMax
                     /\ regs[<<"gov", c>>] \in Offered[regs[<<"mode", 0>>]]
                     /\ regs[<<"epp", c>>] \in Prof!EppValues
  /\ regs[<<"mode", 0>>] \in Prof!Modes /\ regs[<<"online", 0>>] = TRUE
  /\ regs[<<"screen", 0>>] \in 0..MaxLight /\ regs[<<"light", 0>>] \in 0..MaxLight
  /\ regs[<<"tdp", 0>>] \in 1..3
  /\ regs[<<"start", 0>>] \in 0..100 /\ regs[<<"end", 0>>] \in 0..100

\* The kernel lets no minimum rise above the maximum.
InOrder == Strict => \A c \in Cpus : regs[<<"lo", c>>] <= regs[<<"hi", c>>]

LEMMA FilesThere ==
  ASSUME StepBounds
  PROVE  /\ \A c \in Cpus, k \in Prof!Kinds \cup {"online"} : <<k, c>> \in Prof!Files
         /\ \A k \in Prof!Singles : <<k, 0>> \in Prof!Files
         /\ 0 \in Cpus /\ Cpus \subseteq Nat
  BY DEF StepBounds, Prof!Files

\* What a write leaves behind in a file.
IsLeft(w, k, c, v) ==
  /\ k # "online" /\ ~(w.file[1] = "mode" /\ k \in {"lo", "hi", "gov"}) =>
       v = IF w.file = <<k, c>> THEN w.value ELSE regs[<<k, c>>]
  /\ w.file[1] = "mode" /\ k \in {"lo", "hi", "gov"} =>
       v = IF w.value = regs[w.file] THEN regs[<<k, c>>]
           ELSE IF k = "lo" THEN HwMin
           ELSE IF k = "hi" THEN HwMax
           ELSE CHOOSE g \in Offered[w.value] : TRUE
  /\ k = "online" /\ w.file[1] \notin {"online", "smt"} => v = regs[<<k, c>>]
  /\ k = "online" /\ w.file[1] = "smt" => v = (w.value \/ c \notin Siblings)

\* What the files hold after a write.
LEMMA AfterWrite ==
  ASSUME StepBounds, DOMAIN regs = Prof!Files, NEW w, NEW k, NEW c, <<k, c>> \in Prof!Files
  PROVE  DOMAIN Prof!After(w) = Prof!Files /\ IsLeft(w, k, c, Prof!After(w)[<<k, c>>])
<1> DEFINE put == [regs EXCEPT ![w.file] = w.value]
<1>2. /\ DOMAIN put = Prof!Files
      /\ put[<<k, c>>] = IF w.file = <<k, c>> THEN w.value ELSE regs[<<k, c>>]
  OBVIOUS
<1>3. w.file = <<k, c>> => w.file[1] = k
  OBVIOUS
<1>4. <<k, c>>[1] = k /\ <<k, c>>[2] = c
  OBVIOUS
<1>5. Prof!After(w) =
        CASE w.file[1] = "mode" /\ w.value # regs[w.file] ->
               [r \in Prof!Files |->
                  CASE r[1] = "lo" -> HwMin
                    [] r[1] = "hi" -> HwMax
                    [] r[1] = "gov" -> CHOOSE g \in Offered[w.value] : TRUE
                    [] OTHER -> put[r]]
          [] w.file[1] = "smt" ->
               [r \in Prof!Files |-> IF r[1] = "online" THEN w.value \/ r[2] \notin Siblings ELSE put[r]]
          [] OTHER -> put
  BY Zenon DEF Prof!After
<1> HIDE DEF put
<1>6. CASE w.file[1] = "mode" /\ w.value # regs[w.file]
  <2>1. Prof!After(w) = [r \in Prof!Files |->
                      CASE r[1] = "lo" -> HwMin
                        [] r[1] = "hi" -> HwMax
                        [] r[1] = "gov" -> CHOOSE g \in Offered[w.value] : TRUE
                        [] OTHER -> put[r]]
    BY <1>5, <1>6
  <2>2. Prof!After(w)[<<k, c>>] = CASE k = "lo" -> HwMin
                               [] k = "hi" -> HwMax
                               [] k = "gov" -> CHOOSE g \in Offered[w.value] : TRUE
                               [] OTHER -> put[<<k, c>>]
    BY <1>4, <2>1
  <2>3. DOMAIN Prof!After(w) = Prof!Files
    BY <2>1
  <2> QED  BY <1>2, <1>3, <1>6, <2>2, <2>3 DEF IsLeft
<1>7. CASE w.file[1] = "smt"
  <2>1. Prof!After(w) = [r \in Prof!Files |-> IF r[1] = "online" THEN w.value \/ r[2] \notin Siblings ELSE put[r]]
    BY <1>5, <1>7
  <2>2. Prof!After(w)[<<k, c>>] = IF k = "online" THEN w.value \/ c \notin Siblings ELSE put[<<k, c>>]
    BY <1>4, <2>1
  <2>3. DOMAIN Prof!After(w) = Prof!Files
    BY <2>1
  <2> QED  BY <1>2, <1>3, <1>7, <2>2, <2>3 DEF IsLeft
<1>8. CASE ~(w.file[1] = "mode" /\ w.value # regs[w.file]) /\ w.file[1] # "smt"
  <2>1. Prof!After(w) = put
    BY <1>5, <1>8
  <2> QED  BY <1>2, <1>3, <1>8, <2>1 DEF IsLeft
<1> QED  BY <1>6, <1>7, <1>8

\* The CPUs that are counted, if they are all online, are those online.
LEMMA Counted ==
  ASSUME StepBounds, MachineTypes
  PROVE  /\ Prof!Count \in Nat \ {0} /\ 0 \in Prof!Online /\ Prof!Online \subseteq Cpus
         /\ (\A c \in 0..Prof!Count-1 : c \in Prof!Online) => Prof!Online = 0..Prof!Count-1
<1>1. PICK n \in Nat : Cpus = 0..n
  BY DEF StepBounds
<1>2. PICK S : S = Prof!Online
  OBVIOUS
<1>3. S \subseteq 0..n /\ 0 \in S
  BY <1>1, <1>2 DEF Prof!Online, MachineTypes
<1>4. Prof!Count = Cardinality(S)
  <2>1. Prof!Cardinality(S) = Cardinality(S)
    BY Zenon DEF Prof!Cardinality, Cardinality
  <2> QED  BY <1>2, <2>1 DEF Prof!Count
<1>5. IsFiniteSet(0..n) 
  BY FS_Interval
<1>6. IsFiniteSet(S) /\ Cardinality(S) \in Nat
  BY <1>3, <1>5, FS_Subset, FS_CardinalityType
<1>7. Cardinality(S) # 0
  BY <1>3, <1>6, FS_EmptySet
<1>8. ASSUME 0..Cardinality(S)-1 \subseteq S  PROVE S = 0..Cardinality(S)-1
  <2>1. PICK k : k = Cardinality(S)
    OBVIOUS
  <2>2. k \in Nat
    BY <1>6, <2>1
  <2>3. Cardinality(0..k-1) = k
    BY <2>2, FS_Interval
  <2> QED  BY <1>6, <1>8, <2>1, <2>3, FS_Subset
<1> QED  BY <1>1, <1>2, <1>3, <1>4, <1>6, <1>7, <1>8

\* Every write that the guard and the kernel let through keeps the machine in its types.
LEMMA MachineWrite ==
  ASSUME StepBounds, MachineTypes, InOrder, NEW w, IsItem(w), w.do = "write",
         w.file[1] # "online", Prof!Guard(w), Prof!Accepts(w), regs' = Prof!After(w)
  PROVE  /\ MachineTypes' /\ InOrder'
         /\ w.file[1] # "smt" => Prof!Online' = Prof!Online
         /\ \/ \A c \in Cpus : regs'[<<"lo", c>>] = HwMin /\ regs'[<<"hi", c>>] = HwMax
            \/ w.file[1] \in {"lo", "hi"}
            \/ \A c \in Cpus : UNCHANGED <<regs[<<"lo", c>>], regs[<<"hi", c>>]>>
<1> USE FilesThere
<1>1. DOMAIN regs = Prof!Files
  BY DEF MachineTypes
<1>2. /\ DOMAIN regs' = Prof!Files
      /\ \A k, c : <<k, c>> \in Prof!Files => IsLeft(w, k, c, regs'[<<k, c>>])
  BY <1>1, AfterWrite
<1>3. ASSUME NEW k \in Prof!Kinds \cup {"online"} \cup Prof!Singles, k \notin {"online", "lo", "hi", "gov"},
             NEW c, <<k, c>> \in Prof!Files
      PROVE  regs'[<<k, c>>] = IF w.file = <<k, c>> THEN w.value ELSE regs[<<k, c>>]
  <2>1. IsLeft(w, k, c, regs'[<<k, c>>])
    BY <1>2, <1>3
  <2> QED  BY <1>3, <2>1 DEF IsLeft
<1>4. ASSUME NEW k \in {"lo", "hi", "gov"}, NEW c \in Cpus
      PROVE  /\ w.file[1] # "mode" =>
                  regs'[<<k, c>>] = IF w.file = <<k, c>> THEN w.value ELSE regs[<<k, c>>]
             /\ w.file[1] = "mode" =>
                  regs'[<<k, c>>] = IF w.value = regs[w.file] THEN regs[<<k, c>>]
                                    ELSE IF k = "lo" THEN HwMin
                                    ELSE IF k = "hi" THEN HwMax
                                    ELSE CHOOSE g \in Offered[w.value] : TRUE
  <2>1. k # "online" /\ <<k, c>> \in Prof!Files
    BY DEF Prof!Kinds
  <2>2. IsLeft(w, k, c, regs'[<<k, c>>])
    BY <1>2, <2>1
  <2> QED  BY <2>1, <2>2 DEF IsLeft
<1>5. ASSUME NEW c \in Cpus
      PROVE  /\ w.file[1] # "smt" => regs'[<<"online", c>>] = regs[<<"online", c>>]
             /\ w.file[1] = "smt" => regs'[<<"online", c>>] = (w.value \/ c \notin Siblings)
  <2>1. <<"online", c>> \in Prof!Files
    OBVIOUS
  <2>2. IsLeft(w, "online", c, regs'[<<"online", c>>])
    BY <1>2, <2>1
  <2> QED  BY <2>2 DEF IsLeft
<1>7. ASSUME NEW k, NEW c, w.file = <<k, c>>  PROVE w.file[1] = k /\ w.file[2] = c
  BY <1>7
<1>8. /\ w.file[1] \in {"lo", "hi"} => w.value \in HwMin..HwMax
      /\ w.file[1] \in {"screen", "light"} => w.value \in 0..MaxLight
      /\ w.file[1] \in {"start", "end"} => w.value \in 0..100
      /\ w.file[1] = "tdp" => w.value \in 1..3
      /\ w.file[1] = "mode" => w.value \in Prof!Modes
      /\ w.file[1] = "epp" => w.value \in Prof!EppValues
  BY DEF Prof!Guard, IsItem, Writing
<1>9. HwMin \in HwMin..HwMax /\ HwMax \in HwMin..HwMax /\ HwMin <= HwMax
  BY DEF StepBounds
<1>10. ASSUME NEW c \in Cpus
       PROVE  /\ regs'[<<"lo", c>>] \in HwMin..HwMax /\ regs'[<<"hi", c>>] \in HwMin..HwMax
              /\ Strict => regs'[<<"lo", c>>] <= regs'[<<"hi", c>>]
  <2>1. /\ regs[<<"lo", c>>] \in HwMin..HwMax /\ regs[<<"hi", c>>] \in HwMin..HwMax
        /\ Strict => regs[<<"lo", c>>] <= regs[<<"hi", c>>]
    BY DEF MachineTypes, InOrder
  <2>2. CASE w.file[1] = "mode"
    BY <1>4, <1>9, <2>1, <2>2
  <2>3. CASE w.file = <<"lo", c>>
    <3>1. w.file[1] = "lo" /\ w.file[2] = c /\ <<"lo", c>> # <<"hi", c>>
      BY <2>3
    <3>2. Strict => w.value <= regs[<<"hi", c>>]
      BY <3>1 DEF Prof!Accepts
    <3>3. regs'[<<"lo", c>>] = w.value /\ regs'[<<"hi", c>>] = regs[<<"hi", c>>]
      BY <1>4, <2>3, <3>1
    <3> QED  BY <1>8, <2>1, <3>1, <3>2, <3>3
  <2>4. CASE w.file = <<"hi", c>>
    <3>1. w.file[1] = "hi" /\ w.file[2] = c /\ <<"lo", c>> # <<"hi", c>>
      BY <2>4
    <3>2. Strict => w.value >= regs[<<"lo", c>>]
      BY <3>1 DEF Prof!Accepts
    <3>3. regs'[<<"hi", c>>] = w.value /\ regs'[<<"lo", c>>] = regs[<<"lo", c>>]
      BY <1>4, <2>4, <3>1
    <3>4. w.value \in HwMin..HwMax /\ HwMin \in Int /\ HwMax \in Int
      BY <1>8, <3>1 DEF StepBounds
    <3> QED  BY <2>1, <3>2, <3>3, <3>4
  <2>5. CASE w.file[1] # "mode" /\ w.file # <<"lo", c>> /\ w.file # <<"hi", c>>
    BY <1>4, <2>1, <2>5
  <2> QED  BY <2>2, <2>3, <2>4, <2>5
<1>11. regs'[<<"mode", 0>>] \in Prof!Modes
  <2>1. regs[<<"mode", 0>>] \in Prof!Modes
    BY DEF MachineTypes
  <2> QED  BY <1>3, <1>7, <1>8, <2>1 DEF Prof!Singles
<1>12. ASSUME NEW c \in Cpus  PROVE regs'[<<"gov", c>>] \in Offered[regs'[<<"mode", 0>>]]
  <2>1. regs[<<"gov", c>>] \in Offered[regs[<<"mode", 0>>]]
    BY DEF MachineTypes
  <2>2. CASE w.file[1] = "mode" /\ w.file = <<"mode", 0>>
    <3>1. regs'[<<"mode", 0>>] = w.value
      BY <1>3, <2>2 DEF Prof!Singles
    <3>2. Offered[w.value] # {}
      BY <1>8, <2>2 DEF StepBounds
    <3>3. (CHOOSE g \in Offered[w.value] : TRUE) \in Offered[w.value]
      BY <3>2
    <3> QED  BY <1>4, <2>1, <2>2, <3>1, <3>3
  <2>3. CASE w.file[1] # "mode"
    <3>1. regs'[<<"mode", 0>>] = regs[<<"mode", 0>>]
      BY <1>3, <2>3 DEF Prof!Singles
    <3>2. CASE w.file = <<"gov", c>>
      <4>1. w.file[1] = "gov"
        BY <3>2
      <4> QED  BY <1>4, <2>3, <3>1, <3>2, <4>1 DEF Prof!Accepts
    <3>3. CASE w.file # <<"gov", c>>
      BY <1>4, <2>1, <2>3, <3>1, <3>3
    <3> QED  BY <3>2, <3>3
  <2>4. CASE w.file[1] = "mode" /\ w.file # <<"mode", 0>>
    BY <2>4 DEF IsItem, Writing
  <2> QED  BY <2>2, <2>3, <2>4
<1>13. ASSUME NEW c \in Cpus  PROVE regs'[<<"epp", c>>] \in Prof!EppValues
  <2>1. regs[<<"epp", c>>] \in Prof!EppValues /\ "epp" \in Prof!Kinds /\ <<"epp", c>> \in Prof!Files
    BY DEF MachineTypes, Prof!Kinds
  <2>2. regs'[<<"epp", c>>] = IF w.file = <<"epp", c>> THEN w.value ELSE regs[<<"epp", c>>]
    BY <1>3, <2>1
  <2> QED  BY <1>7, <1>8, <2>1, <2>2
<1>14. regs'[<<"online", 0>>] = TRUE
  BY <1>5 DEF MachineTypes, StepBounds
<1>15. /\ regs'[<<"screen", 0>>] \in 0..MaxLight /\ regs'[<<"light", 0>>] \in 0..MaxLight
       /\ regs'[<<"tdp", 0>>] \in 1..3
       /\ regs'[<<"start", 0>>] \in 0..100 /\ regs'[<<"end", 0>>] \in 0..100
  <2>1. /\ regs[<<"screen", 0>>] \in 0..MaxLight /\ regs[<<"light", 0>>] \in 0..MaxLight
        /\ regs[<<"tdp", 0>>] \in 1..3
        /\ regs[<<"start", 0>>] \in 0..100 /\ regs[<<"end", 0>>] \in 0..100
    BY DEF MachineTypes
  <2> QED  BY <1>3, <1>7, <1>8, <2>1 DEF Prof!Singles
<1>16. w.file[1] # "smt" => Prof!Online' = Prof!Online
  BY <1>5 DEF Prof!Online
<1>17. \/ \A c \in Cpus : regs'[<<"lo", c>>] = HwMin /\ regs'[<<"hi", c>>] = HwMax
       \/ w.file[1] \in {"lo", "hi"}
       \/ \A c \in Cpus : UNCHANGED <<regs[<<"lo", c>>], regs[<<"hi", c>>]>>
  BY <1>4, <1>7
<1>18. MachineTypes'
  BY <1>2, <1>10, <1>11, <1>12, <1>13, <1>14, <1>15 DEF MachineTypes
<1>19. InOrder'
  BY <1>10 DEF InOrder
<1> QED  BY <1>16, <1>17, <1>18, <1>19

-----------------------------------------------------------------------------
\* What a setting wants of the files of a name, and a write that is no obstacle to it.
Wanted(s) ==
  CASE s.do = "mode" -> {<<"mode", s.to>>}
    [] s.do = "governor" -> {<<"gov", s.to>>}
    [] s.do = "limits" -> {<<"lo", Prof!Lo(s)>>, <<"hi", Prof!Hi(s)>>}
    [] s.do \in {"epp", "boost", "smt"} -> {<<s.do, s.to>>}
    [] s.do = "screen" -> {<<"screen", Prof!Percent(s.to)>>}
    [] s.do = "keyboard" -> IF s.on THEN {<<"light", Prof!Percent(s.light)>>} ELSE {}
    [] s.do = "battery" -> IF s.on THEN {<<"start", s.start>>, <<"end", s.end>>} ELSE {}
    [] OTHER -> {}

Leaves(e, x) ==
  /\ Writing(e, {x[1]}) => e.value = x[2]
  /\ x[1] \in {"gov", "lo", "hi"} => ~Writing(e, {"mode"}) /\ e.do # "limits"

Targets(name) == IF name \in Prof!Kinds THEN 0..Prof!Count-1 ELSE {0}

\* The plan of a setting writes all that is wanted, and nothing else.
Serves(p, s, soft) ==
  /\ PlanShape(p)
  /\ \A e \in Items(p) : e.do = "write" => e.file[1] \in FilesOf(s.do)
  /\ \A e \in Items(p), x \in Wanted(s) : Leaves(e, x)
  /\ \A x \in Wanted(s) : \A c \in Targets(x[1]) : Prof!W(<<x[1], c>>, x[2], soft) \in Items(p)

\* The plan of the limits writes both to every CPU that is counted, and then the flag.
LEMMA LimitsServe ==
  ASSUME StepBounds, MachineTypes, NEW s, s.do = "limits", s.from \in Int, s.to \in Int,
         NEW soft \in {"no", "group"}
  PROVE  /\ Serves(Prof!Limits(s, soft), s, soft)
         /\ \A e \in Items(Prof!Limits(s, soft)) : e.do # "limits"
<1>1. PICK n : n = Prof!Count
  OBVIOUS
<1>2. n \in Nat \ {0}
  BY <1>1, Counted
<1>3. PICK lo, hi : lo = Prof!Lo(s) /\ hi = Prof!Hi(s)
  OBVIOUS
<1>4. PICK maxFirst \in BOOLEAN : maxFirst = (Prof!Hi(s) < regs[<<"hi", 0>>] \/ Prof!Lo(s) > regs[<<"lo", 0>>])
  OBVIOUS
<1> DEFINE of(c, max) == Prof!W(<<IF max THEN "hi" ELSE "lo", c>>, IF max THEN hi ELSE lo, soft)
           f == [i \in 1..2*n |-> of((i - 1) \div 2, (i % 2 = 1) = maxFirst)]
           p == Append(f, Prof!Done(soft))
<1>5. Prof!Limits(s, soft) = p
  BY <1>1, <1>3, <1>4, Zenon DEF Prof!Limits
<1>6. 2*n \in Nat /\ \A i \in 1..2*n : f[i] = of((i - 1) \div 2, (i % 2 = 1) = maxFirst)
  BY <1>2
<1>7. PICK S : f \in Seq(S) /\ Len(f) = 2*n
  <2>1. f = [i \in 1..2*n |-> f[i]]
    OBVIOUS
  <2> HIDE DEF f
  <2> QED  BY <1>6, <2>1, SeqOfItems
<1> HIDE DEF f
<1>8. f \in Seq(S \cup {Prof!Done(soft)})
  BY <1>7
<1>9. /\ p \in Seq(S \cup {Prof!Done(soft)}) /\ Len(p) = 2*n + 1
      /\ p[2*n+1] = Prof!Done(soft) /\ \A i \in 1..2*n : p[i] = f[i]
  BY <1>6, <1>7, <1>8, AppendProperties
<1> HIDE DEF p
<1>10. ASSUME NEW i \in 1..2*n
       PROVE  /\ p[i].do = "write" /\ p[i].soft = soft
              /\ \E c \in 0..n-1 : \/ p[i].file = <<"lo", c>> /\ p[i].value = lo
                                   \/ p[i].file = <<"hi", c>> /\ p[i].value = hi
  <2>1. PICK c, max : c = (i - 1) \div 2 /\ max = ((i % 2 = 1) = maxFirst)
    OBVIOUS
  <2>2. c \in 0..n-1
    BY <1>2, <2>1
  <2>3. p[i] = of(c, max)
    BY <1>6, <1>9, <2>1
  <2>4. CASE max
    BY <2>2, <2>3, <2>4 DEF Prof!W
  <2>5. CASE ~max
    BY <2>2, <2>3, <2>5 DEF Prof!W
  <2> QED  BY <2>4, <2>5
<1>11. ASSUME NEW c \in 0..n-1
       PROVE  /\ Prof!W(<<"lo", c>>, lo, soft) \in Items(p)
              /\ Prof!W(<<"hi", c>>, hi, soft) \in Items(p)
  <2>1. /\ 2*c + 1 \in 1..2*n /\ ((2*c + 1) - 1) \div 2 = c /\ (2*c + 1) % 2 = 1
        /\ 2*c + 2 \in 1..2*n /\ ((2*c + 2) - 1) \div 2 = c /\ (2*c + 2) % 2 = 0
    BY <1>2
  <2>2. PICK i, j \in 1..2*n : /\ (i - 1) \div 2 = c /\ i % 2 = 1
                              /\ (j - 1) \div 2 = c /\ j % 2 = 0
    BY <2>1
  <2>3. p[i] = of(c, TRUE = maxFirst) /\ p[j] = of(c, FALSE = maxFirst)
    BY <1>6, <1>9, <2>2
  <2>4. of(c, TRUE) \in Items(p) /\ of(c, FALSE) \in Items(p)
    <3>1. p[i] \in Items(p) /\ p[j] \in Items(p)
      BY <1>6, <1>9, <2>2 DEF Items
    <3>2. CASE maxFirst = TRUE
      BY <2>3, <3>1, <3>2
    <3>3. CASE maxFirst = FALSE
      BY <2>3, <3>1, <3>3
    <3> QED  BY <3>2, <3>3
  <2>5. of(c, TRUE) = Prof!W(<<"hi", c>>, hi, soft) /\ of(c, FALSE) = Prof!W(<<"lo", c>>, lo, soft)
    OBVIOUS
  <2> QED  BY <2>4, <2>5
<1>12. Prof!Done(soft).do = "flag" /\ Prof!Done(soft).soft = soft
  BY DEF Prof!Done
<1>13. \A e \in Items(p) : e = Prof!Done(soft) \/ \E i \in 1..2*n : e = p[i]
  BY <1>7, <1>9 DEF Items
<1>14. PlanShape(p)
  <2>1. IsSeq(p)
    BY <1>9 DEF IsSeq
  <2>2. \A e \in Items(p) : IsItem(e)
    <3>1. ASSUME NEW i \in 1..2*n  PROVE IsItem(p[i])
      BY <1>10 DEF IsItem, Writing
    <3>2. IsItem(Prof!Done(soft))
      BY <1>12 DEF IsItem, Writing
    <3> QED  BY <1>13, <3>1, <3>2
  <2>3. \A e \in Items(p) : e.do = "write" => e.file[1] \in {"lo", "hi"}
    BY <1>10, <1>12, <1>13
  <2>4. \A i \in 1..Len(p) : p[i].soft = soft
    BY <1>7, <1>9, <1>10, <1>12
  <2>5. \A i \in 1..Len(p) : p[i].do = "flag" => i = Len(p)
    BY <1>7, <1>9, <1>10
  <2>6. p[Len(p)].do = "flag"
    BY <1>9, <1>12
  <2>7. FilesOf("limits") = {"lo", "hi"}
    BY DEF FilesOf
  <2>8. \E k : \A e \in Items(p) : e.do = "write" => e.file[1] \in FilesOf(k)
    BY <2>3, <2>7
  <2> QED  BY <2>1, <2>2, <2>3, <2>4, <2>5, <2>6, <2>8 DEF PlanShape
<1>15. Wanted(s) = {<<"lo", lo>>, <<"hi", hi>>}
  BY <1>3 DEF Wanted
<1>16. ASSUME NEW e \in Items(p)
       PROVE  /\ e.do = "write" => e.file[1] \in FilesOf(s.do)
              /\ \A x \in Wanted(s) : Leaves(e, x)
              /\ e.do # "limits"
  <2>1. FilesOf(s.do) = {"lo", "hi"}
    BY DEF FilesOf
  <2>2. CASE e = Prof!Done(soft)
    BY <1>12, <2>2 DEF Leaves, Writing
  <2>3. ASSUME NEW i \in 1..2*n, e = p[i]
        PROVE  /\ e.do = "write" /\ e.file[1] \in {"lo", "hi"}
               /\ \A x \in Wanted(s) : Leaves(e, x)
    <3>1. PICK c \in 0..n-1 : \/ e.file = <<"lo", c>> /\ e.value = lo
                              \/ e.file = <<"hi", c>> /\ e.value = hi
      BY <1>10, <2>3
    <3>2. e.do = "write"
      BY <1>10, <2>3
    <3> QED  BY <1>15, <3>1, <3>2 DEF Leaves, Writing
  <2> QED  BY <1>13, <2>1, <2>2, <2>3
<1>17. Targets("lo") = 0..n-1 /\ Targets("hi") = 0..n-1
  BY <1>1 DEF Targets, Prof!Kinds
<1>18. \A x \in Wanted(s) : \A c \in Targets(x[1]) : Prof!W(<<x[1], c>>, x[2], soft) \in Items(p)
  <2>1. \A x \in Wanted(s) : (x[1] = "lo" /\ x[2] = lo) \/ (x[1] = "hi" /\ x[2] = hi)
    BY <1>15
  <2> QED  BY <1>11, <1>17, <2>1
<1> QED  BY <1>5, <1>14, <1>16, <1>18 DEF Serves

\* A plan without limits needs no flag.
LEMMA PlainShape ==
  ASSUME NEW p, NEW k, IsSeq(p),
         \A e \in Items(p) : /\ IsItem(e) /\ e.do # "flag" /\ ~Writing(e, {"lo", "hi"})
                             /\ e.do = "write" => e.file[1] \in FilesOf(k),
         \A i, j \in 1..Len(p) : i < j /\ p[i].soft = "group" => p[j].soft = "group"
  PROVE  PlanShape(p)
<1>1. \A i \in 1..Len(p) : p[i] \in Items(p)
  BY DEF Items
<1> QED  BY <1>1 DEF PlanShape

LEMMA ShortPlans ==
  /\ \A a : IsSeq(<<a>>) /\ Items(<<a>>) = {a}
  /\ \A a, b : IsSeq(<<a, b>>) /\ Items(<<a, b>>) = {a, b}
  /\ \A a, b, c : IsSeq(<<a, b, c>>) /\ Items(<<a, b, c>>) = {a, b, c}
<1>1. ASSUME NEW a  PROVE IsSeq(<<a>>) /\ Items(<<a>>) = {a}
  <2>1. PICK p : p = <<a>>
    OBVIOUS
  <2>2. p \in Seq({a}) /\ Len(p) = 1 /\ p[1] = a /\ 1..1 = {1}
    BY <2>1
  <2> QED  BY <2>1, <2>2 DEF IsSeq, Items
<1>2. ASSUME NEW a, NEW b  PROVE IsSeq(<<a, b>>) /\ Items(<<a, b>>) = {a, b}
  <2>1. PICK p : p = <<a, b>>
    OBVIOUS
  <2>2. p \in Seq({a, b}) /\ Len(p) = 2 /\ p[1] = a /\ p[2] = b /\ 1..2 = {1, 2}
    BY <2>1
  <2> QED  BY <2>1, <2>2 DEF IsSeq, Items
<1>3. ASSUME NEW a, NEW b, NEW c  PROVE IsSeq(<<a, b, c>>) /\ Items(<<a, b, c>>) = {a, b, c}
  <2>1. PICK p : p = <<a, b, c>>
    OBVIOUS
  <2>2. /\ p \in Seq({a, b, c}) /\ Len(p) = 3 /\ p[1] = a /\ p[2] = b /\ p[3] = c
        /\ 1..3 = {1, 2, 3}
    BY <2>1
  <2> QED  BY <2>1, <2>2 DEF IsSeq, Items
<1> QED  BY <1>1, <1>2, <1>3

\* The writes to every CPU, with some more of the same before them.
LEMMA EachServes ==
  ASSUME StepBounds, MachineTypes, NEW kind \in {"gov", "epp"}, NEW v, NEW s,
         Wanted(s) = {<<kind, v>>}, kind \in FilesOf(s.do), kind = "epp" => v \in Prof!EppValues,
         NEW p, \/ p = Prof!OnEach(kind, v)
                \/ p = <<Prof!W(<<kind, 0>>, v, "no")>> \o Prof!OnEach(kind, v)
  PROVE  Serves(p, s, "no") /\ \A e \in Items(p) : e.do = "write"
<1>1. PICK n : n = Prof!Count
  OBVIOUS
<1>2. n \in Nat
  BY <1>1, Counted
<1>3. PICK a : a = Prof!W(<<kind, 0>>, v, "no")
  OBVIOUS
<1>4. PICK q : q = Prof!OnEach(kind, v)
  OBVIOUS
<1>5. q = [i \in 1..n |-> Prof!W(<<kind, i - 1>>, v, "no")]
  BY <1>1, <1>4 DEF Prof!OnEach
<1>6. PICK S : q \in Seq(S) /\ Len(q) = n
  <2>1. q = [i \in 1..n |-> q[i]]
    BY <1>5
  <2> QED  BY <1>2, <2>1, SeqOfItems
<1>7. PICK r : r = <<a>> \o q
  OBVIOUS
<1>8. /\ r \in Seq(S \cup {a}) /\ Len(r) = n + 1
      /\ r[1] = a /\ \A i \in 2..n+1 : r[i] = q[i-1]
  <2>1. <<a>> \in Seq(S \cup {a}) /\ q \in Seq(S \cup {a}) /\ Len(<<a>>) = 1 /\ <<a>>[1] = a
    BY <1>6
  <2>2. PICK b : b = <<a>>
    OBVIOUS
  <2>3. /\ b \o q \in Seq(S \cup {a}) /\ Len(b \o q) = 1 + n
        /\ \A i \in 1..1+n : (b \o q)[i] = IF i <= 1 THEN b[i] ELSE q[i-1]
    BY <1>2, <1>6, <2>1, <2>2, ConcatProperties
  <2> QED  BY <1>2, <1>7, <2>1, <2>2, <2>3
<1>9. \A i \in 1..n : q[i] = Prof!W(<<kind, i - 1>>, v, "no")
  BY <1>5
<1>10. ASSUME NEW c \in 0..n-1  PROVE Prof!W(<<kind, c>>, v, "no") \in Items(q) /\ Items(q) \subseteq Items(r)
  <2>1. c + 1 \in 1..n /\ (c + 1) - 1 = c
    BY <1>2
  <2>2. Prof!W(<<kind, c>>, v, "no") \in Items(q)
    BY <1>6, <1>9, <2>1 DEF Items
  <2>3. ASSUME NEW i \in 1..n  PROVE q[i] \in Items(r)
    <3>1. i + 1 \in 2..n+1 /\ (i + 1) - 1 = i /\ i + 1 \in 1..n+1
      BY <1>2
    <3> QED  BY <1>2, <1>8, <3>1 DEF Items
  <2> QED  BY <1>6, <2>2, <2>3 DEF Items
<1>11. p = q \/ p = r
  BY <1>3, <1>4, <1>7
<1>12. ASSUME NEW e \in Items(p)  PROVE \E c : e = Prof!W(<<kind, c>>, v, "no")
  <2>1. CASE p = q
    BY <1>6, <1>9, <1>12, <2>1 DEF Items
  <2>2. CASE p = r
    <3>1. PICK i \in 1..n+1 : e = r[i]
      BY <1>8, <1>12, <2>2 DEF Items
    <3>2. CASE i = 1
      BY <1>3, <1>8, <3>1, <3>2
    <3>3. CASE i # 1
      <4>1. i \in 2..n+1 /\ i - 1 \in 1..n
        BY <1>2, <3>3
      <4> QED  BY <1>8, <1>9, <3>1, <4>1
    <3> QED  BY <3>2, <3>3
  <2> QED  BY <1>11, <2>1, <2>2
<1>13. ASSUME NEW e \in Items(p)
       PROVE  /\ e.do = "write" /\ e.soft = "no" /\ e.file[1] = kind /\ e.value = v
              /\ IsItem(e) /\ \A x \in Wanted(s) : Leaves(e, x)
  <2>1. e.do = "write" /\ e.soft = "no" /\ e.file[1] = kind /\ e.value = v
    BY <1>12 DEF Prof!W
  <2> QED  BY <2>1 DEF IsItem, Writing, Leaves
<1>14. PlanShape(p)
  <2>1. IsSeq(p)
    BY <1>6, <1>8, <1>11 DEF IsSeq
  <2>2. \A i \in 1..Len(p) : p[i].soft = "no"
    BY <1>13 DEF Items
  <2> QED  BY <1>13, <2>1, <2>2, PlainShape DEF Writing
<1>15. \A c \in Targets(kind) : Prof!W(<<kind, c>>, v, "no") \in Items(p)
  BY <1>1, <1>10, <1>11 DEF Targets, Prof!Kinds
<1> QED  BY <1>13, <1>14, <1>15 DEF Serves

Doomed == <<Prof!W(<<"none", 0>>, 0, "no")>>
Before0 == [do |-> "limits", from |-> regs[<<"lo", 0>>], to |-> regs[<<"hi", 0>>], soft |-> "group"]

\* What the turn of a setting makes of the plan.
TurnOf(p, s) ==
  /\ PlanShape(p)
  /\ \A e \in Items(p) : e.do = "write" => e.file[1] \in FilesOf(s.do)
  /\ \A e \in Items(p), x \in Wanted(s) : Leaves(e, x)
  /\ \/ Serves(p, s, "no")
     \/ p = Doomed
     \/ s.do = "governor" /\ s.to \notin Offered[regs[<<"mode", 0>>]] /\ p = <<>>
  /\ IF s.do = "mode" THEN Before0 \in Items(p) ELSE \A e \in Items(p) : e.do # "limits"

LEMMA ServesTurn ==
  ASSUME NEW p, NEW s, s.do # "mode", Serves(p, s, "no"), \A e \in Items(p) : e.do # "limits"
  PROVE  TurnOf(p, s)
  BY DEF Serves, TurnOf

\* The turn of a setting, whichever it is, makes a plan that serves it.
LEMMA TurnServes ==
  ASSUME StepBounds, MachineTypes, NEW s, IsSetting(s)  PROVE TurnOf(Prof!Writes(s), s)
<1> DEFINE p == Prof!Writes(s)
<1> USE ShortPlans
<1>1. ASSUME NEW f, NEW v, NEW soft
      PROVE  LET w == Prof!W(f, v, soft)
             IN  w.do = "write" /\ w.file = f /\ w.value = v /\ w.soft = soft
  BY DEF Prof!W
<1>2. ASSUME s.do = "mode"  PROVE TurnOf(p, s)
  <2>1. PICK w : w = Prof!W(<<"mode", 0>>, s.to, "no")
    OBVIOUS
  <2>2. p = <<w, Before0>>
    BY <1>2, <2>1 DEF Prof!Writes, Prof!Mode, Before0
  <2>3. w.do = "write" /\ w.file = <<"mode", 0>> /\ w.value = s.to /\ w.soft = "no"
    BY <1>1, <2>1
  <2>4. /\ Before0.do = "limits" /\ Before0.soft = "group"
        /\ Before0.from \in HwMin..HwMax /\ Before0.to \in HwMin..HwMax
    BY FilesThere DEF Before0, MachineTypes
  <2> HIDE DEF p
  <2>5. IsSeq(p) /\ Items(p) = {w, Before0} /\ p[1] = w /\ p[2] = Before0 /\ Len(p) = 2
    BY <2>2
  <2>6. Wanted(s) = {<<"mode", s.to>>} /\ FilesOf(s.do) = {"mode"} /\ Targets("mode") = {0}
    BY <1>2 DEF Wanted, FilesOf, Targets, Prof!Kinds
  <2>7. IsItem(w) /\ IsItem(Before0)
    BY <2>3, <2>4 DEF IsItem, Writing
  <2>8. \A e \in Items(p) : e.do = "write" => e.file[1] \in FilesOf(s.do)
    BY <2>3, <2>4, <2>5, <2>6
  <2>9. \A e \in Items(p), x \in Wanted(s) : Leaves(e, x)
    BY <2>3, <2>4, <2>5, <2>6 DEF Leaves, Writing
  <2>10. PlanShape(p)
    <3>1. \A i, j \in 1..Len(p) : i < j /\ p[i].soft = "group" => p[j].soft = "group"
      BY <2>4, <2>5
    <3>2. \A e \in Items(p) : IsItem(e) /\ e.do # "flag" /\ ~Writing(e, {"lo", "hi"})
      BY <2>3, <2>4, <2>5, <2>7 DEF Writing
    <3> QED  BY <2>5, <2>8, <3>1, <3>2, PlainShape
  <2>11. Serves(p, s, "no")
    BY <2>1, <2>5, <2>6, <2>8, <2>9, <2>10 DEF Serves
  <2> QED  BY <1>2, <2>5, <2>8, <2>9, <2>10, <2>11 DEF TurnOf
<1>3. ASSUME s.do \notin {"mode", "governor", "limits"},
             IsSeq(p), \A i, j \in 1..Len(p) : i < j => p[i].soft # "group",
             \A e \in Items(p) : /\ e.do = "write" /\ IsItem(e) /\ e.file[1] \in FilesOf(s.do)
                                 /\ \A x \in Wanted(s) : Leaves(e, x),
             \A x \in Wanted(s) : Prof!W(<<x[1], 0>>, x[2], "no") \in Items(p) /\ x[1] \notin Prof!Kinds
      PROVE  TurnOf(p, s)
  <2> HIDE DEF p
  <2>1. FilesOf(s.do) \cap {"lo", "hi"} = {}
    BY <1>3 DEF FilesOf
  <2>2. PlanShape(p)
    BY <1>3, <2>1, PlainShape DEF Writing
  <2>3. Serves(p, s, "no")
    BY <1>3, <2>2 DEF Serves, Targets
  <2> QED  BY <1>3, <2>3, ServesTurn
<1>4. ASSUME s.do = "governor"  PROVE TurnOf(p, s)
  <2>1. Wanted(s) = {<<"gov", s.to>>} /\ FilesOf(s.do) = {"gov"}
    BY <1>4 DEF Wanted, FilesOf
  <2>2. p = Prof!Governor(s.to)
    BY <1>4 DEF Prof!Writes
  <2> HIDE DEF p
  <2>3. CASE s.to \in Prof!Allowlist /\ s.to \notin Offered[regs[<<"mode", 0>>]]
    <3>1. p = <<>>
      BY <2>2, <2>3 DEF Prof!Governor
    <3> QED  BY <1>4, <2>3, <3>1, NothingLeft DEF TurnOf
  <2>4. CASE ~(s.to \in Prof!Allowlist /\ s.to \notin Offered[regs[<<"mode", 0>>]])
    <3>1. p = <<Prof!W(<<"gov", 0>>, s.to, "no")>> \o Prof!OnEach("gov", s.to)
      BY <2>2, <2>4 DEF Prof!Governor
    <3>2. Serves(p, s, "no") /\ \A e \in Items(p) : e.do = "write"
      BY <2>1, <3>1, EachServes
    <3> QED  BY <1>4, <3>2, ServesTurn
  <2> QED  BY <2>3, <2>4
<1>5. ASSUME s.do = "limits"  PROVE TurnOf(p, s)
  <2>1. p = Prof!Limits(s, "no") /\ s.from \in Int /\ s.to \in Int
    BY <1>5 DEF Prof!Writes, IsSetting
  <2> HIDE DEF p
  <2>2. Serves(p, s, "no") /\ \A e \in Items(p) : e.do # "limits"
    BY <1>5, <2>1, LimitsServe
  <2> QED  BY <1>5, <2>2, ServesTurn
<1>6. ASSUME s.do = "epp"  PROVE TurnOf(p, s)
  <2>1. Wanted(s) = {<<"epp", s.to>>} /\ FilesOf(s.do) = {"epp", "none"}
    BY <1>6 DEF Wanted, FilesOf
  <2>2. CASE s.to \in Prof!EppValues
    <3>1. p = Prof!OnEach("epp", s.to)
      BY <1>6, <2>2 DEF Prof!Writes
    <3> HIDE DEF p
    <3>2. Serves(p, s, "no") /\ \A e \in Items(p) : e.do = "write"
      BY <2>1, <2>2, <3>1, EachServes
    <3> QED  BY <1>6, <3>2, ServesTurn
  <2>3. CASE s.to \notin Prof!EppValues
    <3>1. p = Doomed
      BY <1>6, <2>3 DEF Prof!Writes, Doomed
    <3> HIDE DEF p
    <3>2. PICK w : w = Prof!W(<<"none", 0>>, 0, "no")
      OBVIOUS
    <3>3. w.do = "write" /\ w.file[1] = "none" /\ w.soft = "no"
      BY <1>1, <3>2
    <3>4. IsSeq(p) /\ Items(p) = {w} /\ Len(p) = 1
      BY <3>1, <3>2 DEF Doomed
    <3>5. IsItem(w) /\ \A x \in Wanted(s) : Leaves(w, x)
      BY <2>1, <3>3 DEF IsItem, Writing, Leaves
    <3>6. PlanShape(p)
      <4>1. \A i, j \in 1..Len(p) : ~(i < j)
        BY <3>4
      <4> QED  BY <1>6, <2>1, <3>3, <3>4, <3>5, <4>1, PlainShape DEF Writing
    <3> QED  BY <1>6, <2>1, <3>1, <3>3, <3>4, <3>5, <3>6 DEF TurnOf
  <2> QED  BY <2>2, <2>3
<1>7. ASSUME s.do \in {"boost", "smt", "tdp"}  PROVE TurnOf(p, s)
  <2>1. PICK v, w : w = Prof!W(<<s.do, 0>>, v, "no") /\ p = <<w>> /\ (s.do # "tdp" => v = s.to)
    <3>1. CASE s.do = "tdp"
      BY <3>1 DEF Prof!Writes, Prof!Tdp
    <3>2. CASE s.do \in {"boost", "smt"}
      BY <3>2 DEF Prof!Writes
    <3> QED  BY <1>7, <3>1, <3>2
  <2>2. w.do = "write" /\ w.file[1] = s.do /\ w.value = v /\ w.soft = "no"
    BY <1>1, <2>1
  <2>3. IsSeq(p) /\ Items(p) = {w} /\ Len(p) = 1
    BY <2>1
  <2>4. /\ FilesOf(s.do) = {s.do}
        /\ Wanted(s) = IF s.do = "tdp" THEN {} ELSE {<<s.do, s.to>>}
    BY <1>7 DEF FilesOf, Wanted
  <2>5. IsItem(w) /\ \A x \in Wanted(s) : Leaves(w, x)
    BY <1>7, <2>1, <2>2, <2>4 DEF IsItem, Writing, Leaves
  <2> HIDE DEF p
  <2>6. \A i, j \in 1..Len(p) : ~(i < j)
    BY <2>3
  <2> QED  BY <1>3, <1>7, <2>1, <2>2, <2>3, <2>4, <2>5, <2>6 DEF Prof!Kinds
<1>8. ASSUME s.do = "screen"  PROVE TurnOf(p, s)
  <2>1. PICK v, w, u : /\ v = Prof!Percent(s.to) /\ p = <<w, u>>
                       /\ w = Prof!W(<<"actual", 0>>, v, "each") /\ u = Prof!W(<<"screen", 0>>, v, "no")
    BY <1>8 DEF Prof!Writes
  <2>2. /\ w.do = "write" /\ w.file[1] = "actual" /\ w.soft = "each"
        /\ u.do = "write" /\ u.file[1] = "screen" /\ u.value = v /\ u.soft = "no"
    BY <1>1, <2>1
  <2>3. IsSeq(p) /\ Items(p) = {w, u} /\ Len(p) = 2 /\ p[1] = w /\ p[2] = u
    BY <2>1
  <2>4. FilesOf(s.do) = {"screen", "actual"} /\ Wanted(s) = {<<"screen", v>>}
    BY <1>8, <2>1 DEF FilesOf, Wanted
  <2>5. \A e \in {w, u} : IsItem(e) /\ \A x \in Wanted(s) : Leaves(e, x)
    BY <2>2, <2>4 DEF IsItem, Writing, Leaves
  <2> HIDE DEF p
  <2>6. \A i, j \in 1..Len(p) : i < j => p[i].soft # "group"
    BY <2>2, <2>3
  <2> QED  BY <1>3, <1>8, <2>1, <2>2, <2>3, <2>4, <2>5, <2>6 DEF Prof!Kinds
<1>9. ASSUME s.do = "keyboard"  PROVE TurnOf(p, s)
  <2>1. s.on \in BOOLEAN /\ FilesOf(s.do) = {"ledmode", "colour", "light"}
    BY <1>9 DEF IsSetting, FilesOf
  <2>2. p = Prof!Keyboard(s)
    BY <1>9 DEF Prof!Writes
  <2>3. CASE ~s.on
    <3>1. PICK w, u : /\ w = Prof!W(<<"colour", 0>>, "white", "each")
                      /\ u = Prof!W(<<"light", 0>>, Prof!Percent(50), "group")
      OBVIOUS
    <3>2. /\ w.do = "write" /\ w.file[1] = "colour" /\ w.soft = "each"
          /\ u.do = "write" /\ u.file[1] = "light" /\ u.soft = "group"
      BY <1>1, <3>1
    <3>3. p = <<w, u>>
      BY <2>2, <2>3, <3>1 DEF Prof!Keyboard
    <3>4. IsSeq(p) /\ Items(p) = {w, u} /\ Len(p) = 2 /\ p[1] = w /\ p[2] = u
      BY <3>3
    <3>5. Wanted(s) = {}
      BY <1>9, <2>3 DEF Wanted
    <3>6. \A e \in {w, u} : IsItem(e)
      BY <3>2 DEF IsItem, Writing
    <3> HIDE DEF p
    <3>7. \A i, j \in 1..Len(p) : i < j => p[i].soft # "group"
      BY <3>2, <3>4
    <3> QED  BY <1>3, <1>9, <2>1, <3>2, <3>4, <3>5, <3>6, <3>7
  <2>4. CASE s.on
    <3>1. PICK v, w, u, d :
            /\ v = Prof!Percent(s.light)
            /\ w = Prof!W(<<"ledmode", 0>>, s.effect, "no") /\ u = Prof!W(<<"colour", 0>>, s.colour, "each")
            /\ d = Prof!W(<<"light", 0>>, v, "no")
      OBVIOUS
    <3>2. /\ w.do = "write" /\ w.file[1] = "ledmode" /\ w.soft = "no"
          /\ u.do = "write" /\ u.file[1] = "colour" /\ u.soft = "each"
          /\ d.do = "write" /\ d.file[1] = "light" /\ d.soft = "no" /\ d.value = v
      BY <1>1, <3>1
    <3>3. p = <<u, d>> \/ p = <<w, u, d>>
      <4>1. CASE s.effect = 0
        BY <2>2, <2>4, <3>1, <4>1 DEF Prof!Keyboard
      <4>2. CASE s.effect # 0
        BY <2>2, <2>4, <3>1, <4>2 DEF Prof!Keyboard
      <4> QED  BY <4>1, <4>2
    <3>4. IsSeq(p) /\ Items(p) \subseteq {w, u, d} /\ d \in Items(p)
      BY <3>3
    <3>5. Wanted(s) = {<<"light", v>>}
      BY <1>9, <2>4, <3>1 DEF Wanted
    <3>6. \A e \in {w, u, d} : IsItem(e) /\ \A x \in Wanted(s) : Leaves(e, x)
      BY <3>2, <3>5 DEF IsItem, Writing, Leaves
    <3> HIDE DEF p
    <3>7. \A i \in 1..Len(p) : p[i].soft # "group"
      BY <3>2, <3>4 DEF Items
    <3> QED  BY <1>3, <1>9, <2>1, <3>1, <3>2, <3>4, <3>5, <3>6, <3>7 DEF Prof!Kinds
  <2> QED  BY <2>1, <2>3, <2>4
<1>10. ASSUME s.do = "battery"  PROVE TurnOf(p, s)
  <2>1. s.on \in BOOLEAN /\ FilesOf(s.do) = {"charge", "start", "end"}
    BY <1>10 DEF IsSetting, FilesOf
  <2>2. p = Prof!Battery(s)
    BY <1>10 DEF Prof!Writes
  <2>3. CASE ~s.on
    <3>1. PICK w : w = Prof!W(<<"charge", 0>>, "Standard", "no")
      OBVIOUS
    <3>2. w.do = "write" /\ w.file[1] = "charge" /\ w.soft = "no"
      BY <1>1, <3>1
    <3>3. p = <<w>>
      BY <2>2, <2>3, <3>1 DEF Prof!Battery
    <3>4. IsSeq(p) /\ Items(p) = {w} /\ Len(p) = 1
      BY <3>3
    <3>5. Wanted(s) = {} /\ IsItem(w)
      BY <1>10, <2>3, <3>2 DEF Wanted, IsItem, Writing
    <3> HIDE DEF p
    <3>6. \A i, j \in 1..Len(p) : ~(i < j)
      BY <3>4
    <3> QED  BY <1>3, <1>10, <2>1, <3>2, <3>4, <3>5, <3>6
  <2>4. CASE s.on
    <3>1. PICK w, u, d :
            /\ w = Prof!W(<<"charge", 0>>, "Custom", "no") /\ u = Prof!W(<<"start", 0>>, s.start, "no")
            /\ d = Prof!W(<<"end", 0>>, s.end, "no")
      OBVIOUS
    <3>2. /\ w.do = "write" /\ w.file[1] = "charge" /\ w.soft = "no"
          /\ u.do = "write" /\ u.file[1] = "start" /\ u.soft = "no" /\ u.value = s.start
          /\ d.do = "write" /\ d.file[1] = "end" /\ d.soft = "no" /\ d.value = s.end
      BY <1>1, <3>1
    <3>3. p = <<w, u, d>>
      BY <2>2, <2>4, <3>1 DEF Prof!Battery
    <3>4. IsSeq(p) /\ Items(p) = {w, u, d}
      BY <3>3
    <3>5. Wanted(s) = {<<"start", s.start>>, <<"end", s.end>>}
      BY <1>10, <2>4 DEF Wanted
    <3>6. \A e \in {w, u, d} : IsItem(e) /\ \A x \in Wanted(s) : Leaves(e, x)
      BY <3>2, <3>5 DEF IsItem, Writing, Leaves
    <3>7. \A x \in Wanted(s) : /\ Prof!W(<<x[1], 0>>, x[2], "no") \in {u, d}
                              /\ x[1] \notin Prof!Kinds
      BY <3>1, <3>5 DEF Prof!Kinds
    <3> HIDE DEF p
    <3>8. \A i \in 1..Len(p) : p[i].soft # "group"
      BY <3>2, <3>4 DEF Items
    <3> QED  BY <1>3, <1>10, <2>1, <3>2, <3>4, <3>6, <3>7, <3>8
  <2> QED  BY <2>1, <2>3, <2>4
<1> QED  BY <1>2, <1>4, <1>5, <1>6, <1>7, <1>8, <1>9, <1>10 DEF IsSetting

-----------------------------------------------------------------------------
\* A name that a setting wants: what the CPUs have of it, or will have when the plan is done.
Got(x, cpus) == \A c \in IF x[1] \in Prof!Kinds THEN cpus ELSE {0} : regs[<<x[1], c>>] = x[2]

Made(t, x, soft) ==
  \/ Got(x, reached[t])
  \/ \A c \in Targets(x[1]) :
       \/ Prof!W(<<x[1], c>>, x[2], soft) \in Items(plan[t])
       \/ regs[<<x[1], c>>] = x[2] /\ (x[1] \in Prof!Kinds => c \in Prof!Online)

Names == {"mode", "gov", "lo", "hi", "epp", "boost", "smt", "screen", "light", "start", "end"}

LEMMA NamesHaveFiles ==
  ASSUME StepBounds
  PROVE  /\ \A k \in Names : k # "online" /\ \A c \in IF k \in Prof!Kinds THEN Cpus ELSE {0} : <<k, c>> \in Prof!Files
         /\ Prof!Kinds \subseteq Names
  BY FilesThere DEF Names, Prof!Kinds, Prof!Singles

LEMMA WantedNames ==
  ASSUME NEW s, IsSetting(s), NEW x \in Wanted(s)  PROVE x[1] \in Names /\ x[1] \in FilesOf(s.do)
<1>1. CASE s.do \in {"mode", "governor", "limits", "screen"}
  BY <1>1 DEF Wanted, Names, FilesOf
<1>2. CASE s.do \in {"epp", "boost", "smt"}
  BY <1>2 DEF Wanted, Names, FilesOf
<1>3. CASE s.do = "keyboard"
  BY <1>3 DEF Wanted, Names, FilesOf
<1>4. CASE s.do = "battery"
  BY <1>4 DEF Wanted, Names, FilesOf
<1>5. CASE s.do = "tdp"
  BY <1>5 DEF Wanted
<1> QED  BY <1>1, <1>2, <1>3, <1>4, <1>5 DEF IsSetting

\* When nothing is left to write, the CPUs have it.
LEMMA MadeIsGot ==
  ASSUME StepBounds, MachineTypes, NEW t, NEW x, NEW soft, reached[t] \subseteq Prof!Online,
         Made(t, x, soft), \A c : Prof!W(<<x[1], c>>, x[2], soft) \notin Items(plan[t])
  PROVE  Got(x, reached[t])
<1>1. CASE x[1] \notin Prof!Kinds
  BY <1>1 DEF Made, Got, Targets
<1>2. CASE x[1] \in Prof!Kinds /\ ~Got(x, reached[t])
  <2>1. \A c \in 0..Prof!Count-1 : regs[<<x[1], c>>] = x[2] /\ c \in Prof!Online
    BY <1>2 DEF Made, Targets
  <2>2. Prof!Online = 0..Prof!Count-1
    BY <2>1, Counted
  <2> QED  BY <1>2, <2>1, <2>2 DEF Got
<1> QED  BY <1>1, <1>2

\* A write of the plan leaves made what was: it takes effect on the CPU that it is for, or
\* on none, and nothing else in the plan undoes it.
LEMMA MadeWrites ==
  ASSUME StepBounds, MachineTypes, InOrder, NEW t \in Prof!Workers, PlanShape(plan[t]),
         DOMAIN plan = Prof!Workers, reached[t] \subseteq Prof!Online, Prof!WriteFile(t),
         NEW x, x[1] \in Names, NEW soft, \A e \in Items(plan[t]) : Leaves(e, x), Made(t, x, soft)
  PROVE  Made(t, x, soft)'
<1>1. PICK w : w = Head(plan[t])
  OBVIOUS
<1>2. PICK k : k = x[1]
  OBVIOUS
<1>3. /\ w.do = "write" /\ Prof!Guard(w) /\ Prof!Accepts(w) /\ regs' = Prof!After(w) /\ plan[t] # <<>>
      /\ plan'[t] = Tail(plan[t])
  BY <1>1 DEF Prof!WriteFile
<1>4. /\ w \in Items(plan[t]) /\ Items(plan[t]) = {w} \cup Items(plan'[t])
      /\ IsItem(w) /\ Leaves(w, x)
  BY <1>1, <1>3, FirstOfPlan DEF PlanShape
<1>5. reached'[t] = reached[t] \cap Prof!Online'
  BY DEF Prof!WriteFile, Prof!Online
<1>6. ASSUME NEW c, <<k, c>> \in Prof!Files
      PROVE  /\ w.file = <<k, c>> => regs'[<<k, c>>] = x[2]
             /\ regs[<<k, c>>] = x[2] => regs'[<<k, c>>] = x[2]
  <2>1. k # "online" /\ DOMAIN regs = Prof!Files
    BY <1>2, NamesHaveFiles DEF MachineTypes
  <2>2. IsLeft(w, k, c, regs'[<<k, c>>])
    BY <1>3, <1>6, <2>1, AfterWrite
  <2>3. w.file[1] = "mode" => k \notin {"gov", "lo", "hi"}
    BY <1>2, <1>3, <1>4 DEF Leaves, Writing
  <2>4. w.file = <<k, c>> => w.file[1] = k /\ w.value = x[2]
    BY <1>2, <1>3, <1>4 DEF Leaves, Writing
  <2> QED  BY <2>1, <2>2, <2>3, <2>4 DEF IsLeft
<1>7. CASE Got(x, reached[t])
  <2>1. \A c \in IF k \in Prof!Kinds THEN Cpus ELSE {0} : <<k, c>> \in Prof!Files
    BY <1>2, NamesHaveFiles
  <2>2. Prof!Online \subseteq Cpus
    BY DEF Prof!Online
  <2>3. Got(x, reached[t])'
    BY <1>2, <1>5, <1>6, <1>7, <2>1, <2>2 DEF Got, Prof!Kinds
  <2> QED  BY <2>3 DEF Made
<1>8. CASE k \notin Prof!Kinds
  <2>1. <<k, 0>> \in Prof!Files /\ Targets(k) = {0}
    BY <1>2, <1>8, NamesHaveFiles DEF Targets
  <2>2. Prof!W(<<k, 0>>, x[2], soft) \in Items(plan[t]) \/ regs[<<k, 0>>] = x[2]
    BY <1>2, <1>7, <1>8, <2>1 DEF Made, Got
  <2>3. Prof!W(<<k, 0>>, x[2], soft) = w => w.file = <<k, 0>>
    BY DEF Prof!W
  <2>4. Prof!W(<<k, 0>>, x[2], soft) \in Items(plan'[t]) \/ regs'[<<k, 0>>] = x[2]
    BY <1>4, <1>6, <2>1, <2>2, <2>3
  <2> QED  BY <1>2, <1>8, <2>4 DEF Made, Targets, Prof!Kinds
<1>9. CASE k \in Prof!Kinds /\ ~Got(x, reached[t])
  <2>1. PICK c \in 0..Prof!Count-1 : Prof!W(<<k, c>>, x[2], soft) \in Items(plan[t])
    <3> SUFFICES ASSUME \A c \in 0..Prof!Count-1 : Prof!W(<<k, c>>, x[2], soft) \notin Items(plan[t])
                 PROVE  FALSE
      OBVIOUS
    <3>1. \A c \in 0..Prof!Count-1 : regs[<<k, c>>] = x[2] /\ c \in Prof!Online
      BY <1>2, <1>9 DEF Made, Targets
    <3>2. Prof!Online = 0..Prof!Count-1
      BY <3>1, Counted
    <3> QED  BY <1>2, <1>9, <3>1, <3>2 DEF Got
  <2>2. w.file[1] # "smt" /\ w.file[1] # "online"
    <3>1. PICK f : \A e \in Items(plan[t]) : e.do = "write" => e.file[1] \in FilesOf(f)
      BY DEF PlanShape
    <3>2. k \in FilesOf(f)
      BY <2>1, <3>1 DEF Prof!W
    <3>3. w.file[1] \in FilesOf(f)
      BY <1>3, <1>4, <3>1
    <3> QED  BY <1>9, <3>2, <3>3 DEF FilesOf, Prof!Kinds
  <2>3. Prof!Online' = Prof!Online
    BY <1>3, <1>4, <2>2, MachineWrite
  <2>4. Prof!Count' = Prof!Count /\ Targets(k)' = 0..Prof!Count-1
    BY <1>9, <2>3 DEF Prof!Count, Targets, Prof!Kinds
  <2>5. ASSUME NEW c2 \in 0..Prof!Count-1
        PROVE  \/ Prof!W(<<k, c2>>, x[2], soft) \in Items(plan'[t])
               \/ regs'[<<k, c2>>] = x[2] /\ c2 \in Prof!Online'
    <3>1. \/ Prof!W(<<k, c2>>, x[2], soft) \in Items(plan[t])
          \/ regs[<<k, c2>>] = x[2] /\ c2 \in Prof!Online
      BY <1>2, <1>9 DEF Made, Targets
    <3>2. c2 \in Prof!Online => <<k, c2>> \in Prof!Files
      BY <1>2, <1>9, NamesHaveFiles DEF Prof!Online
    <3>3. CASE Prof!W(<<k, c2>>, x[2], soft) = w
      <4>1. w.file = <<k, c2>> /\ w.file[1] = k /\ w.file[2] = c2
        BY <3>3 DEF Prof!W
      <4>2. c2 \in Prof!Online
        BY <1>3, <1>9, <4>1 DEF Prof!Accepts
      <4> QED  BY <1>6, <2>3, <3>2, <4>1, <4>2
    <3>4. CASE Prof!W(<<k, c2>>, x[2], soft) # w
      BY <1>4, <1>6, <2>3, <3>1, <3>2, <3>4
    <3> QED  BY <3>3, <3>4
  <2> QED  BY <1>2, <1>9, <2>4, <2>5 DEF Made, Prof!Kinds
<1> QED  BY <1>2, <1>7, <1>8, <1>9

\* A setting whose turn has come: its plan writes or has written what it wants, and nothing
\* that is left undoes it, unless the call is bound to fail.
Settled(t, s) ==
  /\ \A e \in Items(plan[t]), x \in Wanted(s) : Leaves(e, x)
  /\ \/ \A x \in Wanted(s) : Made(t, x, "no")
     \/ plan[t] = Doomed
     \/ s.do = "governor" /\ s.to \notin Offered[regs[<<"mode", 0>>]]

LEMMA IsDoomed ==
  ASSUME NEW t, plan[t] = Doomed
  PROVE  /\ Head(plan[t]).do = "write" /\ Head(plan[t]).soft = "no" /\ Len(plan[t]) = 1
         /\ ~Prof!WriteFile(t)
<1>1. PICK w : w = Prof!W(<<"none", 0>>, 0, "no")
  OBVIOUS
<1>2. w.do = "write" /\ w.soft = "no" /\ w.file[1] = "none"
  BY <1>1 DEF Prof!W
<1>3. plan[t] = <<w>> /\ Head(plan[t]) = w /\ Len(plan[t]) = 1
  BY <1>1 DEF Doomed
<1>4. ~Prof!Guard(w)
  BY <1>2 DEF Prof!Guard
<1> QED  BY <1>2, <1>3, <1>4 DEF Prof!WriteFile

\* With the plan at its end, the machine is as it was asked.
LEMMA SettledIsAsked ==
  ASSUME StepBounds, MachineTypes, NEW t, NEW s, IsSetting(s), Settled(t, s), plan[t] = <<>>,
         reached[t] \subseteq Prof!Online
  PROVE  Prof!AsAsked(s, reached[t])
<1>1. plan[t] # Doomed
  BY IsDoomed
<1>2. CASE s.do = "governor" /\ s.to \notin Offered[regs[<<"mode", 0>>]]
  BY <1>2 DEF Prof!AsAsked
<1>3. CASE \A x \in Wanted(s) : Got(x, reached[t])
  <2>1. CASE s.do = "mode"
    <3>1. regs[<<"mode", 0>>] = s.to
      BY <1>3, <2>1 DEF Wanted, Got, Prof!Kinds
    <3>2. \A c \in reached[t] : regs[<<"online", c>>] = TRUE
      BY DEF Prof!Online
    <3> QED  BY <2>1, <3>1, <3>2 DEF Prof!AsAsked
  <2>2. CASE s.do = "governor"
    BY <1>3, <2>2 DEF Wanted, Got, Prof!Kinds, Prof!AsAsked
  <2>3. CASE s.do = "limits"
    BY <1>3, <2>3 DEF Wanted, Got, Prof!Kinds, Prof!AsAsked
  <2>4. CASE s.do = "epp"
    BY <1>3, <2>4 DEF Wanted, Got, Prof!Kinds, Prof!AsAsked
  <2>5. CASE s.do \in {"boost", "smt"}
    BY <1>3, <2>5 DEF Wanted, Got, Prof!Kinds, Prof!AsAsked
  <2>6. CASE s.do = "screen"
    BY <1>3, <2>6 DEF Wanted, Got, Prof!Kinds, Prof!AsAsked
  <2>7. CASE s.do = "keyboard"
    BY <1>3, <2>7 DEF Wanted, Got, Prof!Kinds, Prof!AsAsked
  <2>8. CASE s.do = "battery"
    BY <1>3, <2>8 DEF Wanted, Got, Prof!Kinds, Prof!AsAsked
  <2>9. CASE s.do = "tdp"
    BY <2>9 DEF Prof!AsAsked
  <2> QED  BY <2>1, <2>2, <2>3, <2>4, <2>5, <2>6, <2>7, <2>8, <2>9 DEF IsSetting
<1>4. CASE \A x \in Wanted(s) : Made(t, x, "no")
  <2>1. Items(plan[t]) = {}
    BY NothingLeft
  <2> QED  BY <1>3, <1>4, <2>1, MadeIsGot
<1> QED  BY <1>1, <1>2, <1>4 DEF Settled

\* What is settled stays so after a write of the plan.
LEMMA SettledWrites ==
  ASSUME StepBounds, MachineTypes, InOrder, NEW t \in Prof!Workers, PlanShape(plan[t]),
         DOMAIN plan = Prof!Workers, reached[t] \subseteq Prof!Online, Prof!WriteFile(t),
         NEW s, IsSetting(s), Settled(t, s)
  PROVE  Settled(t, s)'
<1>1. Wanted(s)' = Wanted(s)
  BY DEF Wanted
<1>2. PICK w : w = Head(plan[t])
  OBVIOUS
<1>3. /\ plan[t] # <<>> /\ plan'[t] = Tail(plan[t]) /\ w.do = "write" /\ Prof!Guard(w) /\ Prof!Accepts(w)
      /\ regs' = Prof!After(w)
  BY <1>2 DEF Prof!WriteFile
<1>4. /\ w \in Items(plan[t]) /\ Items(plan'[t]) \subseteq Items(plan[t]) /\ IsItem(w)
  BY <1>2, <1>3, FirstOfPlan DEF PlanShape
<1>5. \A e \in Items(plan'[t]), x \in Wanted(s) : Leaves(e, x)
  BY <1>4 DEF Settled
<1>6. CASE \A x \in Wanted(s) : Made(t, x, "no")
  <2>1. \A x \in Wanted(s) : Made(t, x, "no")'
    BY <1>6, WantedNames, MadeWrites DEF Settled
  <2> QED  BY <1>1, <1>5, <2>1 DEF Settled, Leaves, Writing
<1>7. CASE s.do = "governor" /\ s.to \notin Offered[regs[<<"mode", 0>>]]
  <2>1. Wanted(s) = {<<"gov", s.to>>}
    BY <1>7 DEF Wanted
  <2>2. w.file[1] # "mode"
    BY <1>3, <1>4, <2>1 DEF Settled, Leaves, Writing
  <2>3. <<"mode", 0>> \in Prof!Files /\ DOMAIN regs = Prof!Files
    BY FilesThere DEF MachineTypes, Prof!Singles
  <2>4. IsLeft(w, "mode", 0, regs'[<<"mode", 0>>])
    BY <1>3, <2>3, AfterWrite
  <2>5. w.file = <<"mode", 0>> => w.file[1] = "mode"
    OBVIOUS
  <2>6. regs'[<<"mode", 0>>] = regs[<<"mode", 0>>]
    BY <2>2, <2>4, <2>5 DEF IsLeft
  <2> QED  BY <1>1, <1>5, <1>7, <2>6 DEF Settled, Leaves, Writing
<1> QED  BY <1>6, <1>7, IsDoomed DEF Settled

\* A step that writes nothing and drops nothing that must be written.
LEMMA SettledStays ==
  ASSUME NEW t, NEW s, Settled(t, s), UNCHANGED regs, reached'[t] = reached[t],
         plan[t] # Doomed \/ plan'[t] = plan[t],
         \A e \in Items(plan'[t]), x \in Wanted(s) : Leaves(e, x),
         \A e \in Items(plan[t]) : e.do = "write" /\ e.soft = "no" => e \in Items(plan'[t])
  PROVE  Settled(t, s)'
<1>1. Wanted(s)' = Wanted(s)
  BY DEF Wanted
<1>2. Prof!Online' = Prof!Online /\ Prof!Count' = Prof!Count /\ \A k : Targets(k)' = Targets(k)
  BY DEF Prof!Online, Prof!Count, Targets
<1>3. ASSUME NEW x, Made(t, x, "no")  PROVE Made(t, x, "no")'
  <2>1. CASE Got(x, reached[t])
    BY <2>1 DEF Made, Got
  <2>2. CASE ~Got(x, reached[t])
    <3>1. \A c : Prof!W(<<x[1], c>>, x[2], "no").do = "write" /\ Prof!W(<<x[1], c>>, x[2], "no").soft = "no"
      BY DEF Prof!W
    <3>2. ASSUME NEW c \in Targets(x[1])
          PROVE  \/ Prof!W(<<x[1], c>>, x[2], "no") \in Items(plan'[t])
                 \/ regs'[<<x[1], c>>] = x[2] /\ (x[1] \in Prof!Kinds => c \in Prof!Online')
      BY <1>2, <1>3, <2>2, <3>1 DEF Made
    <3> QED  BY <1>2, <3>2 DEF Made
  <2> QED  BY <2>1, <2>2
<1>4. \A e, x : Leaves(e, x)' = Leaves(e, x)
  BY DEF Leaves, Writing
<1> QED  BY <1>1, <1>3, <1>4 DEF Settled

-----------------------------------------------------------------------------
\* The threads: what they keep is within its type ...
ThreadTypes ==
  /\ DOMAIN waiting = Prof!Workers /\ DOMAIN plan = Prof!Workers /\ DOMAIN mine = Prof!Workers
  /\ DOMAIN before = Prof!Workers
  /\ fate \in [Prof!Workers -> {"ok", "warned", "failed"}] /\ alone \in [Prof!Workers -> BOOLEAN]
  /\ reached \in [Prof!Workers -> SUBSET Cpus]
  /\ modified \in BOOLEAN /\ torn \in BOOLEAN /\ phase \in {"runs", "restores", "gone"}
  /\ used \in 0..MaxRequests

\* ... one that is alone has no other beside it, the mode is the first in its turn ...
ThreadInv(t) ==
  /\ IsCall(mine[t]) /\ waiting[t] \subseteq mine[t] /\ PlanShape(plan[t])
  /\ mine[t] = {} \/ fate[t] = "failed" => plan[t] = <<>> /\ waiting[t] = {}
  /\ (\E s \in waiting[t] : s.do = "mode") => waiting[t] = mine[t] /\ plan[t] = <<>>
  /\ reached[t] \subseteq Prof!Online
  /\ mine[t] # {} => 0 \in reached[t] /\ reached[t] \subseteq DOMAIN before[t]
  /\ mine[t] # {} /\ alone[t] => \A u \in Prof!Workers \ {t} : mine[u] = {}

\* ... and each setting is settled in its turn.
WorkInv(t) ==
  mine[t] # {} /\ alone[t] /\ fate[t] # "failed" => \A s \in mine[t] \ waiting[t] : Settled(t, s)

Moves(t) == Prof!Turn(t) \/ Prof!PutBack(t) \/ Prof!Flag(t) \/ Prof!WriteFile(t) \/ Prof!WriteFails(t)

\* Only a thread that was asked something moves, and nobody beside one that is alone.
LEMMA MoverIsBusy ==
  ASSUME NEW t \in Prof!Workers, ThreadInv(t), Moves(t) \/ Prof!Reply(t)
  PROVE  mine[t] # {} /\ \A u \in Prof!Workers \ {t} : ThreadInv(u) /\ mine[u] # {} => ~alone[u]
<1>1. CASE Prof!Turn(t)
  BY <1>1 DEF Prof!Turn, ThreadInv
<1>2. CASE Prof!PutBack(t)
  <2>1. Len(<<>>) = 0
    OBVIOUS
  <2> QED  BY <1>2, <2>1 DEF Prof!PutBack, ThreadInv
<1>3. CASE Prof!Flag(t) \/ Prof!WriteFile(t) \/ Prof!WriteFails(t) \/ Prof!Reply(t)
  BY <1>3 DEF Prof!Flag, Prof!WriteFile, Prof!WriteFails, Prof!Reply, ThreadInv
<1> QED  BY <1>1, <1>2, <1>3 DEF ThreadInv, Moves

\* Nothing has its turn before the mode.
LEMMA BeforeMode ==
  ASSUME NEW k  PROVE ~Prof!Before(k, "mode")
<1> SUFFICES ASSUME NEW i \in DOMAIN Prof!Order, NEW j \in DOMAIN Prof!Order, i < j, Prof!Order[j] = "mode"
             PROVE  FALSE
  BY DEF Prof!Before
<1>1. DOMAIN Prof!Order = 1..10
  BY DEF Prof!Order
<1>2. j \in 2..10
  BY <1>1
<1>3. j = 2 \/ j = 3 \/ j = 4 \/ j = 5 \/ j = 6 \/ j = 7 \/ j = 8 \/ j = 9 \/ j = 10
  BY <1>2
<1> QED  BY <1>3 DEF Prof!Order

\* The files of different settings are different.
LEMMA OtherFiles ==
  ASSUME NEW s, NEW u, IsSetting(s), IsSetting(u), s.do # u.do, s.do # "mode",
         NEW e, e.do = "write" => e.file[1] \in FilesOf(s.do), e.do # "limits",
         NEW x \in Wanted(u)
  PROVE  Leaves(e, x)
<1>1. x[1] \in FilesOf(u.do)
  BY WantedNames
<1>2. FilesOf(s.do) \cap FilesOf(u.do) = {} /\ "mode" \notin FilesOf(s.do)
  BY DEF IsSetting, FilesOf
<1> QED  BY <1>1, <1>2 DEF Leaves, Writing

\* The turn of a setting leaves those before it as they are.
LEMMA TurnSettles ==
  ASSUME StepBounds, MachineTypes, ThreadTypes, NEW t \in Prof!Workers, ThreadInv(t), Prof!Turn(t)
  PROVE  /\ waiting'[t] \subseteq waiting[t] /\ PlanShape(plan'[t])
         /\ (\E s \in waiting'[t] : s.do = "mode") => FALSE
         /\ (\A s \in mine[t] \ waiting[t] : Settled(t, s)) =>
              \A s \in mine[t] \ waiting'[t] : Settled(t, s)'
<1>1. PICK s \in waiting[t] :
        /\ \A u \in waiting[t] \ {s} : Prof!Before(s.do, u.do)
        /\ plan'[t] = Prof!Writes(s) /\ waiting'[t] = waiting[t] \ {s}
  BY DEF Prof!Turn, ThreadTypes
<1>2. plan[t] = <<>> /\ UNCHANGED <<regs, reached, mine>>
  BY DEF Prof!Turn, Prof!history
<1>3. /\ s \in mine[t] /\ IsSetting(s)
      /\ \A u \in mine[t] : IsSetting(u) /\ (u.do = s.do => u = s)
  BY <1>1 DEF ThreadInv, IsCall
<1>4. TurnOf(plan'[t], s)
  BY <1>1, <1>3, TurnServes
<1>5. \A u \in waiting'[t] : u.do # "mode"
  BY <1>1, BeforeMode
<1>6. Settled(t, s)'
  <2>1. Wanted(s)' = Wanted(s) /\ \A e, x : Leaves(e, x)' = Leaves(e, x)
    BY DEF Wanted, Leaves, Writing
  <2>2. Targets(s)' = Targets(s) /\ \A k : Targets(k)' = Targets(k)
    BY <1>2 DEF Targets, Prof!Count, Prof!Online
  <2>3. CASE Serves(plan'[t], s, "no")
    <3>1. \A x \in Wanted(s) : Made(t, x, "no")'
      BY <2>2, <2>3 DEF Serves, Made
    <3> QED  BY <1>4, <2>1, <3>1 DEF TurnOf, Settled
  <2>4. CASE plan'[t] = Doomed \/ (s.do = "governor" /\ s.to \notin Offered[regs[<<"mode", 0>>]])
    BY <1>2, <1>4, <2>1, <2>4 DEF TurnOf, Settled, Doomed
  <2> QED  BY <1>4, <2>3, <2>4 DEF TurnOf
<1>7. ASSUME \A u \in mine[t] \ waiting[t] : Settled(t, u), NEW u \in mine[t] \ waiting[t]
      PROVE  Settled(t, u)'
  <2>1. s.do # "mode" /\ u.do # s.do
    BY <1>1, <1>3, <1>7 DEF ThreadInv
  <2>2. \A e \in Items(plan'[t]), x \in Wanted(u) : Leaves(e, x)
    <3>1. \A e \in Items(plan'[t]) : (e.do = "write" => e.file[1] \in FilesOf(s.do)) /\ e.do # "limits"
      BY <1>4, <2>1 DEF TurnOf
    <3> QED  BY <1>3, <1>7, <2>1, <3>1, OtherFiles
  <2>3. Items(plan[t]) = {} /\ plan[t] # Doomed
    BY <1>2, NothingLeft, IsDoomed
  <2> QED  BY <1>2, <1>7, <2>2, <2>3, SettledStays
<1> QED  BY <1>1, <1>4, <1>5, <1>6, <1>7 DEF TurnOf

\* What a step makes of the thread whose step it is.
MovedOn(t) ==
  /\ waiting'[t] \subseteq waiting[t] /\ PlanShape(plan'[t])
  /\ \A s \in waiting'[t] : s.do # "mode"
  /\ alone[t] /\ fate'[t] # "failed" => \A s \in mine[t] \ waiting'[t] : Settled(t, s)'

\* The end of a switch: nothing but the limits is written.
LEMMA PutBackMovesOn ==
  ASSUME StepBounds, MachineTypes, ThreadTypes, NEW t \in Prof!Workers, ThreadInv(t), WorkInv(t),
         mine[t] # {}, Prof!PutBack(t)
  PROVE  /\ MovedOn(t)
         /\ Items(plan[t]) = {Head(plan[t])} /\ Head(plan[t]).do = "limits"
         /\ Serves(plan'[t], Head(plan[t]), "group")
         /\ \A e \in Items(plan'[t]) : e.do # "limits"
<1>1. PICK h : h = Head(plan[t])
  OBVIOUS
<1>2. /\ plan'[t] = Prof!Limits(h, "group") /\ h.do = "limits" /\ Len(plan[t]) = 1
      /\ UNCHANGED <<regs, waiting, mine, fate, alone, reached>>
  BY <1>1 DEF Prof!PutBack, Prof!history, ThreadTypes
<1>3. IsSeq(plan[t]) /\ plan[t] # <<>>
  <2>1. Len(<<>>) = 0
    OBVIOUS
  <2> QED  BY <1>2, <2>1 DEF ThreadInv, PlanShape
<1>4. Items(plan[t]) = {h} /\ IsItem(h)
  <2>1. Items(plan[t]) = {h} \cup Items(Tail(plan[t])) /\ Len(Tail(plan[t])) = 0
    BY <1>1, <1>2, <1>3, FirstOfPlan
  <2>2. Items(Tail(plan[t])) = {}
    BY <2>1 DEF Items
  <2> QED  BY <2>1, <2>2 DEF ThreadInv, PlanShape
<1>5. h.from \in Int /\ h.to \in Int
  BY <1>2, <1>4 DEF IsItem, StepBounds
<1>6. Serves(plan'[t], h, "group") /\ \A e \in Items(plan'[t]) : e.do # "limits"
  BY <1>2, <1>5, LimitsServe
<1>7. \A e \in Items(plan'[t]) : e.do = "write" => e.file[1] \in {"lo", "hi"}
  BY <1>2, <1>6 DEF Serves, FilesOf
<1>8. ASSUME NEW s \in mine[t] \ waiting[t], Settled(t, s)
      PROVE  Settled(t, s)'
  <2>1. \A x \in Wanted(s) : x[1] \notin {"gov", "lo", "hi"}
    BY <1>2, <1>4, <1>8 DEF Settled, Leaves
  <2>2. \A e \in Items(plan'[t]), x \in Wanted(s) : Leaves(e, x)
    BY <1>7, <2>1 DEF Leaves, Writing
  <2>3. plan[t] # Doomed
    BY <1>1, <1>2, IsDoomed
  <2> QED  BY <1>2, <1>4, <1>8, <2>2, <2>3, SettledStays
<1>9. \A s \in waiting'[t] : s.do # "mode"
  BY <1>2, <1>3 DEF ThreadInv
<1>10. MovedOn(t)
  BY <1>2, <1>6, <1>8, <1>9 DEF MovedOn, WorkInv, Serves
<1> QED  BY <1>1, <1>2, <1>4, <1>6, <1>10

\* A step that takes the head off the plan and writes nothing.
LEMMA DroppingMovesOn ==
  ASSUME ThreadTypes, NEW t \in Prof!Workers, ThreadInv(t), WorkInv(t), mine[t] # {}, plan[t] # <<>>,
         Head(plan[t]).do = "write" => Head(plan[t]).soft = "each",
         plan'[t] = Tail(plan[t]), UNCHANGED regs,
         waiting'[t] = waiting[t], fate'[t] = fate[t], reached'[t] = reached[t]
  PROVE  MovedOn(t)
<1>1. PICK h : h = Head(plan[t])
  OBVIOUS
<1>2. IsSeq(plan[t]) /\ PlanShape(plan'[t])
  <2>1. PlanShape(plan[t])
    BY DEF ThreadInv
  <2>2. PlanShape(Tail(plan[t]))
    BY <2>1, TailShape
  <2> QED  BY <2>1, <2>2 DEF PlanShape
<1>3. Items(plan[t]) = {h} \cup Items(plan'[t])
  BY <1>1, <1>2, FirstOfPlan
<1>4. ASSUME NEW s \in mine[t] \ waiting[t], Settled(t, s)
      PROVE  Settled(t, s)'
  <2>1. plan[t] # Doomed
    BY IsDoomed
  <2>2. \A e \in Items(plan'[t]), x \in Wanted(s) : Leaves(e, x)
    BY <1>3, <1>4 DEF Settled
  <2>3. \A e \in Items(plan[t]) : e.do = "write" /\ e.soft = "no" => e \in Items(plan'[t])
    BY <1>1, <1>3
  <2> QED  BY <1>4, <2>1, <2>2, <2>3, SettledStays
<1>5. \A s \in waiting'[t] : s.do # "mode"
  BY DEF ThreadInv
<1> QED  BY <1>2, <1>4, <1>5 DEF MovedOn, WorkInv

\* A write fails: the call has failed, or no write that it depends on is lost.
LEMMA FailureMovesOn ==
  ASSUME ThreadTypes, NEW t \in Prof!Workers, ThreadInv(t), WorkInv(t), mine[t] # {}, Prof!WriteFails(t)
  PROVE  MovedOn(t)
<1>1. PICK w : w = Head(plan[t])
  OBVIOUS
<1>2. /\ plan[t] # <<>> /\ w.do = "write"
      /\ plan'[t] = IF w.soft = "each" THEN Tail(plan[t]) ELSE <<>>
      /\ waiting'[t] = IF w.soft = "no" THEN {} ELSE waiting[t]
      /\ fate'[t] = CASE w.soft = "no" -> "failed" [] w.soft = "group" -> "warned"
                      [] w.soft = "each" -> fate[t]
      /\ UNCHANGED <<regs, mine, reached, alone>>
  BY <1>1 DEF Prof!WriteFails, Prof!history, ThreadTypes
<1>3. IsSeq(plan[t])
  BY DEF ThreadInv, PlanShape
<1>4. Len(plan[t]) \in Nat \ {0} /\ w = plan[t][1] /\ w \in Items(plan[t])
  BY <1>1, <1>2, <1>3, FirstOfPlan
<1>5. w.soft \in {"no", "each", "group"}
  BY <1>4 DEF ThreadInv, PlanShape, IsItem
<1>6. \A s \in waiting'[t] : s.do # "mode"
  BY <1>2 DEF ThreadInv
<1>7. CASE w.soft = "no"
  <2>1. PlanShape(plan'[t]) /\ fate'[t] = "failed" /\ waiting'[t] = {}
    BY <1>2, <1>7, NothingLeft
  <2> QED  BY <2>1 DEF MovedOn
<1>8. CASE w.soft = "group"
  <2>1. plan'[t] = <<>> /\ waiting'[t] = waiting[t]
    BY <1>2, <1>8
  <2>2. ASSUME NEW i \in 1..Len(plan[t])  PROVE plan[t][i].soft = "group"
    <3>1. CASE i = 1
      BY <1>4, <1>8, <3>1
    <3>2. CASE i # 1
      <4>1. 1 \in 1..Len(plan[t]) /\ 1 < i
        BY <1>4, <3>2
      <4> QED  BY <1>4, <1>8, <4>1 DEF ThreadInv, PlanShape
    <3> QED  BY <3>1, <3>2
  <2>3. \A e \in Items(plan[t]) : e.soft # "no"
    BY <2>2 DEF Items
  <2>5. ASSUME NEW s \in mine[t] \ waiting[t], Settled(t, s)
        PROVE  Settled(t, s)'
    <3>1. plan[t] # Doomed
      BY <1>1, <1>8, IsDoomed
    <3>2. \A e \in Items(plan'[t]), x \in Wanted(s) : Leaves(e, x)
      BY <2>1, NothingLeft
    <3> QED  BY <1>2, <2>3, <2>5, <3>1, <3>2, SettledStays
  <2>6. fate[t] # "failed"
    BY <1>2 DEF ThreadInv
  <2> QED  BY <1>6, <2>1, <2>5, <2>6, NothingLeft DEF MovedOn, WorkInv
<1>9. CASE w.soft = "each"
  <2>1. /\ plan'[t] = Tail(plan[t]) /\ UNCHANGED regs
        /\ waiting'[t] = waiting[t] /\ fate'[t] = fate[t] /\ reached'[t] = reached[t]
    BY <1>2, <1>9
  <2> QED  BY <1>1, <1>2, <1>9, <2>1, DroppingMovesOn
<1> QED  BY <1>5, <1>7, <1>8, <1>9

\* A write takes effect.
LEMMA WriteMovesOn ==
  ASSUME StepBounds, MachineTypes, InOrder, ThreadTypes, NEW t \in Prof!Workers, ThreadInv(t),
         WorkInv(t), mine[t] # {}, Prof!WriteFile(t)
  PROVE  /\ MovedOn(t) /\ MachineTypes' /\ InOrder'
         /\ Head(plan[t]) \in Items(plan[t]) /\ Head(plan[t]).file[1] # "online"
<1>1. PICK w : w = Head(plan[t])
  OBVIOUS
<1>2. /\ plan[t] # <<>> /\ w.do = "write" /\ Prof!Guard(w) /\ Prof!Accepts(w) /\ regs' = Prof!After(w)
      /\ plan'[t] = Tail(plan[t])
      /\ UNCHANGED <<waiting, mine, fate, alone>>
  BY <1>1 DEF Prof!WriteFile, ThreadTypes
<1>3. PlanShape(plan[t]) /\ IsSeq(plan[t])
  BY DEF ThreadInv, PlanShape
<1>4. w \in Items(plan[t]) /\ IsItem(w)
  BY <1>1, <1>2, <1>3, FirstOfPlan DEF PlanShape
<1>5. w.file[1] # "online"
  <2>1. PICK k : \A e \in Items(plan[t]) : e.do = "write" => e.file[1] \in FilesOf(k)
    BY <1>3 DEF PlanShape
  <2>2. w.file[1] \in FilesOf(k)
    BY <1>2, <1>4, <2>1
  <2> QED  BY <2>2 DEF FilesOf
<1>6. MachineTypes' /\ InOrder'
  BY <1>2, <1>4, <1>5, MachineWrite
<1>7. PlanShape(plan'[t])
  <2>1. PlanShape(Tail(plan[t]))
    BY <1>2, <1>3, TailShape
  <2> QED  BY <1>2, <2>1
<1>8. ASSUME NEW s \in mine[t] \ waiting[t], Settled(t, s)  PROVE Settled(t, s)'
  <2>1. IsSetting(s) /\ reached[t] \subseteq Prof!Online /\ DOMAIN plan = Prof!Workers
    BY DEF ThreadInv, IsCall, ThreadTypes
  <2> QED  BY <1>3, <1>8, <2>1, SettledWrites
<1>9. \A s \in waiting'[t] : s.do # "mode"
  BY <1>2 DEF ThreadInv
<1>10. MovedOn(t)
  BY <1>2, <1>7, <1>8, <1>9 DEF MovedOn, WorkInv
<1> QED  BY <1>1, <1>4, <1>5, <1>6, <1>10

\* What a step leaves alone.
Framed(t) ==
  /\ mine' = mine /\ alone' = alone /\ before' = before /\ told' = told /\ phase' = phase
  /\ used' = used
  /\ \A u \in Prof!Workers : reached'[u] = reached[u] \cap Prof!Online'
  /\ \A u \in Prof!Workers \ {t} : plan'[u] = plan[u] /\ waiting'[u] = waiting[u] /\ fate'[u] = fate[u]

LEMMA MovesFrame ==
  ASSUME ThreadTypes, NEW t \in Prof!Workers, Moves(t), ThreadInv(t),
         \A u \in Prof!Workers : reached[u] \subseteq Prof!Online
  PROVE  Framed(t) /\ ThreadTypes'
<1>1. CASE Prof!Turn(t)
  <2>1. UNCHANGED Prof!Online
    BY <1>1 DEF Prof!Turn, Prof!Online
  <2> QED  BY <1>1, <2>1 DEF Prof!Turn, Prof!history, ThreadTypes, Framed
<1>2. CASE Prof!PutBack(t)
  <2>1. UNCHANGED Prof!Online
    BY <1>2 DEF Prof!PutBack, Prof!Online
  <2> QED  BY <1>2, <2>1 DEF Prof!PutBack, Prof!history, ThreadTypes, Framed
<1>3. CASE Prof!Flag(t)
  <2>1. UNCHANGED Prof!Online
    BY <1>3 DEF Prof!Flag, Prof!Online
  <2> QED  BY <1>3, <2>1 DEF Prof!Flag, Prof!history, ThreadTypes, Framed
<1>4. CASE Prof!WriteFails(t)
  <2>1. UNCHANGED Prof!Online
    BY <1>4 DEF Prof!WriteFails, Prof!Online
  <2>2. UNCHANGED <<regs, mine, alone, reached, before, modified, told, used, phase>>
    BY <1>4 DEF Prof!WriteFails, Prof!history
  <2>3. PICK w : w = Head(plan[t])
    OBVIOUS
  <2>4. /\ plan' = [plan EXCEPT ![t] = IF w.soft = "each" THEN Tail(@) ELSE <<>>]
        /\ waiting' = [waiting EXCEPT ![t] = IF w.soft = "no" THEN {} ELSE @]
        /\ fate' = [fate EXCEPT ![t] = CASE w.soft = "no" -> "failed"
                                         [] w.soft = "group" -> "warned"
                                         [] w.soft = "each" -> @]
        /\ torn' = (torn \/ w.file[1] \in {"lo", "hi"})
    BY <1>4, <2>3 DEF Prof!WriteFails
  <2>5. w.soft \in {"no", "group", "each"}
    <3>1. w \in Items(plan[t])
      BY <1>4, <2>3, FirstOfPlan DEF Prof!WriteFails, ThreadInv, PlanShape
    <3> QED  BY <3>1 DEF ThreadInv, PlanShape, IsItem
  <2> QED  BY <2>1, <2>2, <2>4, <2>5 DEF ThreadTypes, Framed
<1>5. CASE Prof!WriteFile(t)
  <2>1. /\ plan' = [plan EXCEPT ![t] = Tail(@)]
        /\ reached' = [u \in Prof!Workers |-> reached[u] \cap Prof!Online']
        /\ UNCHANGED <<waiting, mine, fate, alone, before, modified, torn, told, used, phase>>
    BY <1>5 DEF Prof!WriteFile, Prof!Online
  <2> QED  BY <2>1 DEF ThreadTypes, Framed
<1> QED  BY <1>1, <1>2, <1>3, <1>4, <1>5 DEF Moves

StepInv ==
  /\ MachineTypes /\ InOrder /\ ThreadTypes
  /\ \A t \in Prof!Workers : ThreadInv(t) /\ WorkInv(t)

\* Every step of a thread, with what it means for that thread and for the others.
LEMMA MovesKeep ==
  ASSUME StepBounds, StepInv, NEW t \in Prof!Workers, Moves(t)
  PROVE  /\ StepInv' /\ MovedOn(t) /\ Framed(t) /\ mine[t] # {}
         /\ \A u \in Prof!Workers : u # t /\ mine[u] # {} => ~alone[u]
<1>1. /\ MachineTypes /\ InOrder /\ ThreadTypes
      /\ \A u \in Prof!Workers : ThreadInv(u) /\ WorkInv(u)
  BY DEF StepInv
<1>2. mine[t] # {} /\ \A u \in Prof!Workers : u # t /\ mine[u] # {} => ~alone[u]
  BY <1>1, MoverIsBusy
<1>3. Framed(t) /\ ThreadTypes'
  <2>1. \A u \in Prof!Workers : reached[u] \subseteq Prof!Online
    BY <1>1 DEF ThreadInv
  <2> QED  BY <1>1, <2>1, MovesFrame
<1>4. MovedOn(t)
  <2>1. CASE Prof!Turn(t)
    <3>1. UNCHANGED fate /\ fate[t] # "failed"
      BY <1>1, <2>1 DEF Prof!Turn, ThreadInv
    <3> QED  BY <1>1, <1>2, <2>1, <3>1, TurnSettles DEF MovedOn, WorkInv
  <2>2. CASE Prof!PutBack(t)
    BY <1>1, <1>2, <2>2, PutBackMovesOn
  <2>3. CASE Prof!Flag(t)
    <3>1. /\ plan[t] # <<>> /\ Head(plan[t]).do = "flag" /\ plan'[t] = Tail(plan[t])
          /\ UNCHANGED <<regs, waiting, fate, reached>>
      BY <1>1, <2>3 DEF Prof!Flag, Prof!history, ThreadTypes
    <3> QED  BY <1>1, <1>2, <3>1, DroppingMovesOn
  <2>4. CASE Prof!WriteFile(t)
    BY <1>1, <1>2, <2>4, WriteMovesOn
  <2>5. CASE Prof!WriteFails(t)
    BY <1>1, <1>2, <2>5, FailureMovesOn
  <2> QED  BY <2>1, <2>2, <2>3, <2>4, <2>5 DEF Moves
<1>5. MachineTypes' /\ InOrder'
  <2>1. CASE Prof!WriteFile(t)
    BY <1>1, <1>2, <2>1, WriteMovesOn
  <2>2. CASE UNCHANGED regs
    BY <1>1, <2>2 DEF MachineTypes, InOrder
  <2> QED  BY <2>1, <2>2 DEF Moves, Prof!Turn, Prof!PutBack, Prof!Flag, Prof!WriteFails
<1>6. 0 \in Prof!Online'
  BY <1>5, FilesThere DEF MachineTypes, Prof!Online
<1>7. fate'[t] = "failed" => plan'[t] = <<>> /\ waiting'[t] = {}
  <2>1. CASE Prof!WriteFails(t)
    <3>1. PICK w : w = Head(plan[t])
      OBVIOUS
    <3>2. /\ plan[t] # <<>> /\ IsSeq(plan[t])
          /\ plan' = [plan EXCEPT ![t] = IF w.soft = "each" THEN Tail(@) ELSE <<>>]
          /\ waiting' = [waiting EXCEPT ![t] = IF w.soft = "no" THEN {} ELSE @]
          /\ fate' = [fate EXCEPT ![t] = CASE w.soft = "no" -> "failed"
                                           [] w.soft = "group" -> "warned"
                                           [] w.soft = "each" -> @]
      BY <1>1, <2>1, <3>1 DEF Prof!WriteFails, ThreadInv, PlanShape
    <3>3. w.soft \in {"no", "group", "each"}
      <4>1. w \in Items(plan[t])
        BY <3>1, <3>2, FirstOfPlan
      <4> QED  BY <1>1, <4>1 DEF ThreadInv, PlanShape, IsItem
    <3>4. fate[t] # "failed"
      BY <1>1, <3>2 DEF ThreadInv
    <3> QED  BY <1>1, <3>2, <3>3, <3>4 DEF ThreadTypes
  <2>2. CASE Prof!Turn(t) \/ Prof!PutBack(t) \/ Prof!Flag(t) \/ Prof!WriteFile(t)
    <3>1. UNCHANGED fate /\ (plan[t] # <<>> \/ waiting[t] # {})
      <4>1. Len(<<>>) = 0
        OBVIOUS
      <4> QED  BY <2>2, <4>1 DEF Prof!Turn, Prof!PutBack, Prof!Flag, Prof!WriteFile
    <3> QED  BY <1>1, <3>1 DEF ThreadInv
  <2> QED  BY <2>1, <2>2 DEF Moves
<1>8. ThreadInv(t)'
  <2>1. /\ mine'[t] = mine[t] /\ before'[t] = before[t] /\ alone'[t] = alone[t]
        /\ reached'[t] = reached[t] \cap Prof!Online'
        /\ mine' = mine
    BY <1>3 DEF Framed
  <2>2. /\ waiting'[t] \subseteq waiting[t] /\ PlanShape(plan'[t])
        /\ \A s \in waiting'[t] : s.do # "mode"
    BY <1>4 DEF MovedOn
  <2>3. ThreadInv(t)
    BY <1>1
  <2> QED  BY <1>2, <1>6, <1>7, <2>1, <2>2, <2>3 DEF ThreadInv, PlanShape, IsSeq, Items, IsItem, Writing, FilesOf, IsCall, IsSetting
<1>9. WorkInv(t)'
  BY <1>3, <1>4 DEF Framed, MovedOn, WorkInv
<1>10. ASSUME NEW u \in Prof!Workers, u # t  PROVE ThreadInv(u)' /\ WorkInv(u)'
  <2>1. /\ mine' = mine /\ before'[u] = before[u] /\ alone'[u] = alone[u]
        /\ reached'[u] = reached[u] \cap Prof!Online'
        /\ plan'[u] = plan[u] /\ waiting'[u] = waiting[u] /\ fate'[u] = fate[u]
    BY <1>3, <1>10 DEF Framed
  <2>2. ThreadInv(u)
    BY <1>1
  <2>3. PlanShape(plan[u])' /\ IsCall(mine[u])'
    <3>1. PlanShape(plan[u]) /\ IsCall(mine[u])
      BY <2>2 DEF ThreadInv
    <3>2. PlanShape(plan'[u]) /\ IsCall(mine'[u])
      BY <2>1, <3>1
    <3> QED  BY <3>2 DEF PlanShape, IsSeq, Items, IsItem, Writing, FilesOf, IsCall, IsSetting
  <2>5. ThreadInv(u)'
    BY <1>6, <2>1, <2>2, <2>3 DEF ThreadInv
  <2>4. WorkInv(u)'
    BY <1>2, <1>10, <2>1 DEF WorkInv
  <2> QED  BY <2>5, <2>4
<1>11. StepInv'
  BY <1>3, <1>5, <1>8, <1>9, <1>10 DEF StepInv
<1> QED  BY <1>2, <1>3, <1>4, <1>11

-----------------------------------------------------------------------------
\* A call begins.
Started(t, r) ==
  /\ waiting'[t] = r /\ mine'[t] = r /\ plan'[t] = <<>> /\ fate'[t] = "ok"
  /\ reached'[t] = Prof!Online /\ before'[t] = Prof!SomeLimits
  /\ alone'[t] => \A u \in Prof!Workers : mine[u] = {}
  /\ \A u \in Prof!Workers \ {t} :
       /\ waiting'[u] = waiting[u] /\ mine'[u] = mine[u] /\ plan'[u] = plan[u] /\ fate'[u] = fate[u]
       /\ reached'[u] = reached[u] /\ before'[u] = before[u]
       /\ alone'[u] => alone[u] /\ mine[u] = {}

LEMMA Starts ==
  ASSUME StepBounds, StepInv, NEW t \in Prof!Workers, mine[t] = {}, NEW r, IsCall(r), Prof!Begin(t, r),
         UNCHANGED <<regs, plan, modified, torn>>,
         phase' \in {"runs", "restores", "gone"}, used' \in 0..MaxRequests
  PROVE  Started(t, r) /\ told' = Prof!Nobody /\ StepInv'
<1>1. /\ MachineTypes /\ InOrder /\ ThreadTypes
      /\ \A u \in Prof!Workers : ThreadInv(u) /\ WorkInv(u)
  BY DEF StepInv
<1>2. PICK busy : busy = {u \in Prof!Workers : mine[u] # {}}
  OBVIOUS
<1>3. /\ waiting' = [waiting EXCEPT ![t] = r] /\ mine' = [mine EXCEPT ![t] = r]
      /\ fate' = [fate EXCEPT ![t] = "ok"]
      /\ alone' = [u \in Prof!Workers |-> IF u = t THEN busy = {} ELSE alone[u] /\ u \notin busy]
      /\ reached' = [reached EXCEPT ![t] = Prof!Online]
      /\ before' = [before EXCEPT ![t] = Prof!SomeLimits]
      /\ told' = Prof!Nobody
  BY <1>2 DEF Prof!Begin
<1>4. /\ alone' \in [Prof!Workers -> BOOLEAN]
      /\ alone'[t] => \A u \in Prof!Workers : mine[u] = {}
      /\ \A u \in Prof!Workers \ {t} : alone'[u] => alone[u] /\ mine[u] = {}
  <2>1. alone'[t] = (busy = {}) /\ \A u \in Prof!Workers \ {t} : alone'[u] = (alone[u] /\ u \notin busy)
    BY <1>3
  <2>2. \A u \in Prof!Workers : alone'[u] \in BOOLEAN
    BY <2>1
  <2>3. alone' \in [Prof!Workers -> BOOLEAN]
    BY <1>3, <2>2
  <2> QED  BY <1>2, <2>1, <2>3
<1>5. plan'[t] = <<>>
  BY <1>1 DEF ThreadInv
<1>6. Started(t, r)
  BY <1>1, <1>3, <1>4, <1>5 DEF Started, ThreadTypes
<1>7. MachineTypes' /\ InOrder'
  BY <1>1 DEF MachineTypes, InOrder
<1>8. Prof!Online' = Prof!Online /\ Prof!Online \subseteq Cpus /\ 0 \in Prof!Online /\ DOMAIN Prof!SomeLimits = Prof!Online
  BY <1>1, FilesThere DEF Prof!Online, MachineTypes, Prof!SomeLimits
<1>9. ThreadTypes'
  <2>1. /\ DOMAIN waiting' = Prof!Workers /\ DOMAIN plan' = Prof!Workers /\ DOMAIN mine' = Prof!Workers
        /\ DOMAIN before' = Prof!Workers
    BY <1>1, <1>3 DEF ThreadTypes
  <2>2. fate' \in [Prof!Workers -> {"ok", "warned", "failed"}] /\ reached' \in [Prof!Workers -> SUBSET Cpus]
    BY <1>1, <1>3, <1>8 DEF ThreadTypes
  <2> QED  BY <1>1, <1>4, <2>1, <2>2 DEF ThreadTypes
<1>10. ThreadInv(t)' /\ WorkInv(t)'
  <2>1. PlanShape(plan[t])' /\ IsCall(mine[t])'
    <3>1. PlanShape(plan'[t]) /\ IsCall(mine'[t])
      BY <1>6, NothingLeft DEF Started
    <3> QED  BY <3>1 DEF PlanShape, IsSeq, Items, IsItem, Writing, FilesOf, IsCall, IsSetting
  <2>2. alone'[t] => \A u \in Prof!Workers \ {t} : mine'[u] = {}
    BY <1>6 DEF Started
  <2>3. ThreadInv(t)'
    BY <1>6, <1>8, <2>1, <2>2 DEF ThreadInv, Started
  <2> QED  BY <1>6, <2>3 DEF WorkInv, Started
<1>11. ASSUME NEW u \in Prof!Workers, u # t  PROVE ThreadInv(u)' /\ WorkInv(u)'
  <2>1. /\ waiting'[u] = waiting[u] /\ mine'[u] = mine[u] /\ plan'[u] = plan[u] /\ fate'[u] = fate[u]
        /\ reached'[u] = reached[u] /\ before'[u] = before[u]
        /\ alone'[u] => mine[u] = {}
    BY <1>6, <1>11 DEF Started
  <2>2. ThreadInv(u)
    BY <1>1
  <2>3. PlanShape(plan[u])' /\ IsCall(mine[u])'
    <3>1. PlanShape(plan[u]) /\ IsCall(mine[u])
      BY <2>2 DEF ThreadInv
    <3>2. PlanShape(plan'[u]) /\ IsCall(mine'[u])
      BY <2>1, <3>1
    <3> QED  BY <3>2 DEF PlanShape, IsSeq, Items, IsItem, Writing, FilesOf, IsCall, IsSetting
  <2>4. ThreadInv(u)'
    BY <1>8, <2>1, <2>2, <2>3 DEF ThreadInv
  <2>5. WorkInv(u)'
    BY <2>1 DEF WorkInv
  <2> QED  BY <2>4, <2>5
<1> QED  BY <1>3, <1>6, <1>7, <1>9, <1>10, <1>11 DEF StepInv

\* A call is answered.
LEMMA Replies ==
  ASSUME StepBounds, StepInv, NEW t \in Prof!Workers, Prof!Reply(t)
  PROVE  /\ StepInv' /\ mine[t] # {} /\ mine'[t] = {} /\ plan[t] = <<>> /\ waiting[t] = {}
         /\ UNCHANGED <<regs, waiting, plan, fate, alone, modified, torn, used>>
         /\ \A u \in Prof!Workers \ {t} :
              mine'[u] = mine[u] /\ reached'[u] = reached[u] /\ before'[u] = before[u]
<1>1. /\ MachineTypes /\ InOrder /\ ThreadTypes
      /\ \A u \in Prof!Workers : ThreadInv(u) /\ WorkInv(u)
  BY DEF StepInv
<1>2. /\ mine[t] # {} /\ plan[t] = <<>> /\ waiting[t] = {}
      /\ mine' = [mine EXCEPT ![t] = {}] /\ reached' = [reached EXCEPT ![t] = {}]
      /\ before' = [before EXCEPT ![t] = <<>>]
      /\ phase' \in {phase, "gone"}
      /\ UNCHANGED <<regs, waiting, plan, fate, alone, modified, torn, used>>
  BY DEF Prof!Reply
<1>3. /\ mine'[t] = {} /\ reached'[t] = {}
      /\ \A u \in Prof!Workers \ {t} :
           mine'[u] = mine[u] /\ reached'[u] = reached[u] /\ before'[u] = before[u]
  BY <1>1, <1>2 DEF ThreadTypes
<1>4. MachineTypes' /\ InOrder' /\ ThreadTypes'
  <2>1. MachineTypes' /\ InOrder'
    BY <1>1, <1>2 DEF MachineTypes, InOrder
  <2>2. reached' \in [Prof!Workers -> SUBSET Cpus]
    BY <1>1, <1>2 DEF ThreadTypes
  <2>3. DOMAIN mine' = Prof!Workers /\ DOMAIN before' = Prof!Workers
    BY <1>1, <1>2 DEF ThreadTypes
  <2> QED  BY <1>1, <1>2, <2>1, <2>2, <2>3 DEF ThreadTypes
<1>5. Prof!Online' = Prof!Online
  BY <1>2 DEF Prof!Online
<1>6. ASSUME NEW u \in Prof!Workers  PROVE ThreadInv(u)'
  <2>1. ThreadInv(u)
    BY <1>1
  <2>2. PlanShape(plan[u])' /\ IsCall(mine[u])'
    <3>1. PlanShape(plan[u]) /\ IsCall(mine[u])
      BY <2>1 DEF ThreadInv
    <3>2. PlanShape(plan'[u]) /\ IsCall(mine'[u])
      BY <1>2, <1>3, <3>1 DEF IsCall
    <3> QED  BY <3>2 DEF PlanShape, IsSeq, Items, IsItem, Writing, FilesOf, IsCall, IsSetting
  <2>3. CASE u = t
    BY <1>2, <1>3, <2>2, <2>3 DEF ThreadInv
  <2>4. CASE u # t
    BY <1>2, <1>3, <1>5, <2>1, <2>2, <2>4 DEF ThreadInv
  <2> QED  BY <2>3, <2>4
<1>7. ASSUME NEW u \in Prof!Workers  PROVE WorkInv(u)'
  <2>1. CASE u = t
    BY <1>3, <2>1 DEF WorkInv
  <2>2. CASE u # t
    <3>1. plan[u] # Doomed \/ plan'[u] = plan[u]
      BY <1>2
    <3>2. mine'[u] = mine[u] /\ waiting'[u] = waiting[u] /\ reached'[u] = reached[u]
          /\ plan'[u] = plan[u] /\ fate'[u] = fate[u] /\ alone'[u] = alone[u]
      BY <1>2, <1>3, <2>2
    <3>3. ASSUME NEW s, Settled(u, s)  PROVE Settled(u, s)'
      <4>1. \A e \in Items(plan'[u]), x \in Wanted(s) : Leaves(e, x)
        BY <3>2, <3>3 DEF Settled
      <4> QED  BY <1>2, <3>2, <3>3, <4>1, SettledStays
    <3> QED  BY <1>1, <3>2, <3>3 DEF WorkInv
  <2> QED  BY <2>1, <2>2
<1> QED  BY <1>2, <1>3, <1>4, <1>6, <1>7 DEF StepInv

-----------------------------------------------------------------------------
\* The limits of a call that switches the mode and asks for none: still what they were, or
\* kept for the end of the switch, or written again.
Switches(t) ==
  /\ mine[t] # {} /\ alone[t] /\ fate[t] = "ok" /\ Prof!Uniform(before[t])
  /\ (\E s \in mine[t] : s.do = "mode") /\ \A s \in mine[t] : s.do # "limits"

Kept(lo, hi) == [do |-> "limits", from |-> lo, to |-> hi, soft |-> "group"]
Unswitched(t) == \E s \in waiting[t] : s.do = "mode"
Restored(t, lo, hi) ==
  /\ ~Unswitched(t)
  /\ Made(t, <<"lo", lo>>, "group") /\ Made(t, <<"hi", hi>>, "group")
  /\ \A e \in Items(plan[t]) : Leaves(e, <<"lo", lo>>) /\ Leaves(e, <<"hi", hi>>)

KeptAt(t, lo, hi) ==
  /\ before[t][0] = <<lo, hi>> /\ lo <= hi
  /\ \/ Unswitched(t) /\ Got(<<"lo", lo>>, reached[t]) /\ Got(<<"hi", hi>>, reached[t])
     \/ Kept(lo, hi) \in Items(plan[t])
     \/ Restored(t, lo, hi)

KeepInv(t) == Switches(t) => \E lo, hi \in HwMin..HwMax : KeptAt(t, lo, hi)

\* Answered, the CPUs have the limits that they had.
LEMMA KeptIsBefore ==
  ASSUME StepBounds, StepInv, NEW t \in Prof!Workers, KeepInv(t), Switches(t), waiting[t] = {},
         plan[t] = <<>>
  PROVE  \A c \in reached[t] : Prof!SomeLimits[c] = before[t][c]
<1>1. MachineTypes /\ ThreadTypes /\ ThreadInv(t)
  BY DEF StepInv
<1>2. PICK lo, hi : KeptAt(t, lo, hi)
  BY DEF KeepInv
<1>3. Items(plan[t]) = {} /\ ~Unswitched(t)
  BY NothingLeft DEF Unswitched
<1>4. Made(t, <<"lo", lo>>, "group") /\ Made(t, <<"hi", hi>>, "group")
  BY <1>2, <1>3 DEF KeptAt, Restored
<1>5. reached[t] \subseteq Prof!Online /\ mine[t] # {}
  BY <1>1 DEF ThreadInv, Switches
<1>6. Got(<<"lo", lo>>, reached[t]) /\ Got(<<"hi", hi>>, reached[t])
  BY <1>1, <1>3, <1>4, <1>5, MadeIsGot
<1>7. \A c \in reached[t] : regs[<<"lo", c>>] = lo /\ regs[<<"hi", c>>] = hi
  BY <1>6 DEF Got, Prof!Kinds
<1>8. \A c \in reached[t] : before[t][c] = <<lo, hi>>
  BY <1>1, <1>2, <1>5 DEF ThreadInv, KeptAt, Switches, Prof!Uniform
<1> QED  BY <1>5, <1>7, <1>8 DEF Prof!SomeLimits

\* At the beginning they are what they were.
LEMMA KeptAtStart ==
  ASSUME StepBounds, StepInv, Strict, NEW t \in Prof!Workers, NEW r, IsCall(r), Started(t, r),
         UNCHANGED regs
  PROVE  KeepInv(t)'
<1>1. MachineTypes /\ InOrder
  BY DEF StepInv
<1>2. /\ waiting'[t] = r /\ mine'[t] = r /\ reached'[t] = Prof!Online /\ before'[t] = Prof!SomeLimits
  BY DEF Started
<1>3. 0 \in Prof!Online /\ 0 \in Cpus
  BY <1>1, FilesThere DEF Prof!Online, MachineTypes
<1>4. PICK lo, hi \in HwMin..HwMax : lo = regs[<<"lo", 0>>] /\ hi = regs[<<"hi", 0>>]
  BY <1>1, <1>3 DEF MachineTypes
<1>5. lo <= hi
  BY <1>1, <1>3, <1>4 DEF InOrder
<1>6. Prof!SomeLimits[0] = <<lo, hi>>
  BY <1>3, <1>4 DEF Prof!SomeLimits
<1>7. ASSUME Switches(t)'  PROVE KeptAt(t, lo, hi)'
  <2>1. \A c \in Prof!Online : Prof!SomeLimits[c] = <<lo, hi>>
    <3>1. DOMAIN Prof!SomeLimits = Prof!Online
      BY DEF Prof!SomeLimits
    <3>2. Prof!Uniform(Prof!SomeLimits)
      BY <1>2, <1>7 DEF Switches, Prof!Uniform
    <3> QED  BY <1>3, <1>6, <3>1, <3>2 DEF Prof!Uniform
  <2>2. \A c \in Prof!Online : regs[<<"lo", c>>] = lo /\ regs[<<"hi", c>>] = hi
    <3> SUFFICES ASSUME NEW c \in Prof!Online  PROVE regs[<<"lo", c>>] = lo /\ regs[<<"hi", c>>] = hi
      OBVIOUS
    <3>1. PICK a, b : a = regs[<<"lo", c>>] /\ b = regs[<<"hi", c>>]
      OBVIOUS
    <3>2. Prof!SomeLimits[c] = <<a, b>>
      BY <3>1 DEF Prof!SomeLimits
    <3>3. <<a, b>> = <<lo, hi>>
      BY <2>1, <3>2
    <3> QED  BY <3>1, <3>3
  <2>3. Got(<<"lo", lo>>, reached[t])' /\ Got(<<"hi", hi>>, reached[t])'
    BY <1>2, <2>2 DEF Got, Prof!Kinds
  <2>4. Unswitched(t)'
    BY <1>2, <1>7 DEF Switches, Unswitched
  <2> QED  BY <1>2, <1>5, <1>6, <2>3, <2>4 DEF KeptAt
<1> QED  BY <1>4, <1>7 DEF KeepInv

\* They stay so while nothing about them moves.
LEMMA KeptStays ==
  ASSUME NEW t, KeepInv(t), UNCHANGED <<regs, waiting[t], plan[t], mine[t], fate[t], reached[t], before[t]>>,
         alone'[t] => alone[t]
  PROVE  KeepInv(t)'
<1>1. Switches(t)' => Switches(t)
  BY DEF Switches, Prof!Uniform
<1>2. Prof!Count' = Prof!Count /\ Prof!Online' = Prof!Online /\ \A k : Targets(k)' = Targets(k)
  BY DEF Prof!Count, Prof!Online, Targets
<1>3. \A x, soft : Made(t, x, soft) => Made(t, x, soft)'
  BY <1>2 DEF Made, Got
<1>4. ASSUME NEW lo, NEW hi, KeptAt(t, lo, hi)  PROVE KeptAt(t, lo, hi)'
  <2>1. Unswitched(t)' = Unswitched(t)
    BY DEF Unswitched
  <2>2. Restored(t, lo, hi) => Restored(t, lo, hi)'
    BY <1>3, <2>1 DEF Restored, Leaves, Writing
  <2> QED  BY <1>4, <2>1, <2>2 DEF KeptAt, Got, Kept
<1> QED  BY <1>1, <1>4 DEF KeepInv

\* What is made stays so while nothing is written and the plan keeps what it needs.
LEMMA MadeStays ==
  ASSUME NEW t, NEW x, NEW soft, Made(t, x, soft), UNCHANGED regs, reached'[t] = reached[t],
         \A e \in Items(plan[t]) : e.do = "write" /\ e.soft = soft => e \in Items(plan'[t])
  PROVE  Made(t, x, soft)'
<1>1. Prof!Online' = Prof!Online /\ Prof!Count' = Prof!Count /\ \A k : Targets(k)' = Targets(k)
  BY DEF Prof!Online, Prof!Count, Targets
<1>2. CASE Got(x, reached[t])
  BY <1>2 DEF Made, Got
<1>3. CASE ~Got(x, reached[t])
  <2>1. \A c : Prof!W(<<x[1], c>>, x[2], soft).do = "write" /\ Prof!W(<<x[1], c>>, x[2], soft).soft = soft
    BY DEF Prof!W
  <2>2. ASSUME NEW c \in Targets(x[1])
        PROVE  \/ Prof!W(<<x[1], c>>, x[2], soft) \in Items(plan'[t])
               \/ regs'[<<x[1], c>>] = x[2] /\ (x[1] \in Prof!Kinds => c \in Prof!Online')
    BY <1>1, <1>3, <2>1 DEF Made
  <2> QED  BY <1>1, <2>2 DEF Made
<1> QED  BY <1>2, <1>3

\* The turn of the mode keeps the limits for its end; no later turn touches them.
LEMMA TurnKeeps ==
  ASSUME StepBounds, StepInv, NEW t \in Prof!Workers, Switches(t), Prof!Turn(t), NEW lo, NEW hi,
         KeptAt(t, lo, hi)
  PROVE  KeptAt(t, lo, hi)'
<1>1. MachineTypes /\ ThreadTypes /\ ThreadInv(t)
  BY DEF StepInv
<1>2. PICK s \in waiting[t] :
        /\ \A u \in waiting[t] \ {s} : Prof!Before(s.do, u.do)
        /\ plan'[t] = Prof!Writes(s) /\ waiting'[t] = waiting[t] \ {s}
  BY <1>1 DEF Prof!Turn, ThreadTypes
<1>3. plan[t] = <<>> /\ Items(plan[t]) = {} /\ UNCHANGED <<regs, reached, mine, before>>
  BY NothingLeft DEF Prof!Turn, Prof!history
<1>4. s \in mine[t] /\ IsSetting(s) /\ TurnOf(plan'[t], s)
  BY <1>1, <1>2, TurnServes DEF ThreadInv, IsCall
<1>5. CASE Unswitched(t)
  <2>1. PICK m \in waiting[t] : m.do = "mode"
    BY <1>5 DEF Unswitched
  <2>2. s.do = "mode"
    BY <1>2, <2>1, BeforeMode
  <2>3. Before0 \in Items(plan'[t])
    BY <1>4, <2>2 DEF TurnOf
  <2>4. Got(<<"lo", lo>>, reached[t]) /\ Got(<<"hi", hi>>, reached[t]) /\ 0 \in reached[t]
    BY <1>1, <1>3, <1>5 DEF KeptAt, Restored, Switches, ThreadInv
  <2>5. regs[<<"lo", 0>>] = lo /\ regs[<<"hi", 0>>] = hi
    BY <2>4 DEF Got, Prof!Kinds
  <2>6. Kept(lo, hi) \in Items(plan'[t])
    BY <2>3, <2>5 DEF Kept, Before0
  <2> QED  BY <1>3, <2>6 DEF KeptAt, Kept
<1>6. CASE ~Unswitched(t)
  <2>1. Restored(t, lo, hi)
    BY <1>3, <1>6 DEF KeptAt
  <2>2. s.do # "mode" /\ s.do # "limits"
    BY <1>2, <1>4, <1>6 DEF Unswitched, Switches
  <2>3. FilesOf(s.do) \cap {"lo", "hi", "mode"} = {}
    BY <1>4, <2>2 DEF IsSetting, FilesOf
  <2>4. \A e \in Items(plan'[t]) : (e.do = "write" => e.file[1] \in FilesOf(s.do)) /\ e.do # "limits"
    BY <1>4, <2>2 DEF TurnOf
  <2>5. \A e \in Items(plan'[t]) : Leaves(e, <<"lo", lo>>) /\ Leaves(e, <<"hi", hi>>)
    BY <2>3, <2>4 DEF Leaves, Writing
  <2>6. Made(t, <<"lo", lo>>, "group")' /\ Made(t, <<"hi", hi>>, "group")'
    BY <1>3, <2>1, MadeStays DEF Restored
  <2>7. ~Unswitched(t)'
    BY <1>2, <1>6 DEF Unswitched
  <2>8. Restored(t, lo, hi)'
    BY <2>5, <2>6, <2>7 DEF Restored, Leaves, Writing
  <2> QED  BY <1>3, <2>8 DEF KeptAt
<1> QED  BY <1>5, <1>6

\* At the end of the switch they are in the plan.
LEMMA PutBackKeeps ==
  ASSUME StepBounds, StepInv, NEW t \in Prof!Workers, Switches(t), Prof!PutBack(t),
         NEW lo \in HwMin..HwMax, NEW hi \in HwMin..HwMax, KeptAt(t, lo, hi)
  PROVE  KeptAt(t, lo, hi)'
<1>1. MachineTypes /\ ThreadTypes /\ ThreadInv(t) /\ WorkInv(t) /\ mine[t] # {}
  BY DEF StepInv, Switches
<1>2. PICK h : h = Head(plan[t])
  OBVIOUS
<1>3. /\ Items(plan[t]) = {h} /\ h.do = "limits" /\ Serves(plan'[t], h, "group")
      /\ \A e \in Items(plan'[t]) : e.do # "limits"
      /\ \A u \in waiting'[t] : u.do # "mode"
  BY <1>1, <1>2, PutBackMovesOn DEF MovedOn
<1>4. UNCHANGED <<regs, reached, before, waiting>>
  BY DEF Prof!PutBack, Prof!history
<1>5. h = Kept(lo, hi)
  <2>1. ~Unswitched(t)
    BY <1>3, <1>4 DEF Unswitched
  <2>2. ~Leaves(h, <<"lo", lo>>)
    BY <1>3 DEF Leaves
  <2> QED  BY <1>3, <2>1, <2>2 DEF KeptAt, Restored
<1>6. Wanted(h) = {<<"lo", lo>>, <<"hi", hi>>}
  <2>1. HwMin \in Int /\ HwMax \in Int /\ lo <= hi
    BY DEF StepBounds, KeptAt
  <2>2. h.from = lo /\ h.to = hi
    BY <1>5 DEF Kept
  <2>3. Prof!Clamp(lo) = lo /\ Prof!Clamp(hi) = hi
    BY <2>1 DEF Prof!Clamp
  <2>4. Prof!Lo(h) = lo /\ Prof!Hi(h) = hi
    BY <2>1, <2>2, <2>3 DEF Prof!Lo, Prof!Hi
  <2> QED  BY <1>3, <2>4 DEF Wanted
<1>7. \A e \in Items(plan'[t]) : Leaves(e, <<"lo", lo>>) /\ Leaves(e, <<"hi", hi>>)
  BY <1>3, <1>6 DEF Serves
<1>8. ASSUME NEW x \in Wanted(h)  PROVE Made(t, x, "group")'
  <2>1. \A c \in Targets(x[1]) : Prof!W(<<x[1], c>>, x[2], "group") \in Items(plan'[t])
    BY <1>3, <1>8 DEF Serves
  <2>2. Targets(x[1])' = Targets(x[1])
    BY <1>4 DEF Targets, Prof!Count, Prof!Online
  <2> QED  BY <2>1, <2>2 DEF Made
<1>9. ~Unswitched(t)'
  BY <1>3 DEF Unswitched
<1>10. Restored(t, lo, hi)'
  BY <1>6, <1>7, <1>8, <1>9 DEF Restored, Leaves, Writing
<1> QED  BY <1>4, <1>10 DEF KeptAt

\* Taking the head off the plan, unless it is what the limits are kept in.
LEMMA DroppingKeeps ==
  ASSUME StepBounds, StepInv, NEW t \in Prof!Workers, plan[t] # <<>>, plan'[t] = Tail(plan[t]),
         Head(plan[t]).do # "limits", UNCHANGED <<before[t], waiting[t]>>, NEW lo, NEW hi,
         KeptAt(t, lo, hi),
         Restored(t, lo, hi) => Made(t, <<"lo", lo>>, "group")' /\ Made(t, <<"hi", hi>>, "group")'
  PROVE  KeptAt(t, lo, hi)'
<1>1. ThreadInv(t) /\ PlanShape(plan[t]) /\ IsSeq(plan[t])
  BY DEF StepInv, ThreadInv, PlanShape
<1>2. Items(plan[t]) = {Head(plan[t])} \cup Items(plan'[t])
  BY <1>1, FirstOfPlan
<1>3. ~Unswitched(t) /\ ~Unswitched(t)'
  BY <1>1 DEF ThreadInv, Unswitched
<1>4. CASE Kept(lo, hi) \in Items(plan[t])
  <2>1. Kept(lo, hi) \in Items(plan'[t])
    BY <1>2, <1>4 DEF Kept
  <2> QED  BY <2>1 DEF KeptAt, Kept
<1>5. CASE Restored(t, lo, hi)
  <2>1. \A e \in Items(plan'[t]) : Leaves(e, <<"lo", lo>>) /\ Leaves(e, <<"hi", hi>>)
    BY <1>2, <1>5 DEF Restored
  <2>2. Restored(t, lo, hi)'
    BY <1>3, <1>5, <2>1 DEF Restored, Leaves, Writing
  <2> QED  BY <2>2 DEF KeptAt
<1> QED  BY <1>3, <1>4, <1>5 DEF KeptAt

\* So every step of the call keeps them.
LEMMA MovesKeepLimits ==
  ASSUME StepBounds, StepInv, NEW t \in Prof!Workers, Moves(t), KeepInv(t)
  PROVE  KeepInv(t)'
<1>1. /\ MachineTypes /\ InOrder /\ ThreadTypes /\ ThreadInv(t) /\ WorkInv(t)
      /\ Framed(t) /\ mine[t] # {}
  BY MovesKeep DEF StepInv
<1>2. /\ PlanShape(plan[t]) /\ IsSeq(plan[t])
      /\ mine'[t] = mine[t] /\ alone'[t] = alone[t] /\ before'[t] = before[t]
  BY <1>1 DEF ThreadInv, PlanShape, Framed
<1> SUFFICES ASSUME Switches(t)'
             PROVE  \E lo, hi \in HwMin..HwMax : KeptAt(t, lo, hi)'
  BY DEF KeepInv
<1>3. PICK w : w = Head(plan[t])
  OBVIOUS
<1>4. fate[t] = "ok" /\ (Prof!WriteFails(t) => w.soft = "each")
  <2>1. CASE Prof!WriteFails(t)
    <3>1. plan[t] # <<>>
      BY <2>1 DEF Prof!WriteFails
    <3>2. w.soft \in {"no", "group", "each"}
      <4>1. w \in Items(plan[t])
        BY <1>2, <1>3, <3>1, FirstOfPlan
      <4> QED  BY <1>2, <4>1 DEF PlanShape, IsItem
    <3>3. fate' = [fate EXCEPT ![t] = CASE w.soft = "no" -> "failed"
                                        [] w.soft = "group" -> "warned"
                                        [] w.soft = "each" -> @]
      BY <1>3, <2>1 DEF Prof!WriteFails
    <3> QED  BY <1>1, <3>2, <3>3 DEF ThreadTypes, Switches
  <2>2. CASE Prof!Turn(t) \/ Prof!PutBack(t) \/ Prof!Flag(t) \/ Prof!WriteFile(t)
    <3>1. UNCHANGED fate
      BY <2>2 DEF Prof!Turn, Prof!PutBack, Prof!Flag, Prof!WriteFile
    <3>2. CASE Prof!WriteFails(t)
      BY <2>1, <3>2
    <3> QED  BY <3>1, <3>2 DEF Switches
  <2> QED  BY <2>1, <2>2 DEF Moves
<1>5. Switches(t)
  BY <1>2, <1>4 DEF Switches, Prof!Uniform
<1>6. PICK lo, hi \in HwMin..HwMax : KeptAt(t, lo, hi)
  BY <1>5 DEF KeepInv
<1>7. KeptAt(t, lo, hi)'
  <2>1. CASE Prof!Turn(t)
    BY <1>5, <1>6, <2>1, TurnKeeps
  <2>2. CASE Prof!PutBack(t)
    BY <1>5, <1>6, <2>2, PutBackKeeps
  <2>3. CASE Prof!Flag(t) \/ Prof!WriteFails(t)
    <3>1. /\ plan[t] # <<>> /\ plan'[t] = Tail(plan[t]) /\ w.do \in {"flag", "write"}
          /\ w.soft = "each" \/ w.do = "flag"
          /\ UNCHANGED regs /\ reached'[t] = reached[t] /\ waiting'[t] = waiting[t]
      BY <1>1, <1>3, <1>4, <2>3 DEF Prof!Flag, Prof!WriteFails, Prof!history, ThreadTypes
    <3>2. Items(plan[t]) = {w} \cup Items(plan'[t])
      BY <1>2, <1>3, <3>1, FirstOfPlan
    <3>3. \A e \in Items(plan[t]) : e.do = "write" /\ e.soft = "group" => e \in Items(plan'[t])
      BY <3>1, <3>2
    <3>4. Restored(t, lo, hi) => Made(t, <<"lo", lo>>, "group")' /\ Made(t, <<"hi", hi>>, "group")'
      BY <3>1, <3>3, MadeStays DEF Restored
    <3> QED  BY <1>2, <1>3, <1>6, <3>1, <3>4, DroppingKeeps
  <2>4. CASE Prof!WriteFile(t)
    <3>1. plan[t] # <<>> /\ plan'[t] = Tail(plan[t]) /\ w.do = "write" /\ waiting'[t] = waiting[t]
      BY <1>1, <1>3, <2>4 DEF Prof!WriteFile, ThreadTypes
    <3>2. reached[t] \subseteq Prof!Online /\ DOMAIN plan = Prof!Workers
      BY <1>1 DEF ThreadInv, ThreadTypes
    <3>3. ASSUME NEW x, x[1] \in Names, \A e \in Items(plan[t]) : Leaves(e, x), Made(t, x, "group")
          PROVE  Made(t, x, "group")'
      BY <1>1, <1>2, <2>4, <3>2, <3>3, MadeWrites
    <3>4. Restored(t, lo, hi) => Made(t, <<"lo", lo>>, "group")' /\ Made(t, <<"hi", hi>>, "group")'
      <4>1. <<"lo", lo>>[1] \in Names /\ <<"hi", hi>>[1] \in Names
        BY DEF Names
      <4> QED  BY <3>3, <4>1 DEF Restored
    <3> QED  BY <1>2, <1>3, <1>6, <3>1, <3>4, DroppingKeeps
  <2> QED  BY <2>1, <2>2, <2>3, <2>4 DEF Moves
<1> QED  BY <1>7

-----------------------------------------------------------------------------
\* Limits that are not those of the hardware have left the flag up, or it is in a plan.
Dirty == \E c \in Cpus : regs[<<"lo", c>>] # HwMin \/ regs[<<"hi", c>>] # HwMax
Flagging(t) == \E e \in Items(plan[t]) : e.do = "flag"
DirtyInv == Dirty /\ ~modified /\ ~torn => \E t \in Prof!Workers : Flagging(t)

\* The plan that dirties the limits ends in the flag, unless a write in it fails.
LEMMA MovesKeepDirty ==
  ASSUME StepBounds, StepInv, DirtyInv, NEW t \in Prof!Workers, Moves(t)  PROVE DirtyInv'
<1>1. /\ MachineTypes /\ InOrder /\ ThreadTypes /\ ThreadInv(t) /\ WorkInv(t)
      /\ Framed(t) /\ mine[t] # {} /\ PlanShape(plan'[t])
  BY MovesKeep DEF StepInv, MovedOn
<1>2. PlanShape(plan[t]) /\ IsSeq(plan[t])
  BY <1>1 DEF ThreadInv, PlanShape
<1>3. PICK w : w = Head(plan[t])
  OBVIOUS
<1>4. ASSUME UNCHANGED <<regs, modified>>, torn' \/ torn' = torn,
             Flagging(t) => Flagging(t)' \/ torn'
      PROVE  DirtyInv'
  <2>1. \A u \in Prof!Workers \ {t} : Flagging(u)' = Flagging(u)
    BY <1>1 DEF Framed, Flagging
  <2> QED  BY <1>4, <2>1 DEF DirtyInv, Dirty
<1>5. CASE Prof!Turn(t)
  <2>1. ~Flagging(t)
    BY <1>5, NothingLeft DEF Prof!Turn, Flagging
  <2> QED  BY <1>4, <1>5, <2>1 DEF Prof!Turn
<1>6. CASE Prof!PutBack(t)
  <2>1. Items(plan[t]) = {Head(plan[t])} /\ Head(plan[t]).do = "limits"
    BY <1>1, <1>6, PutBackMovesOn
  <2>2. ~Flagging(t)
    BY <2>1 DEF Flagging
  <2> QED  BY <1>4, <1>6, <2>2 DEF Prof!PutBack
<1>7. CASE Prof!Flag(t)
  BY <1>7 DEF Prof!Flag, DirtyInv
<1>8. CASE Prof!WriteFails(t)
  <2>1. plan[t] # <<>> /\ w.do = "write" /\ torn' = (torn \/ w.file[1] \in {"lo", "hi"})
        /\ UNCHANGED <<regs, modified>>
    BY <1>3, <1>8 DEF Prof!WriteFails
  <2>2. w \in Items(plan[t])
    BY <1>2, <1>3, <2>1, FirstOfPlan
  <2>3. ASSUME Flagging(t)  PROVE torn'
    <3>1. PICK i \in 1..Len(plan[t]) : plan[t][i].do = "flag"
      BY <2>3 DEF Flagging, Items
    <3>2. w.file[1] \in {"lo", "hi"}
      BY <1>2, <2>1, <2>2, <3>1 DEF PlanShape
    <3> QED  BY <2>1, <3>2
  <2>4. torn' \/ torn' = torn
    BY <1>1, <2>1 DEF ThreadTypes
  <2> QED  BY <1>4, <2>1, <2>3, <2>4
<1>9. CASE Prof!WriteFile(t)
  <2>1. /\ plan[t] # <<>> /\ w.do = "write" /\ plan'[t] = Tail(plan[t]) /\ Prof!Guard(w) /\ Prof!Accepts(w)
        /\ regs' = Prof!After(w) /\ UNCHANGED <<modified, torn>>
    BY <1>1, <1>3, <1>9 DEF Prof!WriteFile, ThreadTypes
  <2>2. w \in Items(plan[t]) /\ IsItem(w) /\ Items(plan[t]) = {w} \cup Items(plan'[t])
    BY <1>2, <1>3, <2>1, FirstOfPlan DEF PlanShape
  <2>3. w.file[1] # "online"
    BY <1>1, <1>3, <1>9, WriteMovesOn
  <2>4. Flagging(t) => Flagging(t)'
    BY <2>1, <2>2 DEF Flagging
  <2>5. CASE \A c \in Cpus : regs'[<<"lo", c>>] = HwMin /\ regs'[<<"hi", c>>] = HwMax
    BY <2>5 DEF DirtyInv, Dirty
  <2>6. CASE w.file[1] \in {"lo", "hi"}
    <3>1. PICK n : n = Len(plan[t])
      OBVIOUS
    <3>2. n \in Nat \ {0} /\ plan[t][n].do = "flag"
      BY <1>2, <2>1, <2>2, <2>6, <3>1, FirstOfPlan DEF PlanShape, Writing
    <3>3. plan[t][n] \in Items(plan[t])
      BY <3>1, <3>2 DEF Items
    <3>4. Flagging(t)'
      BY <2>1, <2>2, <3>2, <3>3 DEF Flagging
    <3> QED  BY <3>4 DEF DirtyInv
  <2>7. CASE \A c \in Cpus : UNCHANGED <<regs[<<"lo", c>>], regs[<<"hi", c>>]>>
    <3>1. Dirty' => Dirty
      BY <2>7 DEF Dirty
    <3>2. \A u \in Prof!Workers \ {t} : Flagging(u)' = Flagging(u)
      BY <1>1 DEF Framed, Flagging
    <3> QED  BY <2>1, <2>4, <3>1, <3>2 DEF DirtyInv
  <2> QED  BY <1>1, <2>1, <2>2, <2>3, <2>5, <2>6, <2>7, MachineWrite
<1> QED  BY <1>5, <1>6, <1>7, <1>8, <1>9 DEF Moves

\* What main does at the end: it writes the limits of the hardware, and knows of a failure.
MainInv ==
  /\ mine[Prof!Main] = IF phase = "restores" THEN {Restore} ELSE {}
  /\ \A e \in Items(plan[Prof!Main]) : e.do = "write" => e.file[1] \in {"lo", "hi"}
  /\ phase = "restores" /\ alone[Prof!Main] => reached[Prof!Main] = Prof!Online /\ (fate[Prof!Main] = "failed" => torn)

\* Main, alone, writes the limits and nothing else: no CPU goes offline meanwhile.
LEMMA MovesKeepMain ==
  ASSUME StepBounds, StepInv, MainInv, NEW t \in Prof!Workers, Moves(t)  PROVE MainInv'
<1>1. /\ MachineTypes /\ InOrder /\ ThreadTypes /\ ThreadInv(t) /\ WorkInv(t)
      /\ Framed(t) /\ mine[t] # {}
      /\ \A u \in Prof!Workers : u # t /\ mine[u] # {} => ~alone[u]
  BY MovesKeep DEF StepInv
<1>2. /\ mine' = mine /\ alone' = alone /\ phase' = phase
  BY <1>1 DEF Framed
<1>3. PlanShape(plan[t]) /\ IsSeq(plan[t])
  BY <1>1 DEF ThreadInv, PlanShape
<1>4. Prof!Main \in Prof!Workers /\ Restore' = Restore
  BY DEF Prof!Workers, Restore
<1>5. CASE t # Prof!Main
  <2>1. plan'[Prof!Main] = plan[Prof!Main]
    BY <1>1, <1>4, <1>5 DEF Framed
  <2>2. phase = "restores" => ~alone[Prof!Main]
    <3>1. phase = "restores" => mine[Prof!Main] # {}
      BY DEF MainInv
    <3> QED  BY <1>1, <1>4, <1>5, <3>1
  <2> QED  BY <1>2, <1>4, <2>1, <2>2 DEF MainInv, Items
<1>6. CASE t = Prof!Main
  <2>1. phase = "restores" /\ mine[Prof!Main] = {Restore}
    BY <1>1, <1>6 DEF MainInv
  <2>2. PICK w : w = Head(plan[t])
    OBVIOUS
  <2>3. fate[t] = "failed" => plan[t] = <<>> /\ waiting[t] = {}
    BY <1>1 DEF ThreadInv
  <2>4. \A e \in Items(plan[t]) : e.do = "write" => e.file[1] \in {"lo", "hi"}
    BY <1>6 DEF MainInv
  <2>5. ASSUME \A e \in Items(plan'[t]) : e.do = "write" => e.file[1] \in {"lo", "hi"},
               Prof!Online' = Prof!Online, fate'[t] = "failed" => torn'
        PROVE  MainInv'
    <3>1. reached'[t] = reached[t] \cap Prof!Online'
      BY <1>1 DEF Framed
    <3>2. reached[t] = Prof!Online \/ ~alone[t]
      BY <1>6, <2>1 DEF MainInv
    <3> QED  BY <1>2, <1>4, <1>6, <2>1, <2>5, <3>1, <3>2 DEF MainInv
  <2>6. CASE Prof!Turn(t)
    <3>1. PICK s \in waiting[t] : plan'[t] = Prof!Writes(s)
      BY <1>1, <2>6 DEF Prof!Turn, ThreadTypes
    <3>2. s \in mine[t] /\ IsSetting(s) /\ s.do = "limits"
      BY <1>1, <1>6, <2>1, <3>1 DEF ThreadInv, IsCall, Restore
    <3>3. TurnOf(plan'[t], s)
      BY <1>1, <3>1, <3>2, TurnServes
    <3>4. \A e \in Items(plan'[t]) : e.do = "write" => e.file[1] \in {"lo", "hi"}
      BY <3>2, <3>3 DEF TurnOf, FilesOf
    <3>5. fate'[t] # "failed" /\ Prof!Online' = Prof!Online
      BY <2>3, <2>6 DEF Prof!Turn, Prof!Online
    <3> QED  BY <2>5, <3>4, <3>5
  <2>7. CASE Prof!PutBack(t)
    <3>1. Head(plan[t]).do = "limits" /\ Serves(plan'[t], Head(plan[t]), "group")
      BY <1>1, <2>7, PutBackMovesOn
    <3>2. \A e \in Items(plan'[t]) : e.do = "write" => e.file[1] \in {"lo", "hi"}
      BY <3>1 DEF Serves, FilesOf
    <3>3. plan[t] # <<>>
      <4>1. Len(<<>>) = 0
        OBVIOUS
      <4> QED  BY <2>7, <4>1 DEF Prof!PutBack
    <3>4. fate'[t] # "failed" /\ Prof!Online' = Prof!Online
      BY <2>3, <2>7, <3>3 DEF Prof!PutBack, Prof!Online
    <3> QED  BY <2>5, <3>2, <3>4
  <2>8. CASE Prof!Flag(t) \/ Prof!WriteFile(t)
    <3>1. plan[t] # <<>> /\ plan'[t] = Tail(plan[t]) /\ UNCHANGED fate
      BY <1>1, <2>8 DEF Prof!Flag, Prof!WriteFile, ThreadTypes
    <3>2. Items(plan[t]) = {w} \cup Items(plan'[t])
      BY <1>3, <2>2, <3>1, FirstOfPlan
    <3>3. Prof!Online' = Prof!Online
      <4>1. CASE Prof!Flag(t)
        BY <4>1 DEF Prof!Flag, Prof!Online
      <4>2. CASE Prof!WriteFile(t)
        <5>1. w.do = "write" /\ Prof!Guard(w) /\ Prof!Accepts(w) /\ regs' = Prof!After(w)
          BY <2>2, <4>2 DEF Prof!WriteFile
        <5>2. w.file[1] \in {"lo", "hi"} /\ IsItem(w)
          BY <1>3, <2>4, <3>2, <5>1 DEF PlanShape
        <5> QED  BY <1>1, <5>1, <5>2, MachineWrite
      <4> QED  BY <2>8, <4>1, <4>2
    <3> QED  BY <2>3, <2>4, <2>5, <3>1, <3>2, <3>3
  <2>9. CASE Prof!WriteFails(t)
    <3>1. /\ plan[t] # <<>> /\ w.do = "write" /\ torn' = (torn \/ w.file[1] \in {"lo", "hi"})
          /\ plan'[t] = Tail(plan[t]) \/ plan'[t] = <<>>
          /\ UNCHANGED regs
      BY <1>1, <2>2, <2>9 DEF Prof!WriteFails, ThreadTypes
    <3>2. Items(plan[t]) = {w} \cup Items(Tail(plan[t]))
      BY <1>3, <2>2, <3>1, FirstOfPlan
    <3>3. torn'
      BY <2>4, <3>1, <3>2
    <3>4. \A e \in Items(plan'[t]) : e.do = "write" => e.file[1] \in {"lo", "hi"}
      BY <2>4, <3>1, <3>2, NothingLeft
    <3>5. Prof!Online' = Prof!Online
      BY <3>1 DEF Prof!Online
    <3> QED  BY <2>5, <3>3, <3>4, <3>5
  <2> QED  BY <2>6, <2>7, <2>8, <2>9 DEF Moves
<1> QED  BY <1>5, <1>6

-----------------------------------------------------------------------------
\* What was told is so, and while it stands nobody is at work.
ToldInv ==
  /\ Prof!AppliedAsAsked /\ (Strict => Prof!ModeKeepsLimits)
  /\ told.asked # {} => \A u \in Prof!Workers : mine[u] = {}

ProfileInv ==
  /\ StepInv /\ ToldInv /\ DirtyInv /\ MainInv /\ Prof!RestoredAtExit
  /\ Strict => \A t \in Prof!Workers : KeepInv(t)

\* A step that tells nothing.
LEMMA NothingTold == told'.asked = {} => ToldInv'
  BY DEF ToldInv, Prof!AppliedAsAsked, Prof!ModeKeepsLimits

\* A step that writes nothing.
LEMMA SameMachine ==
  ASSUME UNCHANGED regs
  PROVE  /\ Prof!Online' = Prof!Online /\ Prof!SomeLimits' = Prof!SomeLimits
         /\ \A s, cpus : Prof!AsAsked(s, cpus)' = Prof!AsAsked(s, cpus)
         /\ Dirty' = Dirty
<1>1. Prof!Online' = Prof!Online /\ Dirty' = Dirty
  BY DEF Prof!Online, Dirty
<1>2. Prof!SomeLimits' = Prof!SomeLimits
  BY <1>1 DEF Prof!SomeLimits
<1>3. \A s, cpus : Prof!AsAsked(s, cpus)' = Prof!AsAsked(s, cpus)
  BY DEF Prof!AsAsked, Prof!Lo, Prof!Hi, Prof!Clamp, Prof!Percent
<1> QED  BY <1>1, <1>2, <1>3

\* An answer is true when it is given.
LEMMA ReplyTells ==
  ASSUME StepBounds, StepInv, NEW t \in Prof!Workers, Prof!Reply(t), Strict => KeepInv(t)
  PROVE  ToldInv'
<1>1. /\ MachineTypes /\ ThreadTypes /\ ThreadInv(t) /\ WorkInv(t)
  BY DEF StepInv
<1>2. /\ mine[t] # {} /\ mine'[t] = {} /\ plan[t] = <<>> /\ waiting[t] = {}
      /\ UNCHANGED regs /\ \A u \in Prof!Workers \ {t} : mine'[u] = mine[u]
  BY Replies
<1>3. CASE fate[t] # "failed" /\ alone[t]
  <2>1. told' = [asked |-> mine[t], fate |-> fate[t], cpus |-> reached[t], before |-> before[t]]
    BY <1>3 DEF Prof!Reply
  <2>2. /\ told'.asked = mine[t] /\ told'.fate = fate[t] /\ told'.cpus = reached[t]
        /\ told'.before = before[t]
    BY <2>1
  <2>3. reached[t] \subseteq Prof!Online /\ (\A u \in Prof!Workers : mine'[u] = {})
        /\ \A s \in mine[t] : IsSetting(s)
    BY <1>1, <1>2, <1>3 DEF ThreadInv, IsCall
  <2>4. ASSUME NEW s \in mine[t]  PROVE Prof!AsAsked(s, reached[t])
    <3>1. Settled(t, s) /\ IsSetting(s)
      BY <1>1, <1>2, <1>3, <2>3 DEF WorkInv
    <3> QED  BY <1>1, <1>2, <2>3, <3>1, SettledIsAsked
  <2>5. Prof!AppliedAsAsked'
    <3>1. PICK cpus : cpus = reached[t]
      OBVIOUS
    <3>2. \A s \in mine[t] : Prof!AsAsked(s, cpus)'
      BY <1>2, <2>4, <3>1, SameMachine
    <3> QED  BY <2>2, <3>1, <3>2 DEF Prof!AppliedAsAsked, Prof!AsAsked
  <2>6. ASSUME Strict  PROVE Prof!ModeKeepsLimits'
    <3>1. Prof!Uniform(told.before)' = Prof!Uniform(before[t])
      BY <2>2 DEF Prof!Uniform
    <3>2. CASE Switches(t)
      <4>1. \A c \in reached[t] : Prof!SomeLimits[c] = before[t][c]
        BY <1>2, <2>6, <3>2, KeptIsBefore
      <4>2. \A c \in told'.cpus : Prof!SomeLimits'[c] = told'.before[c]
        BY <1>2, <2>2, <4>1, SameMachine
      <4> QED  BY <4>2 DEF Prof!ModeKeepsLimits
    <3>3. CASE ~Switches(t)
      BY <1>2, <1>3, <2>2, <3>1, <3>3 DEF Prof!ModeKeepsLimits, Switches
    <3> QED  BY <3>2, <3>3
  <2> QED  BY <2>3, <2>5, <2>6 DEF ToldInv
<1>4. CASE ~(fate[t] # "failed" /\ alone[t])
  <2>1. told'.asked = {}
    BY <1>4 DEF Prof!Reply, Prof!Nobody
  <2> QED  BY <2>1, NothingTold
<1> QED  BY <1>3, <1>4

\* Main is done: the limits are those of the hardware.
LEMMA MainRestores ==
  ASSUME StepBounds, StepInv, MainInv, Prof!Reply(Prof!Main), ~torn, alone[Prof!Main]
  PROVE  \A c \in Prof!Online : Prof!SomeLimits[c] = <<HwMin, HwMax>>
<1>1. Prof!Main \in Prof!Workers
  BY DEF Prof!Workers
<1>2. /\ MachineTypes /\ ThreadInv(Prof!Main) /\ WorkInv(Prof!Main)
      /\ mine[Prof!Main] # {} /\ plan[Prof!Main] = <<>> /\ waiting[Prof!Main] = {}
  BY <1>1, Replies DEF StepInv
<1>3. mine[Prof!Main] = {Restore} /\ reached[Prof!Main] = Prof!Online /\ fate[Prof!Main] # "failed"
  BY <1>2 DEF MainInv
<1>4. Settled(Prof!Main, Restore) /\ IsSetting(Restore)
  BY <1>2, <1>3 DEF WorkInv, ThreadInv, IsCall
<1>5. Prof!AsAsked(Restore, Prof!Online)
  BY <1>2, <1>3, <1>4, SettledIsAsked
<1>6. Prof!Lo(Restore) = HwMin /\ Prof!Hi(Restore) = HwMax /\ Restore.do = "limits"
  BY DEF Restore, Prof!Lo, Prof!Hi, Prof!Clamp, StepBounds
<1>7. \A c \in Prof!Online : regs[<<"lo", c>>] = HwMin /\ regs[<<"hi", c>>] = HwMax
  BY <1>5, <1>6 DEF Prof!AsAsked
<1> QED  BY <1>7 DEF Prof!SomeLimits

\* The machine as it is found, with nobody at work.
LEMMA ProfileInit == ASSUME StepBounds, Prof!Init  PROVE ProfileInv
<1> DEFINE m0 == CHOOSE m \in Prof!Modes : TRUE
           g0 == CHOOSE g \in Offered[m0] : TRUE
<1>1. m0 \in Prof!Modes /\ g0 \in Offered[m0]
  <2>1. m0 \in Prof!Modes
    BY DEF StepBounds
  <2>2. Offered[m0] # {}
    BY <2>1 DEF StepBounds
  <2> QED  BY <2>1, <2>2
<1>2. regs = [r \in Prof!Files |->
       CASE r[1] = "lo" -> HwMin
         [] r[1] = "hi" -> HwMax
         [] r[1] = "mode" -> m0
         [] r[1] = "gov" -> g0
         [] r[1] = "epp" -> "default"
         [] r[1] \in {"online", "boost", "smt"} -> TRUE
         [] r[1] = "colour" -> "white"
         [] r[1] = "charge" -> "Standard"
         [] r[1] = "tdp" -> 1
         [] OTHER -> 0]
  BY Zenon DEF Prof!Init
<1> HIDE DEF m0, g0
<1>3. \A k, c : <<k, c>> \in Prof!Files => regs[<<k, c>>] =
       CASE k = "lo" -> HwMin
         [] k = "hi" -> HwMax
         [] k = "mode" -> m0
         [] k = "gov" -> g0
         [] k = "epp" -> "default"
         [] k \in {"online", "boost", "smt"} -> TRUE
         [] k = "colour" -> "white"
         [] k = "charge" -> "Standard"
         [] k = "tdp" -> 1
         [] OTHER -> 0
  BY <1>2
<1>4. DOMAIN regs = Prof!Files
  BY <1>2
<1>5. ASSUME NEW c \in Cpus
      PROVE  /\ regs[<<"lo", c>>] = HwMin /\ regs[<<"hi", c>>] = HwMax
             /\ regs[<<"gov", c>>] = g0 /\ regs[<<"epp", c>>] = "default"
             /\ regs[<<"online", c>>] = TRUE
  BY <1>3, FilesThere DEF Prof!Kinds
<1>6. /\ regs[<<"mode", 0>>] = m0 /\ regs[<<"tdp", 0>>] = 1
      /\ regs[<<"screen", 0>>] = 0 /\ regs[<<"light", 0>>] = 0
      /\ regs[<<"start", 0>>] = 0 /\ regs[<<"end", 0>>] = 0
  BY <1>3, FilesThere DEF Prof!Singles
<1>7. MachineTypes /\ InOrder /\ ~Dirty
  <2>1. HwMin \in HwMin..HwMax /\ HwMax \in HwMin..HwMax /\ HwMin <= HwMax /\ 0 \in 0..MaxLight
    BY DEF StepBounds
  <2>2. 0 \in Cpus /\ "default" \in Prof!EppValues
    BY FilesThere DEF Prof!EppValues
  <2>3. MachineTypes
    <3>1. /\ regs[<<"gov", 0>>] = g0 /\ regs[<<"online", 0>>] = TRUE
          /\ g0 \in Offered[regs[<<"mode", 0>>]] /\ regs[<<"mode", 0>>] \in Prof!Modes
      BY <1>1, <1>5, <1>6, <2>2
    <3>2. /\ regs[<<"screen", 0>>] \in 0..MaxLight /\ regs[<<"light", 0>>] \in 0..MaxLight
          /\ regs[<<"tdp", 0>>] \in 1..3
          /\ regs[<<"start", 0>>] \in 0..100 /\ regs[<<"end", 0>>] \in 0..100
      BY <1>6, <2>1
    <3>3. \A c \in Cpus : /\ regs[<<"lo", c>>] \in HwMin..HwMax /\ regs[<<"hi", c>>] \in HwMin..HwMax
                          /\ regs[<<"gov", c>>] \in Offered[regs[<<"mode", 0>>]]
                          /\ regs[<<"epp", c>>] \in Prof!EppValues
      BY <1>1, <1>5, <1>6, <2>1, <2>2
    <3> QED  BY <1>4, <3>1, <3>2, <3>3 DEF MachineTypes
  <2>4. InOrder
    BY <1>5, <2>1 DEF InOrder
  <2> QED  BY <1>5, <2>3, <2>4 DEF Dirty
<1>8. /\ waiting = [t \in Prof!Workers |-> {}] /\ plan = [t \in Prof!Workers |-> <<>>]
      /\ mine = [t \in Prof!Workers |-> {}]
      /\ fate = [t \in Prof!Workers |-> "ok"] /\ alone = [t \in Prof!Workers |-> TRUE]
      /\ reached = [t \in Prof!Workers |-> {}] /\ before = [t \in Prof!Workers |-> <<>>]
      /\ modified = FALSE /\ torn = FALSE /\ told = Prof!Nobody /\ used = 0 /\ phase = "runs"
  BY DEF Prof!Init
<1>9. ThreadTypes
  <2>1. /\ DOMAIN waiting = Prof!Workers /\ DOMAIN plan = Prof!Workers /\ DOMAIN mine = Prof!Workers
        /\ DOMAIN before = Prof!Workers
    BY <1>8
  <2>2. /\ fate \in [Prof!Workers -> {"ok", "warned", "failed"}] /\ alone \in [Prof!Workers -> BOOLEAN]
        /\ reached \in [Prof!Workers -> SUBSET Cpus]
    BY <1>8
  <2>3. modified \in BOOLEAN /\ torn \in BOOLEAN /\ phase \in {"runs", "restores", "gone"}
    BY <1>8
  <2>4. used \in 0..MaxRequests
    BY <1>8 DEF StepBounds
  <2> QED  BY <2>1, <2>2, <2>3, <2>4 DEF ThreadTypes
<1>10. ASSUME NEW t \in Prof!Workers  PROVE ThreadInv(t) /\ WorkInv(t) /\ KeepInv(t)
  BY <1>8, NothingLeft DEF ThreadInv, WorkInv, KeepInv, Switches, IsCall
<1>11. Prof!Main \in Prof!Workers /\ told.asked = {}
  BY <1>8 DEF Prof!Workers, Prof!Nobody
<1>12. ToldInv
  BY <1>11 DEF ToldInv, Prof!AppliedAsAsked, Prof!ModeKeepsLimits
<1>13. MainInv
  BY <1>8, <1>11, NothingLeft DEF MainInv
<1>14. DirtyInv /\ Prof!RestoredAtExit
  BY <1>7, <1>8 DEF DirtyInv, Prof!RestoredAtExit
<1> QED  BY <1>7, <1>9, <1>10, <1>12, <1>13, <1>14 DEF ProfileInv, StepInv

\* The steps of the system, one by one.
LEMMA MovesStep ==
  ASSUME StepBounds, ProfileInv, NEW t \in Prof!Workers, Moves(t), phase # "gone"  PROVE ProfileInv'
<1>1. StepInv /\ ToldInv /\ DirtyInv /\ MainInv
  BY DEF ProfileInv
<1>2. /\ StepInv' /\ Framed(t) /\ mine[t] # {}
      /\ \A u \in Prof!Workers : u # t /\ mine[u] # {} => ~alone[u]
  BY <1>1, MovesKeep
<1>3. DirtyInv' /\ MainInv'
  BY <1>1, MovesKeepDirty, MovesKeepMain
<1>4. told'.asked = {} /\ phase' # "gone"
  BY <1>1, <1>2 DEF ToldInv, Framed
<1>5. ToldInv' /\ Prof!RestoredAtExit'
  BY <1>4, NothingTold DEF Prof!RestoredAtExit
<1>6. ASSUME Strict, NEW u \in Prof!Workers  PROVE KeepInv(u)'
  <2>1. CASE u = t
    BY <1>1, <1>6, <2>1, MovesKeepLimits DEF ProfileInv
  <2>2. CASE u # t
    <3>1. ~Switches(u)'
      BY <1>2, <2>2 DEF Framed, Switches
    <3> QED  BY <3>1 DEF KeepInv
  <2> QED  BY <2>1, <2>2
<1> QED  BY <1>2, <1>3, <1>5, <1>6 DEF ProfileInv

\* Nothing is written at a beginning or an answer.
LEMMA DirtyStays ==
  ASSUME DirtyInv, UNCHANGED <<regs, plan, modified, torn>>  PROVE DirtyInv'
  BY DEF DirtyInv, Dirty, Flagging, Items

LEMMA StartStep ==
  ASSUME StepBounds, ProfileInv, NEW t \in Prof!Workers, mine[t] = {}, NEW r, IsCall(r), Prof!Begin(t, r),
         UNCHANGED <<regs, plan, modified, torn>>, phase' \in {"runs", "restores"},
         used' \in 0..MaxRequests, MainInv'
  PROVE  ProfileInv'
<1>1. StepInv /\ ToldInv /\ DirtyInv /\ MainInv
  BY DEF ProfileInv
<1>2. Started(t, r) /\ told' = Prof!Nobody /\ StepInv'
  BY <1>1, Starts
<1>3. DirtyInv' /\ Prof!RestoredAtExit'
  BY <1>1, DirtyStays DEF Prof!RestoredAtExit
<1>4. ToldInv'
  BY <1>2, NothingTold DEF Prof!Nobody
<1>5. ASSUME Strict, NEW u \in Prof!Workers  PROVE KeepInv(u)'
  <2>1. CASE u = t
    BY <1>1, <1>2, <1>5, <2>1, KeptAtStart
  <2>2. CASE u # t
    <3>1. /\ UNCHANGED <<regs, waiting[u], plan[u], mine[u], fate[u], reached[u], before[u]>>
          /\ alone'[u] => alone[u]
      BY <1>2, <2>2 DEF Started
    <3> QED  BY <1>5, <3>1, KeptStays DEF ProfileInv
  <2> QED  BY <2>1, <2>2
<1> QED  BY <1>2, <1>3, <1>4, <1>5 DEF ProfileInv

LEMMA CallStep ==
  ASSUME StepBounds, ProfileInv, NEW c \in Clients, Prof!Call(c)  PROVE ProfileInv'
<1>1. c \in Prof!Workers /\ c # Prof!Main /\ Prof!Main \in Prof!Workers
  BY DEF Prof!Workers, StepBounds
<1>2. PICK r \in Requests : Prof!Begin(c, r)
  BY DEF Prof!Call
<1>3. /\ mine[c] = {} /\ phase # "gone" /\ phase' = phase /\ used' \in 0..MaxRequests
      /\ UNCHANGED <<regs, plan, modified, torn>> /\ IsCall(r)
      /\ StepInv /\ MainInv
  BY DEF Prof!Call, StepBounds, ProfileInv, StepInv, ThreadTypes
<1>4. phase \in {"runs", "restores"}
  BY <1>3 DEF StepInv, ThreadTypes
<1>5. Started(c, r)
  BY <1>1, <1>2, <1>3, <1>4, Starts
<1>6. MainInv'
  <2>1. mine'[Prof!Main] = mine[Prof!Main] /\ (alone'[Prof!Main] => mine[Prof!Main] = {}) /\ Restore' = Restore
    BY <1>1, <1>5 DEF Started, Restore
  <2> QED  BY <1>3, <2>1 DEF MainInv, Items
<1> QED  BY <1>1, <1>2, <1>3, <1>4, <1>6, StartStep

LEMMA ReplyStep ==
  ASSUME StepBounds, ProfileInv, NEW t \in Prof!Workers, Prof!Reply(t), phase # "gone"  PROVE ProfileInv'
<1>1. StepInv /\ ToldInv /\ DirtyInv /\ MainInv
  BY DEF ProfileInv
<1>2. /\ StepInv' /\ mine[t] # {} /\ mine'[t] = {} /\ plan[t] = <<>> /\ waiting[t] = {}
      /\ UNCHANGED <<regs, waiting, plan, fate, alone, modified, torn, used>>
      /\ \A u \in Prof!Workers \ {t} :
           mine'[u] = mine[u] /\ reached'[u] = reached[u] /\ before'[u] = before[u]
  BY <1>1, Replies
<1>3. phase' = IF t = Prof!Main THEN "gone" ELSE phase
  BY DEF Prof!Reply
<1>4. ToldInv'
  BY <1>1, ReplyTells DEF ProfileInv
<1>5. DirtyInv'
  BY <1>1, <1>2, DirtyStays
<1>6. Prof!Main \in Prof!Workers /\ Restore' = Restore /\ Prof!Online' = Prof!Online
  BY <1>2, SameMachine DEF Prof!Workers, Restore
<1>7. MainInv'
  <2>1. CASE t = Prof!Main
    BY <1>1, <1>2, <1>3, <1>6, <2>1 DEF MainInv, Items
  <2>2. CASE t # Prof!Main
    BY <1>1, <1>2, <1>3, <1>6, <2>2 DEF MainInv, Items
  <2> QED  BY <2>1, <2>2
<1>8. Prof!RestoredAtExit'
  <2>1. CASE t = Prof!Main
    <3>1. ~torn /\ alone[Prof!Main] => \A c \in Prof!Online : Prof!SomeLimits[c] = <<HwMin, HwMax>>
      BY <1>1, <2>1, MainRestores
    <3> QED  BY <1>2, <3>1, SameMachine DEF Prof!RestoredAtExit
  <2>2. CASE t # Prof!Main
    BY <1>3, <2>2 DEF Prof!RestoredAtExit
  <2> QED  BY <2>1, <2>2
<1>9. ASSUME Strict, NEW u \in Prof!Workers  PROVE KeepInv(u)'
  <2>1. CASE u = t
    <3>1. ~Switches(u)'
      BY <1>2, <2>1 DEF Switches
    <3> QED  BY <3>1 DEF KeepInv
  <2>2. CASE u # t
    <3>1. /\ UNCHANGED <<regs, waiting[u], plan[u], mine[u], fate[u], reached[u], before[u]>>
          /\ alone'[u] => alone[u]
      BY <1>2, <2>2
    <3> QED  BY <1>9, <3>1, KeptStays DEF ProfileInv
  <2> QED  BY <2>1, <2>2
<1> QED  BY <1>2, <1>4, <1>5, <1>7, <1>8, <1>9 DEF ProfileInv

\* What is told stays so while the machine does.
LEMMA ToldStays ==
  ASSUME ToldInv, UNCHANGED <<regs, told, mine>>  PROVE ToldInv'
<1>1. PICK cpus, old : cpus = told.cpus /\ old = told.before
  OBVIOUS
<1>2. Prof!AppliedAsAsked'
  <2>1. \A s \in told.asked : Prof!AsAsked(s, cpus)'
    BY <1>1, SameMachine DEF ToldInv, Prof!AppliedAsAsked
  <2> QED  BY <1>1, <2>1 DEF Prof!AppliedAsAsked, Prof!AsAsked
<1>3. Strict => Prof!ModeKeepsLimits'
  BY SameMachine DEF ToldInv, Prof!ModeKeepsLimits, Prof!Uniform
<1> QED  BY <1>2, <1>3 DEF ToldInv

LEMMA ExitStep ==
  ASSUME StepBounds, ProfileInv, Prof!Exit  PROVE ProfileInv'
<1>1. StepInv /\ ToldInv /\ DirtyInv /\ MainInv
  BY DEF ProfileInv
<1>2. /\ phase = "runs" /\ Prof!Main \in Prof!Workers /\ mine[Prof!Main] = {}
      /\ UNCHANGED <<regs, plan, modified, torn, used>>
  BY <1>1 DEF Prof!Exit, Prof!Workers, MainInv
<1>3. /\ MachineTypes /\ InOrder /\ ThreadTypes
      /\ \A u \in Prof!Workers : ThreadInv(u) /\ WorkInv(u)
  BY <1>1 DEF StepInv
<1>4. plan[Prof!Main] = <<>> /\ Items(plan[Prof!Main]) = {} /\ Restore' = Restore
  BY <1>2, <1>3, NothingLeft DEF ThreadInv, Restore
<1>5. CASE modified
  <2>1. Prof!Begin(Prof!Main, {Restore}) /\ phase' = "restores"
    BY <1>5 DEF Prof!Exit, Restore
  <2>2. IsCall({Restore})
    BY DEF IsCall, IsSetting, Restore, StepBounds
  <2>3. used' \in 0..MaxRequests
    BY <1>2, <1>3 DEF ThreadTypes
  <2>4. Started(Prof!Main, {Restore})
    BY <1>1, <1>2, <2>1, <2>2, <2>3, Starts
  <2>5. MainInv'
    BY <1>2, <1>4, <2>1, <2>4, SameMachine DEF MainInv, Started, Items
  <2> QED  BY <1>2, <2>1, <2>2, <2>3, <2>5, StartStep
<1>6. CASE ~modified
  <2>1. phase' = "gone" /\ UNCHANGED <<waiting, mine, fate, alone, reached, before, told>>
    BY <1>6 DEF Prof!Exit, Prof!history
  <2>2. StepInv'
    <3>1. MachineTypes' /\ InOrder' /\ ThreadTypes'
      BY <1>2, <1>3, <2>1 DEF MachineTypes, InOrder, ThreadTypes
    <3>2. ASSUME NEW u \in Prof!Workers  PROVE ThreadInv(u)' /\ WorkInv(u)'
      <4>1. ThreadInv(u) /\ WorkInv(u)
        BY <1>3
      <4>2. PlanShape(plan[u])' /\ IsCall(mine[u])'
        <5>1. PlanShape(plan'[u]) /\ IsCall(mine'[u])
          BY <1>2, <2>1, <4>1 DEF ThreadInv
        <5> QED  BY <5>1 DEF PlanShape, IsSeq, Items, IsItem, Writing, FilesOf, IsCall, IsSetting
      <4>3. ThreadInv(u)'
        BY <1>2, <2>1, <4>1, <4>2, SameMachine DEF ThreadInv
      <4>4. ASSUME NEW s, Settled(u, s)  PROVE Settled(u, s)'
        <5>1. \A e \in Items(plan'[u]), x \in Wanted(s) : Leaves(e, x)
          BY <1>2, <4>4 DEF Settled
        <5> QED  BY <1>2, <2>1, <4>4, <5>1, SettledStays
      <4> QED  BY <2>1, <4>1, <4>3, <4>4 DEF WorkInv
    <3> QED  BY <3>1, <3>2 DEF StepInv
  <2>3. ToldInv' /\ DirtyInv'
    BY <1>1, <1>2, <2>1, ToldStays, DirtyStays
  <2>4. MainInv'
    BY <1>2, <1>4, <2>1 DEF MainInv, Items
  <2>5. Prof!RestoredAtExit'
    <3>1. ASSUME ~torn, \A t \in Clients : plan[t] = <<>>  PROVE ~Dirty
      <4>1. \A t \in Prof!Workers : ~Flagging(t)
        BY <1>4, <3>1, NothingLeft DEF Prof!Workers, Flagging
      <4> QED  BY <1>1, <1>6, <3>1, <4>1 DEF DirtyInv
    <3>2. ~Dirty => \A c \in Prof!Online : Prof!SomeLimits[c] = <<HwMin, HwMax>>
      BY DEF Dirty, Prof!SomeLimits, Prof!Online
    <3> QED  BY <1>2, <3>1, <3>2, SameMachine DEF Prof!RestoredAtExit
  <2>6. ASSUME Strict, NEW u \in Prof!Workers  PROVE KeepInv(u)'
    <3>1. KeepInv(u)
      BY <2>6 DEF ProfileInv
    <3> QED  BY <1>2, <2>1, <3>1, KeptStays
  <2> QED  BY <2>2, <2>3, <2>4, <2>5, <2>6 DEF ProfileInv
<1> QED  BY <1>5, <1>6

LEMMA ProfileStutters ==
  ASSUME StepBounds, ProfileInv, UNCHANGED Prof!stepVars  PROVE ProfileInv'
<1>1. StepInv /\ ToldInv /\ DirtyInv /\ MainInv /\ Prof!RestoredAtExit
  BY DEF ProfileInv
<1>2. UNCHANGED <<regs, waiting, plan, mine, fate, alone, reached, before, modified, torn, told, used, phase>>
  BY DEF Prof!stepVars, Prof!history
<1>3. StepInv'
  <2>1. MachineTypes' /\ InOrder' /\ ThreadTypes'
    BY <1>1, <1>2 DEF StepInv, MachineTypes, InOrder, ThreadTypes
  <2>2. ASSUME NEW u \in Prof!Workers  PROVE ThreadInv(u)' /\ WorkInv(u)'
    <3>1. ThreadInv(u) /\ WorkInv(u)
      BY <1>1 DEF StepInv
    <3>2. PlanShape(plan[u])' /\ IsCall(mine[u])'
      <4>1. PlanShape(plan'[u]) /\ IsCall(mine'[u])
        BY <1>2, <3>1 DEF ThreadInv
      <4> QED  BY <4>1 DEF PlanShape, IsSeq, Items, IsItem, Writing, FilesOf, IsCall, IsSetting
    <3>3. ThreadInv(u)'
      BY <1>2, <3>1, <3>2, SameMachine DEF ThreadInv
    <3>4. ASSUME NEW s, Settled(u, s)  PROVE Settled(u, s)'
      <4>1. \A e \in Items(plan'[u]), x \in Wanted(s) : Leaves(e, x)
        BY <1>2, <3>4 DEF Settled
      <4> QED  BY <1>2, <3>4, <4>1, SettledStays
    <3> QED  BY <1>2, <3>1, <3>3, <3>4 DEF WorkInv
  <2> QED  BY <2>1, <2>2 DEF StepInv
<1>4. ToldInv' /\ DirtyInv'
  BY <1>1, <1>2, ToldStays, DirtyStays
<1>5. MainInv' /\ Prof!RestoredAtExit'
  <2>1. Restore' = Restore
    BY DEF Restore
  <2>2. MainInv'
    BY <1>1, <1>2, <2>1, SameMachine DEF MainInv, Items
  <2> QED  BY <1>1, <1>2, <2>2, SameMachine DEF Prof!RestoredAtExit
<1>6. ASSUME Strict, NEW u \in Prof!Workers  PROVE KeepInv(u)'
  <2>1. KeepInv(u)
    BY <1>6 DEF ProfileInv
  <2> QED  BY <1>2, <2>1, KeptStays
<1> QED  BY <1>3, <1>4, <1>5, <1>6 DEF ProfileInv

LEMMA ProfileNext == ASSUME StepBounds, ProfileInv, [Prof!Next]_(Prof!stepVars)  PROVE ProfileInv'
<1>1. CASE Prof!Exit
  BY <1>1, ExitStep
<1>2. ASSUME NEW c \in Clients, Prof!Call(c)  PROVE ProfileInv'
  BY <1>2, CallStep
<1>3. ASSUME NEW t \in Prof!Workers, Prof!Step(t)  PROVE ProfileInv'
  <2>1. CASE Prof!Reply(t)
    BY <1>3, <2>1, ReplyStep DEF Prof!Step
  <2>2. CASE Moves(t)
    BY <1>3, <2>2, MovesStep DEF Prof!Step
  <2> QED  BY <1>3, <2>1, <2>2 DEF Prof!Step, Moves
<1>4. CASE UNCHANGED Prof!stepVars
  BY <1>4, ProfileStutters
<1> QED  BY <1>1, <1>2, <1>3, <1>4 DEF Prof!Next

\* Whatever the settings, the CPUs and the order of the steps: a call that ran undisturbed
\* and was answered without an error left the machine as it was asked, setting by setting,
\* each CPU that stayed online included (apply_profile_inner); the daemon's exit leaves the
\* limits of the hardware (restore_cpu_frequency_limits); and where the kernel keeps the
\* minimum below the maximum, a switch of the pstate mode keeps the limits that were
\* (set_amd_pstate_status).
THEOREM CallsDoAsAsked ==
  ASSUME StepBounds
  PROVE  Prof!Spec => [](Prof!TypeOK /\ Prof!AppliedAsAsked /\ Prof!RestoredAtExit /\ (Strict => AppliedAsAsked))
<1>1. Prof!Init => ProfileInv
  BY ProfileInit
<1>2. ProfileInv /\ [Prof!Next]_(Prof!stepVars) => ProfileInv'
  BY ProfileNext
<1>3. ProfileInv => Prof!TypeOK /\ Prof!AppliedAsAsked /\ Prof!RestoredAtExit /\ (Strict => AppliedAsAsked)
  <2> SUFFICES ASSUME ProfileInv
               PROVE  Prof!TypeOK /\ Prof!AppliedAsAsked /\ Prof!RestoredAtExit /\ (Strict => AppliedAsAsked)
    OBVIOUS
  <2>1. MachineTypes /\ ThreadTypes /\ Prof!AppliedAsAsked /\ Prof!RestoredAtExit /\ (Strict => Prof!ModeKeepsLimits)
    BY DEF ProfileInv, StepInv, ToldInv
  <2>2. Prof!TypeOK
    BY <2>1 DEF MachineTypes, ThreadTypes, Prof!TypeOK
  <2> QED  BY <2>1, <2>2 DEF AppliedAsAsked
<1> QED  BY <1>1, <1>2, <1>3, PTL DEF Prof!Spec
=============================================================================
