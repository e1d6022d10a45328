------------------------------ MODULE MCDaemon ------------------------------
(* The parts of the daemon that share no state, each explored by itself: the *)
(* initial state says which, and the others stand still.                     *)
EXTENDS MCFanControl, ProfileSamples, MachineParts

VARIABLE part

profileVars ==
  <<regs, waiting, plan, mine, fate, alone, reached, before, modified, torn, told, used, phase>>

\* Every curve of up to three points from these, at every temperature about them.
Points == {40, 60, 61} \X {0, 33, 100}
Curves == [1..1 -> Points] \cup [1..2 -> Points] \cup [1..3 -> Points]
MCCurveSettings == {0 :> curve : curve \in Curves \cup {<<>>}}
MCCurveTemps == 39..62

\* A curve is set, and then it warms.
CurveStep ==
  \/ calls = 0 /\ \E c \in Clients : Curve!ApplyFanSettings(c)
  \/ Curve!Warm

-----------------------------------------------------------------------------
(* What is read of the machine.                                             *)

adapterVars == <<power, work, rest, poll, pass, due, woken>>
identityVars == <<order, word, learned, slots, statuses, todo, meta, good, roused>>
readingsVars == <<now, count, joined, cpu, prevCpu, prev, sample, load, rate>>
driverVars == <<at, step, files, memory, nvapi, library>>
hardwareVars == <<adapterVars, identityVars, readingsVars, driverVars>>

MCReadable == {{"vram", "ranges", "offsets", "rest"}, {"rest"}, {"vram", "ranges"}, {}}

\* A counter that can begin anew is sampled by the monitor alone.
MCTakers == [k \in Measured |-> IF k = "disk" THEN Askers ELSE {"job"}]

\* The readings of some kinds, which are explored one by one.
Differ(kinds) == INSTANCE Readings WITH Threads <- Askers, Kinds <- kinds

\* Two adapters, and the jobs of the daemon.
Pair == INSTANCE GpuPolling WITH
          Adapters <- {"dgpu", "egpu"}, Clients <- {}, Jobs <- ReadJobs, Delay <- 1, Reprobe <- 2

HardwareParts == {"polling", "pair", "identity", "driver"} \cup Measured

\* A part that does not move is in one of its initial states.
HardwareInit ==
  /\ IF part = "pair" THEN Pair!Init
     ELSE Asks!Init /\ (part # "polling" => power = [a \in Adapters |-> "suspended"])
  /\ Ident!Init /\ (part # "identity" => order[0] = 1 /\ \A g \in Gpus : word[g] = "active")
  /\ \E k \in Measured : Differ({k})!Init /\ k = IF part \in Measured THEN part ELSE "cpu"
  /\ Driver!Init

HardwareNext ==
  \/ part = "polling" /\ Asks!Next /\ UNCHANGED <<part, identityVars, readingsVars, driverVars>>
  \/ part = "pair" /\ Pair!Next /\ UNCHANGED <<part, identityVars, readingsVars, driverVars>>
  \/ part = "identity" /\ Ident!Next /\ UNCHANGED <<part, adapterVars, readingsVars, driverVars>>
  \/ part = "driver" /\ Driver!Next /\ UNCHANGED <<part, adapterVars, identityVars, readingsVars>>
  \/ \E k \in Measured :
       part = k /\ Differ({k})!Next /\ UNCHANGED <<part, adapterVars, identityVars, driverVars>>

\* The Fairness of GpuPolling, for the part that moves.
HardwareFairness ==
  /\ WF_adapterVars(part = "polling" /\ Asks!JobStep)
  /\ WF_adapterVars(part = "polling" /\ Asks!Tick)
  /\ WF_adapterVars(part = "polling" /\ Asks!PassStep("client"))
  /\ WF_adapterVars(part = "polling" /\ Asks!Suspend("dgpu"))

-----------------------------------------------------------------------------
(* All of it.                                                               *)

Parts == {"fans", "curve", "profile"} \cup HardwareParts

\* The fans stand still: one of their initial states.
FansParked ==
  /\ iface = "Clevo" /\ ec.by = "firmware" /\ temp = CHOOSE t \in Temps : TRUE

MCInit ==
  /\ part \in Parts
  /\ Init /\ (part # "fans" => FansParked)
  /\ Prof!Init /\ HardwareInit

MCNext ==
  \/ part = "fans" /\ Next /\ UNCHANGED <<part, profileVars, hardwareVars>>
  \/ part = "curve" /\ CurveStep /\ UNCHANGED <<part, crossed, raced, profileVars, hardwareVars>>
  \/ part = "profile" /\ Prof!Next /\ UNCHANGED <<part, vars, hardwareVars>>
  \/ HardwareNext /\ UNCHANGED <<vars, profileVars>>

\* A curve by itself is there for its states alone: no job follows it, and no behaviour of
\* that part is fair.
MCSpec ==
  /\ MCInit /\ [][MCNext]_<<part, vars, profileVars, hardwareVars>>
  /\ part \in {"fans", "curve"} => Fairness
  /\ HardwareFairness

-----------------------------------------------------------------------------
\* The types of what is read.
HardwareTypesOK ==
  /\ (IF part = "pair" THEN Pair!TypeOK ELSE Asks!TypeOK) /\ Ident!TypeOK /\ Driver!TypeOK
  /\ \A k \in Measured : part = k => Differ({k})!TypeOK

\* The types of every part.
TypesOK ==
  (IF part = "curve" THEN Curve!TypeOK ELSE TypeOK) /\ Prof!TypeOK /\ HardwareTypesOK

\* The passes of the daemon leave an adapter without work alone, if it is the only one, and
\* read one with work (the polling tiers of hardware_detection.rs); and all that the parts
\* keep is within its type.
AdapterFollowsWork ==
  []TypesOK /\ (part = "polling" => Asks!IdleAdapterSleeps /\ Asks!WorkIsLive)
=============================================================================
