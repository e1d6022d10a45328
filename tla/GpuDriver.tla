----------------------------- MODULE GpuDriver ------------------------------
(***************************************************************************)
(* The two ways past the driver's library that a pass takes for what the     *)
(* library does not say: the resource manager behind /dev/nvidiactl, asked   *)
(* for the kind, the vendor and the bus width of the memory, and the         *)
(* undocumented interface NVAPI, asked for two temperatures and the voltage. *)
(* Each is opened for one question and closed again, whichever step fails.   *)
(***************************************************************************)
EXTENDS Integers, FiniteSets, Sequences

CONSTANTS
  Threads,   \* the threads that run a pass
  Widths     \* words that the resource manager may give as the bus width

None == "none"
Blank == [kind |-> None, vendor |-> None, width |-> 0]

\* The steps of NvidiaDriverHandle::open, in order, and what each one leaves open.
Opens == <<"control", "device", "register", "client", "object", "subobject">>
\* The words asked of the handle, in order.
Words == <<"kind", "width", "vendor">>

VARIABLES
  at,      \* per thread: "idle", "open", "words", "library", "stats" or "unload"
  step,    \* per thread: the step within it
  files,   \* per thread: the files of the resource manager that are open
  memory,  \* per thread: what get_vram_info has found out
  nvapi,   \* how often NVAPI has been initialised and not unloaded
  library  \* the threads that have the library loaded

driverVars == <<at, step, files, memory, nvapi, library>>

TypeOK ==
  /\ at \in [Threads -> {"idle", "open", "words", "library", "stats", "unload"}]
  /\ step \in [Threads -> 0..6] /\ files \in [Threads -> SUBSET {"control", "device"}]
  /\ memory \in [Threads -> [kind : {None, "known"}, vendor : {None, "known"}, width : Widths \cup {0}]]
  /\ nvapi \in 0..Cardinality(Threads) /\ library \subseteq Threads

Init ==
  /\ at = [t \in Threads |-> "idle"] /\ step = [t \in Threads |-> 0]
  /\ files = [t \in Threads |-> {}] /\ memory = [t \in Threads |-> Blank]
  /\ nvapi = 0 /\ library = {}

Go(t, phase) == at' = [at EXCEPT ![t] = phase] /\ step' = [step EXCEPT ![t] = 1]

-----------------------------------------------------------------------------
(* The resource manager.                                                    *)

BeginMemory(t) ==
  /\ at[t] = "idle" /\ Go(t, "open")
  /\ memory' = [memory EXCEPT ![t] = Blank]
  /\ UNCHANGED <<files, nvapi, library>>

\* A step of the opening succeeds; the last one gives the handle.
Open(t) ==
  /\ at[t] = "open"
  /\ files' = [files EXCEPT ![t] = @ \cup ({Opens[step[t]]} \cap {"control", "device"})]
  /\ IF step[t] < Len(Opens) THEN step' = [step EXCEPT ![t] = @ + 1] /\ UNCHANGED at
                       ELSE Go(t, "words")
  /\ UNCHANGED <<memory, nvapi, library>>

\* Any of them may fail: what was opened is closed when it is dropped, and
\* nothing is known of the memory.
OpenFails(t) ==
  /\ at[t] = "open" /\ Go(t, "idle")
  /\ files' = [files EXCEPT ![t] = {}]
  /\ UNCHANGED <<memory, nvapi, library>>

\* get_vram_info: a width that no memory has counts as not read.
Plausible(w) == IF w \in 32..1024 /\ w % 32 = 0 THEN w ELSE 0

\* get_fb_info answers one word, or fails by itself.
Word(t) ==
  /\ at[t] = "words"
  /\ LET word == Words[step[t]]
     IN  memory' \in
           {[memory EXCEPT ![t][word] = v] :
              v \in IF word = "width" THEN {Plausible(w) : w \in Widths} \cup {0} ELSE {None, "known"}}
  /\ IF step[t] < 3
     THEN step' = [step EXCEPT ![t] = @ + 1] /\ UNCHANGED <<at, files>>
     ELSE Go(t, "idle") /\ files' = [files EXCEPT ![t] = {}]
  /\ UNCHANGED <<nvapi, library>>

\* resolve_vram_identity: the library's width stands in for a missing one.
FromLibrary(t) ==
  /\ at[t] = "idle" /\ memory[t].width = 0
  /\ \E w \in {v \in Widths : Plausible(v) = v} : memory' = [memory EXCEPT ![t].width = w]
  /\ UNCHANGED <<at, step, files, nvapi, library>>

-----------------------------------------------------------------------------
(* NVAPI: get_nvidia_extended_stats.                                        *)

BeginStats(t) ==
  /\ at[t] = "idle" /\ Go(t, "library")
  /\ library' = library \cup {t}
  /\ UNCHANGED <<files, memory, nvapi>>

Leave(t) == Go(t, "idle") /\ library' = library \ {t}

\* The entry points are missing, or the initialisation fails.
InitFails(t) ==
  /\ at[t] = "library" /\ Leave(t)
  /\ UNCHANGED <<files, memory, nvapi>>

Initialise(t) ==
  /\ at[t] = "library" /\ Go(t, "stats")
  /\ nvapi' = nvapi + 1
  /\ UNCHANGED <<files, memory, library>>

\* Mutant of EnumFails: it returns as the failures before the initialisation do.
EnumFailsLoaded(t) == at[t] = "stats" /\ Leave(t) /\ UNCHANGED <<files, memory, nvapi>>

\* No enumeration, a failing one, or a device beyond it.
EnumFails(t) ==
  /\ at[t] = "stats" /\ Leave(t)
  /\ nvapi' = nvapi - 1
  /\ UNCHANGED <<files, memory>>

\* The sensors and the voltage are read, as far as they can be.
Stats(t) ==
  /\ at[t] = "stats" /\ Go(t, "unload")
  /\ UNCHANGED <<files, memory, nvapi, library>>

Unload(t) ==
  /\ at[t] = "unload" /\ Leave(t)
  /\ nvapi' = nvapi - 1
  /\ UNCHANGED <<files, memory>>

Next ==
  \E t \in Threads :
    \/ BeginMemory(t) \/ Open(t) \/ OpenFails(t) \/ Word(t) \/ FromLibrary(t)
    \/ BeginStats(t) \/ InitFails(t) \/ Initialise(t) \/ EnumFails(t) \/ Stats(t) \/ Unload(t)

Spec == Init /\ [][Next]_driverVars

-----------------------------------------------------------------------------
(* Properties.                                                              *)

\* Whatever step fails and however the passes interleave, what a thread opened
\* is closed when it returns: NVAPI is unloaded as often as it was initialised,
\* the library stays until then, and no file of the resource manager is left.
SessionsClosed ==
  /\ nvapi = Cardinality({t \in Threads : at[t] \in {"stats", "unload"}})
  /\ library = {t \in Threads : at[t] \in {"library", "stats", "unload"}}
  /\ \A t \in Threads : at[t] \notin {"open", "words"} => files[t] = {}
=============================================================================
