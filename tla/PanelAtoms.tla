----------------------------- MODULE PanelAtoms ------------------------------
(***************************************************************************)
(* The panel's _NET_WM_STATE: a frame that wants another state than the last *)
(* one asked for starts a worker, which sends the difference to the window   *)
(* manager and reads the state back, a bounded number of times.  The workers *)
(* have connections of their own; a lock and a claim keep them in order.     *)
(***************************************************************************)
EXTENDS Integers, Sequences, FiniteSets

CONSTANTS
  Selectable,   \* what the user chooses from: the mode, the stacking, "hide from the taskbar"
  Attempts,     \* ATOM_ATTEMPTS
  MaxRequests,  \* bound: workers started
  MaxFaults     \* bound: connections, messages and reads that fail

VARIABLES
  choice,      \* in the last frame: the mode, the stacking and "hide from the taskbar"
  window,      \* panel_window
  asked,       \* panel_atoms_wanted
  generation,  \* RoundLock.generation
  worker,      \* the workers, by their claim
  round,       \* RoundLock.round: the claim that holds it, or 0
  managed,     \* the window manager has taken the window ...
  settled,     \* ... and ignores no more messages about it
  actual,      \* the window's state
  sent,        \* messages on their way to the window manager
  failures,
  overtaken    \* history: a newer request has looked while older messages were on their way

atomVars == <<choice, window, asked, generation, worker, round, managed, settled, actual, sent,
              failures, overtaken>>
ofTheWM == <<managed, settled, actual>>

StateAtoms == {"Above", "SkipTaskbar", "SkipPager"}
States == SUBSET StateAtoms
Changes == [atom : StateAtoms, add : BOOLEAN]
Claims == 1..MaxRequests
Unasked == {"unasked"}  \* panel_atoms_wanted before the first request
Unknown == {"unknown"}  \* a state that could not be read

\* wanted_state.
WantedState(c) ==
  IF ~c.panel THEN {}
  ELSE (IF c.top THEN {"Above"} ELSE {}) \cup (IF c.hide THEN {"SkipTaskbar", "SkipPager"} ELSE {})

\* atom_changes, in the order of StateAtom::ALL.
AtomChange(atom, wanted, observed) ==
  IF (atom \in wanted) = (atom \in observed) THEN <<>> ELSE <<[atom |-> atom, add |-> atom \in wanted]>>
AtomChanges(wanted, observed) ==
  AtomChange("Above", wanted, observed) \o AtomChange("SkipTaskbar", wanted, observed)
    \o AtomChange("SkipPager", wanted, observed)

\* atom_step: a state that could not be read confirms nothing.
AtomStep(wanted, observed, attempt) ==
  IF observed = wanted THEN "confirmed" ELSE IF attempt >= Attempts THEN "exhausted" ELSE "loop"

NoWorker == [at |-> "none", wanted |-> {}, attempt |-> 1, todo |-> <<>>, observed |-> Unknown]

Places == {"none", "connects", "loop", "waits", "looks", "sends", "reads", "decides",
           "confirmed", "exhausted", "superseded", "failed"}
AWorker == [at : Places, wanted : States, attempt : 1..Attempts,
            todo : Seq(Changes), observed : States \cup {Unknown}]
Message == [change : Changes, by : Claims]

TypeOK ==
  /\ choice \in Selectable
  /\ window \in {"Unknown", "X11", "NotX11"} /\ asked \in States \cup {Unasked}
  /\ generation \in 0..MaxRequests /\ round \in 0..MaxRequests
  /\ worker \in [Claims -> AWorker]
  /\ managed \in BOOLEAN /\ settled \in BOOLEAN /\ overtaken \in BOOLEAN /\ actual \in States
  /\ sent \in Seq(Message)
  /\ failures \in 0..MaxFaults

Init ==
  /\ choice \in Selectable
  /\ window = "Unknown" /\ asked = Unasked /\ generation = 0
  /\ worker = [n \in Claims |-> NoWorker]
  /\ round = 0 /\ managed = FALSE /\ settled = FALSE /\ actual = {} /\ sent = <<>>
  /\ failures = 0 /\ overtaken = FALSE

-----------------------------------------------------------------------------
(* The window thread.                                                       *)

\* AtomsController::request: a claim and a worker.  A thread that cannot be started
\* leaves the claim.
Request(wanted) ==
  /\ generation < MaxRequests /\ generation' = generation + 1
  /\ \/ /\ worker' = [worker EXCEPT ![generation'] =
                        [NoWorker EXCEPT !.at = "connects", !.wanted = wanted]]
        /\ UNCHANGED failures
     \/ /\ failures < MaxFaults /\ failures' = failures + 1
        /\ worker' = [worker EXCEPT ![generation'] = [NoWorker EXCEPT !.at = "failed"]]

\* apply_panel_atoms, in the mode and with the choices that the frame finds: there may be
\* no handle yet; what has been asked for is not asked for again.
Frame ==
  /\ choice' \in Selectable
  /\ \E w \in IF window = "Unknown" THEN {"Unknown", "X11", "NotX11"} ELSE {window} :
       /\ window' = w
       /\ IF w = "Unknown" \/ asked = WantedState(choice')
          THEN UNCHANGED <<asked, generation, worker, failures>>
          ELSE /\ asked' = WantedState(choice')
               /\ IF w = "X11" THEN Request(asked')
                  ELSE UNCHANGED <<generation, worker, failures>>
  /\ UNCHANGED <<round, ofTheWM, sent, overtaken>>

-----------------------------------------------------------------------------
(* A worker.                                                                *)

Goes(n, at) == worker' = [worker EXCEPT ![n].at = at]
Fails(n) == failures < MaxFaults /\ failures' = failures + 1
ByItself == UNCHANGED <<choice, window, asked, generation, ofTheWM>>

\* A connection of its own, and the atoms.
Connect(n) ==
  /\ worker[n].at = "connects"
  /\ \/ Goes(n, "loop") /\ UNCHANGED failures
     \/ Goes(n, "failed") /\ Fails(n)
  /\ ByItself /\ UNCHANGED <<round, sent, overtaken>>

IsCurrent(n) == generation = n

\* retry_loop: the top of a round.
Top(n) ==
  /\ worker[n].at = "loop"
  /\ IF IsCurrent(n) THEN Goes(n, "waits")
     ELSE worker' = [worker EXCEPT ![n] = [NoWorker EXCEPT !.at = "superseded"]]
  /\ ByItself /\ UNCHANGED <<round, sent, failures, overtaken>>

\* Mutant of MaySend: the claim is not looked at again in the lock.
MaySendAlways(n) == TRUE

\* RoundLock::round: the claim is looked at again when the lock is held.
MaySend(n) == IsCurrent(n)

Enter(n) ==
  /\ worker[n].at = "waits" /\ round = 0
  /\ IF MaySend(n) THEN round' = n /\ Goes(n, "looks")
     ELSE UNCHANGED round /\ worker' = [worker EXCEPT ![n].at = "decides", ![n].observed = Unknown]
  /\ ByItself /\ UNCHANGED <<sent, failures, overtaken>>

\* The round is over, with what was read.
Over(n, observed) ==
  /\ worker' = [worker EXCEPT ![n].at = "decides", ![n].observed = observed]
  /\ round' = 0

\* apply: nothing is sent to a window that is not managed.
Look(n) ==
  /\ worker[n].at = "looks"
  /\ \/ /\ managed
        /\ worker' = [worker EXCEPT ![n].at = "sends",
                                    ![n].todo = AtomChanges(worker[n].wanted, actual)]
        /\ overtaken' = (overtaken \/ \E i \in 1..Len(sent) : sent[i].by # n)
        /\ UNCHANGED <<round, failures>>
     \/ ~managed /\ Over(n, Unknown) /\ UNCHANGED <<failures, overtaken>>
     \/ Fails(n) /\ Over(n, Unknown) /\ UNCHANGED overtaken
  /\ ByItself /\ UNCHANGED sent

\* send_change, one message for each atom.
Send(n) ==
  /\ worker[n].at = "sends"
  /\ \/ /\ worker[n].todo = <<>> /\ Goes(n, "reads") /\ UNCHANGED <<sent, round, failures>>
     \/ /\ worker[n].todo # <<>>
        /\ sent' = Append(sent, [change |-> Head(worker[n].todo), by |-> n])
        /\ worker' = [worker EXCEPT ![n].todo = Tail(@)]
        /\ UNCHANGED <<round, failures>>
     \/ worker[n].todo # <<>> /\ Fails(n) /\ Over(n, Unknown) /\ UNCHANGED sent
  /\ ByItself /\ UNCHANGED overtaken

\* read_state.
ReadBack(n) ==
  /\ worker[n].at = "reads"
  /\ \/ Over(n, actual) /\ UNCHANGED failures
     \/ Over(n, Unknown) /\ Fails(n)
  /\ ByItself /\ UNCHANGED <<sent, overtaken>>

\* The rest of a round of retry_loop.
Decide(n) ==
  /\ worker[n].at = "decides"
  /\ LET step == AtomStep(worker[n].wanted, worker[n].observed, worker[n].attempt) IN
     worker' = [worker EXCEPT ![n] =
                  [NoWorker EXCEPT !.at = step, !.wanted = worker[n].wanted,
                                   !.attempt = IF step = "loop" THEN worker[n].attempt + 1 ELSE 1]]
  /\ ByItself /\ UNCHANGED <<round, sent, failures, overtaken>>

-----------------------------------------------------------------------------
(* The window manager, which takes the window when it likes, ignores what it  *)
(* is sent at first, and takes the messages in the order they were sent.     *)

Manage ==
  /\ ~managed /\ managed' = TRUE
  /\ UNCHANGED <<choice, window, asked, generation, worker, round, settled, actual, sent, failures, overtaken>>

Settle ==
  /\ managed /\ ~settled /\ settled' = TRUE
  /\ UNCHANGED <<choice, window, asked, generation, worker, round, managed, actual, sent, failures, overtaken>>

Process ==
  /\ sent # <<>> /\ sent' = Tail(sent)
  /\ \/ LET change == Head(sent).change IN
        actual' = IF change.add THEN actual \cup {change.atom} ELSE actual \ {change.atom}
     \/ ~settled /\ UNCHANGED actual
  /\ UNCHANGED <<choice, window, asked, generation, worker, round, managed, settled, failures, overtaken>>

Worker(n) == Connect(n) \/ Top(n) \/ Enter(n) \/ Look(n) \/ Send(n) \/ ReadBack(n) \/ Decide(n)

Next == Frame \/ Manage \/ Settle \/ Process \/ \E n \in Claims : Worker(n)

Spec == Init /\ [][Next]_atomVars

-----------------------------------------------------------------------------
(* Properties.                                                              *)

\* The messages of a request never come after those of a newer one (RoundLock: "the
\* newest request is always the one that runs last").
NewestSendsLast ==
  \A i, j \in 1..Len(sent) : i < j => sent[i].by <= sent[j].by

\* A round is one worker's: its look, its messages and its reading.
RoundsDoNotMix ==
  \A n \in Claims : worker[n].at \in {"looks", "sends", "reads"} => round = n

\* What the newest request has confirmed stays, and is what the last frame wanted: an
\* atom left behind would follow the user out of the panel (wanted_state).  The window
\* manager must have taken the older messages before the newer request looks.
ConfirmedStays ==
  generation > 0 /\ worker[generation].at = "confirmed" /\ ~overtaken =>
    actual = worker[generation].wanted /\ actual = WantedState(choice)

\* The window has the state of the newest request, whatever the older workers do (RoundLock in
\* panel/ewmh.rs).
NewestRequestHolds == TypeOK /\ NewestSendsLast /\ RoundsDoNotMix /\ ConfirmedStays
=============================================================================
