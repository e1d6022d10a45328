------------------------------- MODULE Hotkey -------------------------------
(***************************************************************************)
(* The panel's global key: what a written key means, and the threads that   *)
(* grab and watch it, one for each time the key is changed.  A thread holds *)
(* its grabs on its own connection until it sees its stop flag, so two of   *)
(* them can live at once.                                                   *)
(***************************************************************************)
EXTENDS Integers, Sequences, FiniteSets, SequencesExt

CONSTANTS
  Locks,     \* the lock keys
  Specs,     \* keys a user may write: sequences of tokens, the last one the key
  Foreign,   \* choices: the <<key, mask>> pairs that other clients own
  MaxGrabs   \* bound: times the key is changed

VARIABLES
  display,   \* an X server answers
  foreign,   \* what other clients own
  spec,      \* the key in panel.json
  watcher,   \* per grab: its thread
  stop,      \* per grab: its stop flag
  current,   \* the grab whose flag Visibility holds
  status,    \* grab_status
  teller,    \* history: the grab whose thread told it, -1 for the window
  fired      \* hotkey_fired

hotkeyVars == <<display, foreign, spec, watcher, stop, current, status, teller, fired>>

Grabs == 0..MaxGrabs
Statuses == {"Unknown", "Grabbed", "Partial", "Disabled", "Busy", "NoDisplay", "Failed"}
Stages == {"none", "connects", "grabs", "watches", "fires", "broken", "gone"}

-----------------------------------------------------------------------------
(* What a written key means.                                                *)

\* modifier_bits: one bit for each name, {} for a name that is not known.
ModifierBits(token) ==
  CASE token \in {"Shift", "Shift_L", "Shift_R"} -> {"Shift"}
    [] token \in {"Control", "Ctrl", "Control_L", "Control_R"} -> {"Control"}
    [] token \in {"Alt", "Mod1"} -> {"Alt"}
    [] token \in {"Lock", "CapsLock"} -> {"CapsLock"}
    [] token \in {"NumLock", "ScrollLock"} -> {token}
    [] OTHER -> {}

\* keysym_for: the names of keys, of which one may be written in two ways.
Keysym(token) ==
  CASE token \in {"F9", "f9"} -> "F9"
    [] token \in {"a", "A"} -> "A"
    [] token \in {"F35", "5"} -> token
    [] OTHER -> "none"

Modifiers(s) == UNION {ModifierBits(s[i]) : i \in 1..Len(s)-1}

\* A modifier that is not known goes to the list of the ignored ones.
LeaveOut(ignored, token) == IF ModifierBits(token) = {} THEN Append(ignored, token) ELSE ignored
Ignored(tokens) == FoldLeft(LeaveOut, <<>>, tokens)

\* parse_spec: a key that is not known fails, a modifier that is not known is
\* left out.
Parsed(s) ==
  IF s = <<>> \/ Keysym(Last(s)) = "none" THEN [key |-> "none", mods |-> {}, ignored |-> <<>>]
  ELSE [key |-> Keysym(Last(s)), mods |-> Modifiers(s), ignored |-> Ignored(Front(s))]

ModifierNames == <<"Shift", "Control", "Alt", "CapsLock", "NumLock", "ScrollLock">>

\* ParsedSpec.effective: of the canonical names, in their order, those that are meant.
Name(names, n, mods) == IF n \in mods THEN Append(names, n) ELSE names
Named(order, mods) == FoldLeft(LAMBDA names, n : Name(names, n, mods), <<>>, order)
Effective(p) == Named(ModifierNames, p.mods) \o <<p.key>>

\* Mutant of LockVariants: the single locks.
SingleLocks(mods) == {mods} \cup {mods \cup {l} : l \in Locks}

\* lock_variants: the modifiers under every combination of locks, each once.
LockVariants(mods) == {mods \cup l : l \in SUBSET Locks}

\* grab_outcome.
GrabOutcome(grabbed, busy, attempted) ==
  IF attempted = 0 THEN "Failed"
  ELSE IF grabbed = attempted THEN "Grabbed"
  ELSE IF grabbed > 0 THEN "Partial"
  ELSE IF busy > 0 THEN "Busy" ELSE "Failed"

KeepsWatcher(s) == s \in {"Grabbed", "Partial"}
IsReliableRoute(s) == s = "Grabbed"

-----------------------------------------------------------------------------
NoThread == [at |-> "none", key |-> "none", masks |-> {}, left |-> {}, held |-> {}, busy |-> 0]

TypeOK ==
  /\ display \in BOOLEAN /\ foreign \in Foreign /\ spec \in Specs
  /\ stop \in [Grabs -> BOOLEAN] /\ current \in Grabs
  /\ status \in Statuses /\ teller \in Grabs \cup {-1} /\ fired \in BOOLEAN
  /\ \A n \in Grabs :
       LET w == watcher[n] IN
       /\ w.at \in Stages /\ w.held \cup w.left \subseteq w.masks
       /\ w.held \cap w.left = {} /\ w.busy \in 0..Cardinality(w.masks)

\* start_hotkey: an empty key is off, one that does not parse fails, any other
\* gets a thread.
StartedStatus(s, old) ==
  IF s = <<>> THEN "Disabled" ELSE IF Parsed(s).key = "none" THEN "Failed" ELSE old

Started(s, w) ==
  IF Parsed(s).key = "none" THEN w
  ELSE LET masks == LockVariants(Parsed(s).mods) IN
       [w EXCEPT !.at = "connects", !.key = Parsed(s).key, !.masks = masks, !.left = masks]

Init ==
  /\ display \in BOOLEAN /\ foreign \in Foreign /\ spec \in Specs
  /\ watcher = [[n \in Grabs |-> NoThread] EXCEPT ![0] = Started(spec, NoThread)]
  /\ stop = [n \in Grabs |-> FALSE] /\ current = 0
  /\ status = StartedStatus(spec, "Unknown") /\ teller = -1 /\ fired = FALSE

\* Mutant of HandOver: the old thread is not told to go.
HandOverSilently(n) == stop

\* hand_over_watcher: the old flag is set, the next thread gets one of its own.
HandOver(n) == [stop EXCEPT ![n] = TRUE]

\* regrab, from the window's thread.
Regrab(s) ==
  /\ current < MaxGrabs
  /\ stop' = HandOver(current) /\ current' = current + 1
  /\ status' = StartedStatus(s, "Unknown") /\ teller' = -1
  /\ watcher' = [watcher EXCEPT ![current + 1] = Started(s, @)]
  /\ spec' = s
  /\ UNCHANGED <<display, foreign>>

\* Visibility::stop.
StopWatcher == stop' = [stop EXCEPT ![current] = TRUE]

-----------------------------------------------------------------------------
(* A thread.  It ends when its connection does, and its grabs with it.      *)

Gone == [NoThread EXCEPT !.at = "gone"]
Broken == [NoThread EXCEPT !.at = "broken"]

\* The keycode is looked up; there may be none.
Connect(n) ==
  /\ watcher[n].at = "connects"
  /\ \E found \in BOOLEAN :
       IF display /\ found
       THEN watcher' = [watcher EXCEPT ![n].at = "grabs"] /\ UNCHANGED <<status, teller>>
       ELSE /\ watcher' = [watcher EXCEPT ![n] = Gone]
            /\ status' = (IF display THEN "Failed" ELSE "NoDisplay") /\ teller' = n
  /\ UNCHANGED <<display, foreign, spec, stop, current, fired>>

Owned(key, mask) ==
  <<key, mask>> \in foreign
  \/ \E m \in Grabs : watcher[m].key = key /\ mask \in watcher[m].held

\* One mask: granted, refused because it is owned, or refused.
Grab(n) ==
  /\ watcher[n].at = "grabs" /\ watcher[n].left # {}
  /\ LET mask == CHOOSE m \in watcher[n].left : TRUE
         w == [watcher[n] EXCEPT !.left = @ \ {mask}]
     IN  \E granted \in BOOLEAN :
           watcher' = [watcher EXCEPT ![n] =
             IF Owned(w.key, mask) THEN [w EXCEPT !.busy = @ + 1]
             ELSE IF granted THEN [w EXCEPT !.held = @ \cup {mask}] ELSE w]
  /\ UNCHANGED <<display, foreign, spec, stop, current, status, teller, fired>>

\* Mutant of WatchesAfter: only a key that is caught in every lock state is watched.
WatchesReliable(s) == IsReliableRoute(s)

WatchesAfter(s) == KeepsWatcher(s)

\* The thread tells its outcome, and watches what it has caught.
Report(n) ==
  LET w == watcher[n]
      s == GrabOutcome(Cardinality(w.held), w.busy, Cardinality(w.masks))
  IN
  /\ w.at = "grabs" /\ w.left = {}
  /\ status' = s /\ teller' = n
  /\ watcher' = [watcher EXCEPT ![n] =
       IF WatchesAfter(s) THEN [@ EXCEPT !.at = "watches"] ELSE Gone]
  /\ UNCHANGED <<display, foreign, spec, stop, current, fired>>

\* watch_hotkey: the flag ends the loop, and what was grabbed is released.
Leave(n) ==
  /\ watcher[n].at = "watches" /\ stop[n]
  /\ watcher' = [watcher EXCEPT ![n] = Gone]
  /\ UNCHANGED <<display, foreign, spec, stop, current, status, teller, fired>>

\* The connection breaks under the watcher.
Break(n) ==
  /\ watcher[n].at = "watches"
  /\ watcher' = [watcher EXCEPT ![n] = Broken]
  /\ UNCHANGED <<display, foreign, spec, stop, current, status, teller, fired>>

\* The key is pressed in a lock state of which this thread holds the mask; the
\* flag is set here, the frame asked for in the step after it.
Press(n) ==
  /\ watcher[n].at = "watches" /\ watcher[n].held # {}
  /\ fired' = TRUE /\ watcher' = [watcher EXCEPT ![n].at = "fires"]
  /\ UNCHANGED <<display, foreign, spec, stop, current, status, teller>>

\* ... and the loop looks at its flag again.
AskFrame(n) ==
  /\ watcher[n].at = "fires"
  /\ watcher' = [watcher EXCEPT ![n] = IF stop[n] THEN Gone ELSE [@ EXCEPT !.at = "watches"]]
  /\ UNCHANGED <<display, foreign, spec, stop, current, status, teller, fired>>

ThreadStep(n) == Connect(n) \/ Grab(n) \/ Report(n) \/ Leave(n) \/ AskFrame(n)

\* The key alone: the window changes it and takes the presses.
TakePress ==
  /\ fired /\ fired' = FALSE
  /\ UNCHANGED <<display, foreign, spec, watcher, stop, current, status, teller>>

Next ==
  \/ (\E s \in Specs : Regrab(s)) /\ UNCHANGED fired
  \/ \E n \in Grabs : ThreadStep(n) \/ Break(n) \/ Press(n)
  \/ TakePress

Spec == Init /\ [][Next]_hotkeyVars
FairSpec ==
  Spec /\ WF_hotkeyVars(TakePress) /\ \A n \in Grabs : WF_hotkeyVars(ThreadStep(n))

-----------------------------------------------------------------------------
(* Properties.                                                              *)

\* What the settings window says will be grabbed is what is grabbed: written out
\* again, the effective key means the same (ParsedSpec::effective).
EffectiveIsGrabbed ==
  \A s \in Specs :
    LET p == Parsed(s) IN
    p.key # "none" => Parsed(Effective(p)) = [p EXCEPT !.ignored = <<>>]

\* What the current thread tells of the key is so: a key told as caught is listened
\* to until the connection breaks, and one told as caught in every lock state fires
\* in every lock state (grab_hotkey: "A refused grab is never reported as captured";
\* keeps_watcher: "must not be torn down").
CaughtIsListenedTo ==
  teller = current /\ KeepsWatcher(status) /\ ~stop[current] =>
    \/ watcher[current].at = "broken"
    \/ /\ watcher[current].at \in {"watches", "fires"}
       /\ watcher[current].held # {}
       /\ IsReliableRoute(status) =>
            \A locks \in SUBSET Locks : Modifiers(spec) \cup locks \in watcher[current].held

\* A key that was given up is free again: a thread that was told to stop lets go of
\* its grabs (hand_over_watcher: "a live old thread keeps the previous key captured
\* for the life of the process").
OldKeyReleased == \A n \in Grabs : n < current ~> watcher[n].at \in {"none", "broken", "gone"}

\* The status speaks of the key that is configured: no key is told as caught when
\* none is configured (is_reliable_route: "the safety rule can never count a
\* refused, disabled, not-yet-attempted ... grab").
OffIsNoRoute == spec = <<>> => ~IsReliableRoute(status)

\* A key told as owned by another application is (GrabStatus::Busy: "The combination
\* is already owned by another client").
BusyIsForeign ==
  status = "Busy" => \E mask \in LockVariants(Modifiers(spec)) :
    <<Keysym(Last(spec)), mask>> \in foreign
=============================================================================
