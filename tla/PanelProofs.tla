----------------------------- MODULE PanelProofs -----------------------------
(***************************************************************************)
(* The panel's window and the key that shows it, for any keys, any number of *)
(* changes of the key and any lock keys.  A caught key is listened to: the   *)
(* masks of a grab are in one place each (Sorted), and the thread of the     *)
(* current grab has the key that is configured (OwnKey).  The window tells   *)
(* the truth: its flags and the window server agree but for a frame that is  *)
(* on its way (FlagsAgree, WindowRests).  And the key it shows is the key    *)
(* that is grabbed: what is written again of a parsed key, in the order of   *)
(* the canonical names, means the same (EffectiveMeansTheSame, by induction  *)
(* over the names).                                                         *)
(*                                                                         *)
(* Then the order of the workers that set the window's atoms, for every      *)
(* number of requests, attempts and failures.  Neither the claim nor the     *)
(* lock gives it alone: a worker that is overtaken keeps the lock until its  *)
(* round is over.  It is that nobody newer sends while it does, and that     *)
(* nothing on its way is newer than the worker that may send: SentByOlder.   *)
(* And what is confirmed stays (Keep): once the newest worker has looked,    *)
(* what is on its way is its own and leads to what it wants.                 *)
(*                                                                         *)
(* Last the panel's place, for any places, monitors and tolerance.  A panel  *)
(* that was not dragged is near the stored place, or on its way there, or    *)
(* still to be sent there (NotMoved); that rounding never adds up rests on   *)
(* places and the tolerance being whole points.                             *)
(***************************************************************************)
EXTENDS WindowParts, PanelParts, ConfigProofs, DataLemmas, FiniteSetTheorems

\* Lock keys are few; the others are counts.
KeyBounds ==
  /\ IsFiniteSet(Locks) /\ MaxGrabs \in Nat /\ StartFrames \in Nat /\ MaxEvents \in Nat

Bits == {"Shift", "Control", "Alt", "CapsLock", "NumLock", "ScrollLock"} \cup Locks
KeyNames == {"none", "F9", "A", "F35", "5"}

\* What a thread's fields hold, and that each mask of its key is in one place at most.
Thread == [at : Panel!Stages, key : KeyNames, masks : SUBSET SUBSET Bits, left : SUBSET SUBSET Bits,
           held : SUBSET SUBSET Bits, busy : Nat]
Sorted(w) ==
  /\ w.held \cup w.left \subseteq w.masks /\ w.held \cap w.left = {}
  /\ w.busy + Cardinality(w.held) + Cardinality(w.left) <= Cardinality(w.masks)

\* A thread that has still to catch its key, or listens to it, has the key that is configured
\* if it is the current one.
OwnKey ==
  watcher[current].at \in {"connects", "grabs", "watches", "fires"} =>
    watcher[current].masks = Panel!LockVariants(Panel!Modifiers(spec))

KeyInv ==
  /\ display \in BOOLEAN /\ foreign \in Foreign /\ spec \in Specs
  /\ stop \in [Panel!Grabs -> BOOLEAN] /\ current \in Panel!Grabs
  /\ status \in Panel!Statuses /\ teller \in Panel!Grabs \cup {-1} /\ fired \in BOOLEAN
  /\ watcher \in [Panel!Grabs -> Thread] /\ \A n \in Panel!Grabs : Sorted(watcher[n])
  /\ OwnKey /\ Panel!CaughtIsListenedTo

\* The threads of changes to come.
NotYetStarted == \A n \in Panel!Grabs : n > current => watcher[n] = Panel!NoThread

LEMMA SameCount == \A S : Panel!Cardinality(S) = Cardinality(S)
  BY Zenon DEF Cardinality, Panel!Cardinality

LEMMA MasksFinite ==
  ASSUME KeyBounds
  PROVE  /\ IsFiniteSet(SUBSET Bits)
         /\ \A m \in SUBSET SUBSET Bits : IsFiniteSet(m) /\ Cardinality(m) \in Nat
<1>1. IsFiniteSet({"Shift", "Control", "Alt", "CapsLock", "NumLock", "ScrollLock"})
  <2>1. {"Shift", "Control", "Alt", "CapsLock", "NumLock", "ScrollLock"}
          = {} \cup {"Shift"} \cup {"Control"} \cup {"Alt"} \cup {"CapsLock"} \cup {"NumLock"}
            \cup {"ScrollLock"}
    OBVIOUS
  <2>2. IsFiniteSet({} \cup {"Shift"})
    BY FS_EmptySet, FS_AddElement
  <2>3. IsFiniteSet({} \cup {"Shift"} \cup {"Control"})
    BY <2>2, FS_AddElement
  <2>4. IsFiniteSet({} \cup {"Shift"} \cup {"Control"} \cup {"Alt"})
    BY <2>3, FS_AddElement
  <2>5. IsFiniteSet({} \cup {"Shift"} \cup {"Control"} \cup {"Alt"} \cup {"CapsLock"})
    BY <2>4, FS_AddElement
  <2>6. IsFiniteSet({} \cup {"Shift"} \cup {"Control"} \cup {"Alt"} \cup {"CapsLock"} \cup {"NumLock"})
    BY <2>5, FS_AddElement
  <2>7. IsFiniteSet({} \cup {"Shift"} \cup {"Control"} \cup {"Alt"} \cup {"CapsLock"} \cup {"NumLock"}
                    \cup {"ScrollLock"})
    BY <2>6, FS_AddElement
  <2> QED  BY <2>1, <2>7
<1>2. IsFiniteSet(Bits)
  BY <1>1, FS_Union DEF Bits, KeyBounds
<1>3. IsFiniteSet(SUBSET Bits)
  BY <1>2, FS_SUBSET
<1>4. ASSUME NEW m \in SUBSET SUBSET Bits  PROVE IsFiniteSet(m) /\ Cardinality(m) \in Nat
  BY <1>3, FS_Subset, FS_CardinalityType
<1> QED  BY <1>3, <1>4

LEMMA WrittenKey ==
  ASSUME NEW s
  PROVE  /\ Panel!Parsed(s).key \in KeyNames
         /\ Panel!Parsed(s).key # "none" => Panel!Parsed(s).mods = Panel!Modifiers(s)
         /\ Panel!Modifiers(s) \subseteq Bits
         /\ Panel!LockVariants(Panel!Modifiers(s)) \in SUBSET SUBSET Bits
<1>1. \A token : Panel!Keysym(token) \in KeyNames /\ Panel!ModifierBits(token) \subseteq Bits
  BY DEF Panel!Keysym, KeyNames, Panel!ModifierBits, Bits
<1>2. /\ Panel!Parsed(s).key \in KeyNames
      /\ Panel!Parsed(s).key # "none" => Panel!Parsed(s).mods = Panel!Modifiers(s)
  BY <1>1 DEF Panel!Parsed, KeyNames
<1>3. Panel!Modifiers(s) \subseteq Bits
  BY <1>1 DEF Panel!Modifiers
<1>4. ASSUME NEW l \in SUBSET Locks  PROVE Panel!Modifiers(s) \cup l \in SUBSET Bits
  BY <1>3 DEF Bits
<1> QED  BY <1>2, <1>3, <1>4 DEF Panel!LockVariants

\* A started thread has all its masks to catch.
LEMMA StartedThread ==
  ASSUME KeyBounds, NEW s
  PROVE  LET w == Panel!Started(s, Panel!NoThread) IN
         /\ w \in Thread /\ Sorted(w)
         /\ w.at # "none" => w.at = "connects" /\ w.masks = Panel!LockVariants(Panel!Modifiers(s))
<1> DEFINE w == Panel!Started(s, Panel!NoThread)  masks == Panel!LockVariants(Panel!Parsed(s).mods)
<1>1. Panel!NoThread \in Thread /\ Sorted(Panel!NoThread)
  BY FS_EmptySet DEF Panel!NoThread, Thread, Sorted, Panel!Stages, KeyNames
<1>2. CASE Panel!Parsed(s).key = "none"
  <2>1. w = Panel!NoThread
    BY <1>2 DEF Panel!Started
  <2> QED  BY <1>1, <2>1 DEF Panel!NoThread
<1>3. CASE Panel!Parsed(s).key # "none"
  <2>1. masks = Panel!LockVariants(Panel!Modifiers(s)) /\ masks \in SUBSET SUBSET Bits
    BY <1>3, WrittenKey
  <2>2. w = [at |-> "connects", key |-> Panel!Parsed(s).key, masks |-> masks, left |-> masks,
             held |-> {}, busy |-> 0]
    BY <1>3 DEF Panel!Started, Panel!NoThread
  <2>3. w \in Thread
    BY <2>1, <2>2, WrittenKey DEF Thread, Panel!Stages
  <2>4. Cardinality(masks) \in Nat /\ Cardinality({}) = 0
    BY <2>1, MasksFinite, FS_EmptySet
  <2>5. Sorted(w)
    BY <2>2, <2>4 DEF Sorted
  <2> QED  BY <2>1, <2>2, <2>3, <2>5
<1> QED  BY <1>2, <1>3

LEMMA KeyInit ==
  ASSUME KeyBounds, Panel!Init  PROVE KeyInv /\ NotYetStarted
<1>1. Panel!NoThread \in Thread /\ Sorted(Panel!NoThread)
  BY FS_EmptySet DEF Panel!NoThread, Thread, Sorted, Panel!Stages, KeyNames
<1>2. /\ watcher = [[n \in Panel!Grabs |-> Panel!NoThread] EXCEPT ![0] = Panel!Started(spec, Panel!NoThread)]
      /\ 0 \in Panel!Grabs /\ current = 0
  BY DEF Panel!Init, KeyBounds, Panel!Grabs
<1>3. watcher[0] = Panel!Started(spec, Panel!NoThread) /\ \A n \in Panel!Grabs : n # 0 => watcher[n] = Panel!NoThread
  BY <1>2
<1>4. watcher \in [Panel!Grabs -> Thread] /\ \A n \in Panel!Grabs : Sorted(watcher[n])
  BY <1>1, <1>2, <1>3, StartedThread
<1>5. OwnKey
  BY <1>2, <1>3, StartedThread DEF OwnKey
<1>6. NotYetStarted
  BY <1>2, <1>3 DEF NotYetStarted
<1>7. /\ status \in Panel!Statuses /\ teller = -1 /\ stop \in [Panel!Grabs -> BOOLEAN]
      /\ display \in BOOLEAN /\ foreign \in Foreign /\ spec \in Specs /\ fired = FALSE
  BY DEF Panel!Init, Panel!StartedStatus, Panel!Statuses
<1>8. Panel!CaughtIsListenedTo
  BY <1>2, <1>7 DEF Panel!CaughtIsListenedTo
<1> QED  BY <1>2, <1>4, <1>5, <1>6, <1>7, <1>8 DEF KeyInv

-----------------------------------------------------------------------------
(* The threads of the key.                                                  *)

\* A step of a thread that has been started leaves those to come alone.
LEMMA ThreadSteps ==
  ASSUME KeyBounds, KeyInv, NEW n \in Panel!Grabs, NEW w \in Thread, Sorted(w),
         watcher[n].at # "none", watcher' = [watcher EXCEPT ![n] = w],
         UNCHANGED <<display, foreign, spec, stop, current>>,
         status' \in Panel!Statuses, teller' \in Panel!Grabs \cup {-1}, fired' \in BOOLEAN,
         w.at \in {"connects", "grabs", "watches", "fires"} =>
           watcher[n].at \in {"connects", "grabs", "watches", "fires"} /\ w.masks = watcher[n].masks,
         Panel!CaughtIsListenedTo'
  PROVE  KeyInv' /\ (NotYetStarted => NotYetStarted')
<1>1. watcher' \in [Panel!Grabs -> Thread] /\ \A m \in Panel!Grabs : Sorted(watcher'[m])
  BY DEF KeyInv
<1>2. OwnKey'
  <2>1. current \in Panel!Grabs
    BY DEF KeyInv
  <2>2. CASE n = current
    <3>1. watcher'[current] = w
      BY <2>1, <2>2 DEF KeyInv
    <3> QED  BY <2>2, <3>1 DEF KeyInv, OwnKey
  <2>3. CASE n # current
    <3>1. watcher'[current] = watcher[current]
      BY <2>1, <2>3 DEF KeyInv
    <3> QED  BY <3>1 DEF KeyInv, OwnKey
  <2> QED  BY <2>2, <2>3
<1>3. ASSUME NotYetStarted, NEW m \in Panel!Grabs, m > current  PROVE watcher'[m] = Panel!NoThread
  <2>1. watcher[m] = Panel!NoThread
    BY <1>3 DEF NotYetStarted
  <2>2. n # m
    BY <2>1 DEF Panel!NoThread
  <2> QED  BY <2>1, <2>2 DEF KeyInv
<1>4. NotYetStarted => NotYetStarted'
  BY <1>3 DEF NotYetStarted
<1> QED  BY <1>1, <1>2, <1>4 DEF KeyInv

LEMMA GoneThreads ==
  ASSUME KeyBounds
  PROVE  Panel!Gone \in Thread /\ Sorted(Panel!Gone) /\ Panel!Gone.at = "gone"
         /\ Panel!Broken \in Thread /\ Sorted(Panel!Broken) /\ Panel!Broken.at = "broken"
  BY FS_EmptySet DEF Panel!Gone, Panel!Broken, Panel!NoThread, Thread, Sorted, Panel!Stages, KeyNames

LEMMA ConnectKey ==
  ASSUME KeyBounds, KeyInv, NEW n \in Panel!Grabs, Panel!Connect(n)
  PROVE  KeyInv' /\ (NotYetStarted => NotYetStarted')
<1>1. watcher[n] \in Thread /\ Sorted(watcher[n]) /\ watcher[n].at = "connects"
      /\ watcher \in [Panel!Grabs -> Thread] /\ current \in Panel!Grabs
      /\ UNCHANGED <<display, foreign, spec, stop, current, fired>>
  BY DEF KeyInv, Panel!Connect
<1> DEFINE w == [watcher[n] EXCEPT !.at = "grabs"]
<1>2. CASE watcher' = [watcher EXCEPT ![n].at = "grabs"] /\ UNCHANGED <<status, teller>>
  <2>1. watcher' = [watcher EXCEPT ![n] = w]
    BY <1>2
  <2>2. w \in Thread /\ Sorted(w) /\ w.masks = watcher[n].masks
    BY <1>1 DEF Thread, Sorted, Panel!Stages
  <2>3. Panel!CaughtIsListenedTo'
    <3>1. CASE n = current
      BY <1>1, <1>2, <3>1 DEF KeyInv, Panel!CaughtIsListenedTo
    <3>2. CASE n # current
      <4>1. watcher'[current] = watcher[current]
        BY <1>1, <1>2, <3>2
      <4> QED  BY <1>1, <1>2, <4>1 DEF KeyInv, Panel!CaughtIsListenedTo
    <3> QED  BY <3>1, <3>2
  <2> HIDE DEF w
  <2> QED  BY <1>1, <1>2, <2>1, <2>2, <2>3, ThreadSteps DEF KeyInv
<1>3. CASE /\ watcher' = [watcher EXCEPT ![n] = Panel!Gone]
           /\ status' = (IF display THEN "Failed" ELSE "NoDisplay") /\ teller' = n
  <2>1. status' \in {"Failed", "NoDisplay"}
    BY <1>3
  <2>2. Panel!CaughtIsListenedTo'
    BY <2>1 DEF Panel!CaughtIsListenedTo, Panel!KeepsWatcher
  <2> QED  BY <1>1, <1>3, <2>1, <2>2, GoneThreads, ThreadSteps DEF KeyInv, Panel!Statuses
<1> QED  BY <1>2, <1>3 DEF Panel!Connect

LEMMA GrabKey ==
  ASSUME KeyBounds, KeyInv, NEW n \in Panel!Grabs, Panel!Grab(n)
  PROVE  KeyInv' /\ (NotYetStarted => NotYetStarted')
<1> DEFINE old == watcher[n]
           mask == CHOOSE m \in old.left : TRUE
           w == [old EXCEPT !.left = @ \ {mask}]
           busier == [w EXCEPT !.busy = @ + 1]
           holder == [w EXCEPT !.held = @ \cup {mask}]
<1>1. /\ old \in Thread /\ Sorted(old) /\ old.at = "grabs" /\ mask \in old.left
      /\ watcher \in [Panel!Grabs -> Thread] /\ current \in Panel!Grabs
      /\ UNCHANGED <<display, foreign, spec, stop, current, status, teller, fired>>
  BY DEF KeyInv, Panel!Grab
<1>2. \E v \in {w, busier, holder} : watcher' = [watcher EXCEPT ![n] = v]
  BY DEF Panel!Grab
<1>3. /\ old.left \in SUBSET SUBSET Bits /\ old.held \in SUBSET SUBSET Bits
      /\ old.masks \in SUBSET SUBSET Bits /\ old.busy \in Nat /\ old.key \in KeyNames
  BY <1>1 DEF Thread
<1> HIDE DEF mask
<1>4. /\ Cardinality(old.left) \in Nat /\ Cardinality(old.left \ {mask}) = Cardinality(old.left) - 1
      /\ Cardinality(old.held) \in Nat
      /\ mask \notin old.held => Cardinality(old.held \cup {mask}) = Cardinality(old.held) + 1
      /\ Cardinality(old.masks) \in Nat
  <2>1. IsFiniteSet(old.left) /\ IsFiniteSet(old.held)
    BY <1>3, MasksFinite
  <2>2. Cardinality(old.left \ {mask}) = Cardinality(old.left) - 1
    BY <1>1, <2>1, FS_RemoveElement
  <2>3. mask \notin old.held => Cardinality(old.held \cup {mask}) = Cardinality(old.held) + 1
    BY <2>1, FS_AddElement
  <2> QED  BY <1>3, <2>2, <2>3, MasksFinite
<1>5. mask \notin old.held /\ mask \in old.masks
  BY <1>1 DEF Sorted
<1>6. ASSUME NEW v \in {w, busier, holder}
      PROVE  v \in Thread /\ Sorted(v) /\ v.at = "grabs" /\ v.masks = old.masks
  <2>1. v.at = "grabs" /\ v.masks = old.masks /\ v.key = old.key /\ v.left = old.left \ {mask}
        /\ \/ v.busy = old.busy + 1 /\ v.held = old.held
           \/ v.busy = old.busy /\ v.held \in {old.held, old.held \cup {mask}}
    BY <1>1, <1>6 DEF Thread
  <2>2. v \in Thread
    <3>1. /\ v = [at |-> v.at, key |-> v.key, masks |-> v.masks, left |-> v.left, held |-> v.held,
                  busy |-> v.busy]
      BY <1>1, <1>6 DEF Thread
    <3>2. v.left \in SUBSET SUBSET Bits /\ v.held \in SUBSET SUBSET Bits /\ v.busy \in Nat
      BY <1>1, <1>3, <2>1
    <3> QED  BY <1>3, <2>1, <3>1, <3>2 DEF Thread, Panel!Stages
  <2>3. v.busy + Cardinality(v.held) + Cardinality(v.left) <= Cardinality(v.masks)
    <3>1. old.busy + Cardinality(old.held) + Cardinality(old.left) <= Cardinality(old.masks)
      BY <1>1 DEF Sorted
    <3>2. Cardinality(v.left) = Cardinality(old.left) - 1 /\ v.masks = old.masks
      BY <1>4, <2>1
    <3>3. \/ v.busy = old.busy + 1 /\ Cardinality(v.held) = Cardinality(old.held)
          \/ v.busy = old.busy /\ Cardinality(v.held) \in {Cardinality(old.held), Cardinality(old.held) + 1}
      BY <1>4, <1>5, <2>1
    <3> HIDE DEF old, w, busier, holder
    <3> QED  BY <1>3, <1>4, <3>1, <3>2, <3>3
  <2>4. v.held \cup v.left \subseteq v.masks /\ v.held \cap v.left = {}
    BY <1>1, <1>5, <2>1 DEF Sorted
  <2> QED  BY <2>1, <2>2, <2>3, <2>4 DEF Sorted
<1>7. PICK v \in {w, busier, holder} : watcher' = [watcher EXCEPT ![n] = v]
  BY <1>2
<1> HIDE DEF w, busier, holder
<1>8. Panel!CaughtIsListenedTo'
  <2>1. CASE n = current
    BY <1>1, <2>1 DEF KeyInv, Panel!CaughtIsListenedTo
  <2>2. CASE n # current
    <3>1. watcher'[current] = watcher[current]
      BY <1>1, <1>7, <2>2
    <3> QED  BY <1>1, <3>1 DEF KeyInv, Panel!CaughtIsListenedTo
  <2> QED  BY <2>1, <2>2
<1> QED  BY <1>1, <1>6, <1>7, <1>8, ThreadSteps DEF KeyInv

\* What is told of a key follows from what was caught of it.
LEMMA OutcomeIsTrue ==
  ASSUME KeyBounds, NEW w \in Thread, Sorted(w), w.left = {},
         Panel!KeepsWatcher(Panel!GrabOutcome(Cardinality(w.held), w.busy, Cardinality(w.masks)))
  PROVE  /\ w.held # {}
         /\ Panel!IsReliableRoute(Panel!GrabOutcome(Cardinality(w.held), w.busy, Cardinality(w.masks))) =>
              w.held = w.masks
<1>1. /\ w.held \in SUBSET w.masks /\ IsFiniteSet(w.masks)
      /\ Cardinality(w.held) \in Nat /\ Cardinality(w.masks) \in Nat
  BY MasksFinite DEF Thread, Sorted
<1>2. Cardinality(w.masks) # 0
      /\ (Cardinality(w.held) = Cardinality(w.masks) \/ Cardinality(w.held) > 0)
  BY <1>1 DEF Panel!KeepsWatcher, Panel!GrabOutcome
<1>3. w.held # {}
  <2>1. w.held = {} => Cardinality(w.held) = 0
    BY FS_EmptySet
  <2> QED  BY <1>1, <1>2, <2>1
<1>4. ASSUME Panel!IsReliableRoute(Panel!GrabOutcome(Cardinality(w.held), w.busy, Cardinality(w.masks)))
      PROVE  w.held = w.masks
  <2>1. Cardinality(w.held) = Cardinality(w.masks)
    BY <1>4 DEF Panel!IsReliableRoute, Panel!GrabOutcome
  <2> QED  BY <1>1, <2>1, FS_Subset
<1> QED  BY <1>3, <1>4

LEMMA ReportKey ==
  ASSUME KeyBounds, KeyInv, NEW n \in Panel!Grabs, Panel!Report(n)
  PROVE  KeyInv' /\ (NotYetStarted => NotYetStarted')
<1> DEFINE old == watcher[n]
           s == Panel!GrabOutcome(Cardinality(old.held), old.busy, Cardinality(old.masks))
           w == IF Panel!WatchesAfter(s) THEN [old EXCEPT !.at = "watches"] ELSE Panel!Gone
<1>1. /\ old \in Thread /\ Sorted(old) /\ old.at = "grabs" /\ old.left = {}
      /\ watcher \in [Panel!Grabs -> Thread] /\ current \in Panel!Grabs
      /\ UNCHANGED <<display, foreign, spec, stop, current, fired>>
      /\ status' = s /\ teller' = n
  BY SameCount DEF KeyInv, Panel!Report
<1>2. watcher' = [watcher EXCEPT ![n] = w]
  BY SameCount DEF Panel!Report
<1>3. s \in Panel!Statuses
  BY DEF Panel!GrabOutcome, Panel!Statuses
<1>4. /\ w \in Thread /\ Sorted(w) /\ w.at \in {"watches", "gone"}
      /\ w.at = "watches" => w.masks = old.masks /\ w.held = old.held
      /\ Panel!KeepsWatcher(s) => w.at = "watches"
  <2>1. CASE Panel!KeepsWatcher(s)
    <3>1. w = [old EXCEPT !.at = "watches"]
      BY <2>1 DEF Panel!WatchesAfter
    <3>2. w \in Thread /\ w.at = "watches" /\ w.masks = old.masks /\ w.held = old.held
          /\ w.left = old.left /\ w.busy = old.busy
      BY <1>1, <3>1 DEF Thread, Panel!Stages
    <3> QED  BY <1>1, <3>2 DEF Sorted
  <2>2. CASE ~Panel!KeepsWatcher(s)
    BY <2>2, GoneThreads DEF Panel!WatchesAfter
  <2> QED  BY <2>1, <2>2
<1>5. Panel!KeepsWatcher(s) => old.held # {} /\ (Panel!IsReliableRoute(s) => old.held = old.masks)
  BY <1>1, OutcomeIsTrue
<1> HIDE DEF s, w
<1>6. Panel!CaughtIsListenedTo'
  <2> SUFFICES ASSUME n = current, Panel!KeepsWatcher(s)
               PROVE  /\ watcher'[current].at = "watches" /\ watcher'[current].held # {}
                      /\ Panel!IsReliableRoute(s) =>
                           \A locks \in SUBSET Locks :
                             Panel!Modifiers(spec) \cup locks \in watcher'[current].held
    BY <1>1 DEF Panel!CaughtIsListenedTo
  <2>1. watcher'[current] = w /\ w.at = "watches" /\ w.held = old.held /\ w.held # {}
    BY <1>1, <1>2, <1>4, <1>5
  <2>2. old.masks = Panel!LockVariants(Panel!Modifiers(spec))
    BY <1>1 DEF KeyInv, OwnKey
  <2> QED  BY <1>5, <2>1, <2>2 DEF Panel!LockVariants
<1> QED  BY <1>1, <1>2, <1>3, <1>4, <1>6, ThreadSteps DEF KeyInv

LEMMA WatchKey ==
  ASSUME KeyBounds, KeyInv, NEW n \in Panel!Grabs, Panel!Leave(n) \/ Panel!Break(n) \/ Panel!Press(n) \/ Panel!AskFrame(n)
  PROVE  KeyInv' /\ (NotYetStarted => NotYetStarted')
<1> DEFINE moved(stage) == [watcher[n] EXCEPT !.at = stage]
<1>1. /\ watcher[n] \in Thread /\ Sorted(watcher[n]) /\ watcher[n].at \in {"watches", "fires"}
      /\ watcher \in [Panel!Grabs -> Thread] /\ current \in Panel!Grabs
      /\ UNCHANGED <<display, foreign, spec, stop, current, status, teller>> /\ fired' \in BOOLEAN
  BY DEF KeyInv, Panel!Leave, Panel!Break, Panel!Press, Panel!AskFrame
<1>2. ASSUME NEW stage \in {"watches", "fires"}
      PROVE  /\ moved(stage) \in Thread /\ Sorted(moved(stage)) /\ moved(stage).at = stage
             /\ moved(stage).masks = watcher[n].masks /\ moved(stage).held = watcher[n].held
  BY <1>1 DEF Thread, Panel!Stages, Sorted
<1>3. PICK w \in {moved("watches"), moved("fires"), Panel!Gone, Panel!Broken} :
        watcher' = [watcher EXCEPT ![n] = w] /\ (w = Panel!Gone => stop[n])
  <2>1. CASE Panel!Leave(n)
    BY <2>1 DEF Panel!Leave
  <2>2. CASE Panel!Break(n)
    BY <2>2 DEF Panel!Break, Panel!Gone, Panel!Broken, Panel!NoThread
  <2>3. CASE Panel!Press(n)
    <3>1. moved("fires") # Panel!Gone
      BY <1>2, GoneThreads
    <3> QED  BY <2>3, <3>1 DEF Panel!Press
  <2>4. CASE Panel!AskFrame(n)
    <3>1. moved("watches") # Panel!Gone
      BY <1>2, GoneThreads
    <3> QED  BY <2>4, <3>1 DEF Panel!AskFrame
  <2> QED  BY <2>1, <2>2, <2>3, <2>4
<1>4. /\ w \in Thread /\ Sorted(w) /\ w.at \in {"watches", "fires", "gone", "broken"}
      /\ w.at \in {"watches", "fires"} => w.masks = watcher[n].masks /\ w.held = watcher[n].held
      /\ w.at = "gone" => stop[n]
  BY <1>2, <1>3, GoneThreads
<1> HIDE DEF moved
<1>5. Panel!CaughtIsListenedTo'
  <2>1. CASE n = current
    <3>1. watcher'[current] = w
      BY <1>1, <1>3, <2>1
    <3> QED  BY <1>1, <1>4, <2>1, <3>1 DEF KeyInv, Panel!CaughtIsListenedTo
  <2>2. CASE n # current
    <3>1. watcher'[current] = watcher[current]
      BY <1>1, <1>3, <2>2
    <3> QED  BY <1>1, <3>1 DEF KeyInv, Panel!CaughtIsListenedTo
  <2> QED  BY <2>1, <2>2
<1> QED  BY <1>1, <1>3, <1>4, <1>5, ThreadSteps DEF KeyInv

LEMMA RegrabKey ==
  ASSUME KeyBounds, KeyInv, NotYetStarted, NEW s \in Specs, Panel!Regrab(s), fired' \in BOOLEAN
  PROVE  KeyInv' /\ NotYetStarted'
<1>1. /\ current \in Panel!Grabs /\ current + 1 \in Panel!Grabs /\ current' = current + 1 /\ spec' = s
      /\ stop' = [stop EXCEPT ![current] = TRUE]
      /\ watcher' = [watcher EXCEPT ![current + 1] = Panel!Started(s, @)]
      /\ status' \in Panel!Statuses /\ teller' = -1 /\ UNCHANGED <<display, foreign>>
      /\ watcher \in [Panel!Grabs -> Thread] /\ watcher[current + 1] = Panel!NoThread
  BY DEF Panel!Regrab, Panel!HandOver, KeyInv, NotYetStarted, Panel!Grabs, KeyBounds, Panel!StartedStatus, Panel!Statuses
<1>2. /\ watcher'[current + 1] = Panel!Started(s, Panel!NoThread)
      /\ \A n \in Panel!Grabs : n # current + 1 => watcher'[n] = watcher[n]
      /\ watcher' \in [Panel!Grabs -> Thread] /\ \A n \in Panel!Grabs : Sorted(watcher'[n])
  BY <1>1, StartedThread DEF KeyInv
<1>3. OwnKey'
  BY <1>1, <1>2, StartedThread DEF OwnKey
<1>4. NotYetStarted'
  BY <1>1, <1>2 DEF NotYetStarted, Panel!Grabs, KeyBounds
<1>5. Panel!CaughtIsListenedTo'
  <2>1. teller' # current'
    BY <1>1 DEF Panel!Grabs, KeyBounds
  <2> QED  BY <2>1 DEF Panel!CaughtIsListenedTo
<1>6. stop' \in [Panel!Grabs -> BOOLEAN]
  BY <1>1 DEF KeyInv
<1> QED  BY <1>1, <1>2, <1>3, <1>4, <1>5, <1>6 DEF KeyInv

LEMMA KeyGives ==
  ASSUME KeyBounds, KeyInv  PROVE Panel!TypeOK /\ Panel!CaughtIsListenedTo
<1>1. ASSUME NEW n \in Panel!Grabs  PROVE watcher[n].busy \in 0..Cardinality(watcher[n].masks)
  <2> DEFINE w == watcher[n]
  <2>1. w \in Thread /\ Sorted(w)
    BY DEF KeyInv
  <2>2. w.busy \in Nat /\ Cardinality(w.held) \in Nat /\ Cardinality(w.left) \in Nat
        /\ Cardinality(w.masks) \in Nat
    BY <2>1, MasksFinite DEF Thread
  <2>3. w.busy + Cardinality(w.held) + Cardinality(w.left) <= Cardinality(w.masks)
    BY <2>1 DEF Sorted
  <2> HIDE DEF w
  <2>4. w.busy <= Cardinality(w.masks)
    BY <2>2, <2>3
  <2>5. w.busy \in 0..Cardinality(w.masks)
    BY <2>2, <2>4
  <2> QED  BY <2>5 DEF w
<1>2. \A n \in Panel!Grabs : watcher[n] \in Thread /\ Sorted(watcher[n])
  BY DEF KeyInv
<1>3. \A n \in Panel!Grabs : /\ watcher[n].at \in Panel!Stages
                       /\ watcher[n].held \cup watcher[n].left \subseteq watcher[n].masks
                       /\ watcher[n].held \cap watcher[n].left = {}
  BY <1>2 DEF Thread, Sorted
<1> QED  BY <1>1, <1>3, SameCount DEF KeyInv, Panel!TypeOK

LEMMA KeyNext ==
  ASSUME KeyBounds, KeyInv, NotYetStarted, [Panel!Next]_(Panel!hotkeyVars)  PROVE KeyInv' /\ NotYetStarted'
<1>1. ASSUME NEW s \in Specs, Panel!Regrab(s), UNCHANGED fired  PROVE KeyInv' /\ NotYetStarted'
  BY <1>1, RegrabKey DEF KeyInv
<1>2. ASSUME NEW n \in Panel!Grabs, Panel!ThreadStep(n) \/ Panel!Break(n) \/ Panel!Press(n)  PROVE KeyInv' /\ NotYetStarted'
  BY <1>2, ConnectKey, GrabKey, ReportKey, WatchKey DEF Panel!ThreadStep
<1>3. CASE Panel!TakePress \/ UNCHANGED Panel!hotkeyVars
  BY <1>3 DEF Panel!TakePress, Panel!hotkeyVars, KeyInv, NotYetStarted, OwnKey, Panel!CaughtIsListenedTo
<1> QED  BY <1>1, <1>2, <1>3 DEF Panel!Next

\* However often the key is changed, and whatever other applications own: a key that is told as
\* caught is listened to, and one told as caught in every lock state fires in every one.
THEOREM CaughtKeyFires ==
  ASSUME KeyBounds  PROVE Panel!Spec => [](Panel!CaughtIsListenedTo /\ Panel!TypeOK)
<1>1. Panel!Init => KeyInv /\ NotYetStarted
  BY KeyInit
<1>2. KeyInv /\ NotYetStarted /\ [Panel!Next]_(Panel!hotkeyVars) => KeyInv' /\ NotYetStarted'
  BY KeyNext
<1>3. KeyInv => Panel!CaughtIsListenedTo /\ Panel!TypeOK
  BY KeyGives
<1> QED  BY <1>1, <1>2, <1>3, PTL DEF Panel!Spec

-----------------------------------------------------------------------------
(* What the settings window says of the key.                               *)

\* The modifiers of a key are gone through one by one.
LeaveTurns(h, n, s) == h[0] = <<>> /\ \A i \in 1..n : h[i] = Panel!LeaveOut(h[i-1], s[i])

LEMMA IgnoredInTurn ==
  ASSUME NEW X, <<>> \in X, NEW n \in Nat, NEW s, DOMAIN s = 1..n,
         \A acc \in X, i \in 1..n : Panel!LeaveOut(acc, s[i]) \in X
  PROVE  \E h : LeaveTurns(h, n, s) /\ Panel!Ignored(s) = h[n]
<1> DEFINE Step(f, r) == IF r = {} THEN <<>> ELSE Panel!LeaveOut(f[r \ {Greatest(r)}], s[Greatest(r)])
<1>1. PICK D : D = [z \in X \X (1..n) |-> Panel!LeaveOut(z[1], s[z[2]])]
  OBVIOUS
<1>2. D \in [X \X (1..n) -> X] /\ \A x \in X, i \in 1..n : D[<<x, i>>] = Panel!LeaveOut(x, s[i])
  BY <1>1
<1>3. PICK g \in [SUBSET (1..n) -> X] : FoldsTo(g, n, <<>>, D)
  BY <1>2, FoldExists
<1>4. g = [r \in SUBSET (1..n) |-> Step(g, r)]
  <2>1. ASSUME NEW r \in SUBSET (1..n), r # {}  PROVE g[r] = Step(g, r)
    <3>1. Greatest(r) \in r /\ r \ {Greatest(r)} \in SUBSET (1..n) /\ Greatest(r) \in 1..n
      BY <2>1, MaxIn
    <3> QED  BY <3>1, <2>1, <1>2, <1>3 DEF FoldsTo
  <2>2. g[{}] = <<>>
    BY <1>3 DEF FoldsTo
  <2> QED  BY <2>1, <2>2, <1>3, Zenon
<1>5. Panel!Ignored(s)
        = (CHOOSE f : f = [r \in SUBSET (1..n) |-> Step(f, r)])[1..n]
  BY Zenon DEF Panel!Ignored, Panel!FoldLeft, Panel!MapThenFoldSet, Panel!Max, Greatest
<1>6. PICK f : f = CHOOSE e : e = [r \in SUBSET (1..n) |-> Step(e, r)]
  OBVIOUS
<1>7. f = [r \in SUBSET (1..n) |-> Step(f, r)]
  BY <1>4, <1>6, Zenon
<1>8. Panel!Ignored(s) = f[1..n]
  BY <1>5, <1>6, Zenon
<1>9. ASSUME NEW i \in 1..n  PROVE f[1..i] = Panel!LeaveOut(f[1..(i-1)], s[i])
  <2>1. PICK r : r = 1..i
    OBVIOUS
  <2>2. r \in SUBSET (1..n) /\ r # {} /\ Greatest(r) = i /\ r \ {i} = 1..(i-1)
    BY <2>1, UpTo
  <2>3. f[r] = Panel!LeaveOut(f[r \ {Greatest(r)}], s[Greatest(r)])
    BY <1>7, <2>2
  <2> QED  BY <2>1, <2>2, <2>3
<1>10. f[1..0] = <<>>
  <2>1. 1..0 = {}
    OBVIOUS
  <2> QED  BY <1>7, <2>1
<1>11. PICK h : h = [i \in 0..n |-> f[1..i]]
  OBVIOUS
<1>12. h[0] = <<>> /\ h[n] = f[1..n] /\ \A i \in 1..n : h[i] = Panel!LeaveOut(h[i-1], s[i])
  BY <1>9, <1>10, <1>11
<1>13. LeaveTurns(h, n, s)
  BY <1>12 DEF LeaveTurns
<1> QED  BY <1>8, <1>12, <1>13, Zenon

\* And their names.
NameTurns(h, n, s, p) == h[0] = <<>> /\ \A i \in 1..n : h[i] = Panel!Name(h[i-1], s[i], p)
NamesIn(X, n, s, p) == \A acc \in X, i \in 1..n : Panel!Name(acc, s[i], p) \in X

LEMMA NamedInTurn ==
  ASSUME NEW X, <<>> \in X, NEW n \in Nat, NEW s, DOMAIN s = 1..n, NEW p,
         NamesIn(X, n, s, p)
  PROVE  \E h : NameTurns(h, n, s, p) /\ Panel!Named(s, p) = h[n]
<1> DEFINE Step(f, r) == IF r = {} THEN <<>> ELSE Panel!Name(f[r \ {Greatest(r)}], s[Greatest(r)], p)
<1>1. PICK D : D = [z \in X \X (1..n) |-> Panel!Name(z[1], s[z[2]], p)]
  OBVIOUS
<1>2. D \in [X \X (1..n) -> X] /\ \A x \in X, i \in 1..n : D[<<x, i>>] = Panel!Name(x, s[i], p)
  BY <1>1 DEF NamesIn
<1>3. PICK g \in [SUBSET (1..n) -> X] : FoldsTo(g, n, <<>>, D)
  BY <1>2, FoldExists
<1>4. g = [r \in SUBSET (1..n) |-> Step(g, r)]
  <2>1. ASSUME NEW r \in SUBSET (1..n), r # {}  PROVE g[r] = Step(g, r)
    <3>1. Greatest(r) \in r /\ r \ {Greatest(r)} \in SUBSET (1..n) /\ Greatest(r) \in 1..n
      BY <2>1, MaxIn
    <3> QED  BY <3>1, <2>1, <1>2, <1>3 DEF FoldsTo
  <2>2. g[{}] = <<>>
    BY <1>3 DEF FoldsTo
  <2> QED  BY <2>1, <2>2, <1>3, Zenon
<1>5. Panel!Named(s, p)
        = (CHOOSE f : f = [r \in SUBSET (1..n) |-> Step(f, r)])[1..n]
  BY Zenon DEF Panel!Named, Panel!FoldLeft, Panel!MapThenFoldSet, Panel!Max, Greatest
<1>6. PICK f : f = CHOOSE e : e = [r \in SUBSET (1..n) |-> Step(e, r)]
  OBVIOUS
<1>7. f = [r \in SUBSET (1..n) |-> Step(f, r)]
  BY <1>4, <1>6, Zenon
<1>8. Panel!Named(s, p) = f[1..n]
  BY <1>5, <1>6, Zenon
<1>9. ASSUME NEW i \in 1..n  PROVE f[1..i] = Panel!Name(f[1..(i-1)], s[i], p)
  <2>1. PICK r : r = 1..i
    OBVIOUS
  <2>2. r \in SUBSET (1..n) /\ r # {} /\ Greatest(r) = i /\ r \ {i} = 1..(i-1)
    BY <2>1, UpTo
  <2>3. f[r] = Panel!Name(f[r \ {Greatest(r)}], s[Greatest(r)], p)
    BY <1>7, <2>2
  <2> QED  BY <2>1, <2>2, <2>3
<1>10. f[1..0] = <<>>
  <2>1. 1..0 = {}
    OBVIOUS
  <2> QED  BY <1>7, <2>1
<1>11. PICK h : h = [i \in 0..n |-> f[1..i]]
  OBVIOUS
<1>12. h[0] = <<>> /\ h[n] = f[1..n] /\ \A i \in 1..n : h[i] = Panel!Name(h[i-1], s[i], p)
  BY <1>9, <1>10, <1>11
<1>13. NameTurns(h, n, s, p)
  BY <1>12 DEF NameTurns
<1> QED  BY <1>8, <1>12, <1>13, Zenon

Names == {"Shift", "Control", "Alt", "CapsLock", "NumLock", "ScrollLock"}

LEMMA NameMeansItself ==
  /\ \A token : Panel!ModifierBits(token) \subseteq Names
  /\ \A n \in Names : Panel!ModifierBits(n) = {n}
  /\ \A token : Panel!Keysym(token) # "none" => Panel!Keysym(Panel!Keysym(token)) = Panel!Keysym(token)
<1>1. \A token : Panel!ModifierBits(token) \subseteq Names
  BY DEF Panel!ModifierBits, Names
<1>2. \A n \in Names : Panel!ModifierBits(n) = {n}
  BY DEF Panel!ModifierBits, Names
<1>3. \A token : Panel!Keysym(token) # "none" => Panel!Keysym(Panel!Keysym(token)) = Panel!Keysym(token)
  BY DEF Panel!Keysym
<1> QED  BY <1>1, <1>2, <1>3

\* Every modifier that is meant is named, and nothing else.
LEMMA AllNamed ==
  ASSUME NEW mods \in SUBSET Names
  PROVE  LET a == Panel!Named(Panel!ModifierNames, mods)
         IN  a \in Seq(mods) /\ \A m \in mods : \E i \in 1..Len(a) : a[i] = m
<1>1. PICK order : order = Panel!ModifierNames
  OBVIOUS
<1>2. /\ DOMAIN order = 1..6 /\ \A m \in Names : \E j \in 1..6 : order[j] = m
  BY <1>1 DEF Panel!ModifierNames, Names
<1>3. PICK X : X = Seq(mods)
  OBVIOUS
<1>4. ASSUME NEW a \in X, NEW j \in 1..6
      PROVE  /\ Panel!Name(a, order[j], mods) \in X
             /\ \A i \in 1..Len(a) : i \in 1..Len(Panel!Name(a, order[j], mods))
                                      /\ Panel!Name(a, order[j], mods)[i] = a[i]
             /\ order[j] \in mods => \E i \in 1..Len(Panel!Name(a, order[j], mods)) :
                                       Panel!Name(a, order[j], mods)[i] = order[j]
  <2>1. PICK b : b = Panel!Name(a, order[j], mods)
    OBVIOUS
  <2>2. a \in Seq(mods) /\ Len(a) \in Nat
    BY <1>3
  <2>3. CASE order[j] \in mods
    <3>1. PICK m \in mods : m = order[j]
      BY <2>3
    <3>2. b = Append(a, m)
      BY <2>1, <2>3, <3>1 DEF Panel!Name
    <3>3. /\ b \in Seq(mods) /\ Len(b) = Len(a) + 1 /\ b[Len(a) + 1] = m
          /\ \A i \in 1..Len(a) : b[i] = a[i]
      BY <2>2, <3>2
    <3>4. \A i \in 1..Len(a) : i \in 1..Len(b)
      BY <2>2, <3>3
    <3>5. Len(a) + 1 \in 1..Len(b)
      BY <2>2, <3>3
    <3> QED  BY <1>3, <2>1, <3>1, <3>3, <3>4, <3>5
  <2>4. CASE order[j] \notin mods
    <3>1. b = a
      BY <2>1, <2>4 DEF Panel!Name
    <3> QED  BY <2>1, <2>4, <3>1
  <2> QED  BY <2>3, <2>4
<1>5. <<>> \in X /\ \A a \in X, j \in 1..6 : Panel!Name(a, order[j], mods) \in X
  BY <1>3, <1>4
<1>6. PICK h : NameTurns(h, 6, order, mods) /\ Panel!Named(order, mods) = h[6]
  <2>1. PICK n \in Nat : n = 6
    OBVIOUS
  <2>2. DOMAIN order = 1..n /\ <<>> \in X
    BY <1>2, <1>5, <2>1
  <2>3. NamesIn(X, n, order, mods)
    BY <1>5, <2>1 DEF NamesIn
  <2>4. \E h : NameTurns(h, n, order, mods) /\ Panel!Named(order, mods) = h[n]
    BY <2>2, <2>3, NamedInTurn
  <2> QED  BY <2>1, <2>4
<1>7. h[0] = <<>> /\ \A j \in 1..6 : h[j] = Panel!Name(h[j-1], order[j], mods)
  BY <1>6 DEF NameTurns
<1> DEFINE Has(k) == \A j \in 1..k : order[j] \in mods => \E i \in 1..Len(h[k]) : h[k][i] = order[j]
<1>8. ASSUME NEW k \in 1..6, h[k-1] \in X, Has(k-1)  PROVE h[k] \in X /\ Has(k)
  <2>1. h[k] = Panel!Name(h[k-1], order[k], mods)
    BY <1>7
  <2>2. PICK a, b : a = h[k-1] /\ b = h[k]
    OBVIOUS
  <2>3. /\ b \in X
        /\ \A i \in 1..Len(a) : i \in 1..Len(b) /\ b[i] = a[i]
        /\ order[k] \in mods => \E i \in 1..Len(b) : b[i] = order[k]
    <3>1. a \in X /\ b = Panel!Name(a, order[k], mods)
      BY <1>8, <2>1, <2>2
    <3> QED  BY Zenon, <1>4, <3>1
  <2>4. ASSUME NEW j \in 1..k, order[j] \in mods  PROVE \E i \in 1..Len(b) : b[i] = order[j]
    <3>1. CASE j = k
      BY <2>3, <2>4, <3>1
    <3>2. CASE j # k
      <4>1. j \in 1..k-1
        BY <3>2
      <4>2. PICK i \in 1..Len(a) : a[i] = order[j]
        BY <1>8, <2>2, <2>4, <4>1
      <4> QED  BY <2>3, <4>2
    <3> QED  BY <3>1, <3>2
  <2> QED  BY <2>2, <2>3, <2>4
<1>9. h[0] \in X /\ Has(0)
  BY <1>3, <1>7
<1>10. h[6] \in X /\ Has(6)
  <2> HIDE DEF Has
  <2>1. PICK T : T = {k \in 0..6 : h[k] \in X /\ Has(k)}
    OBVIOUS
  <2>2. 0 \in T /\ \A k \in 1..6 : k - 1 \in T => k \in T
    BY <1>8, <1>9, <2>1
  <2>3. 0..6 \subseteq T
    BY <2>2, Climb
  <2> QED  BY <2>1, <2>3
<1>11. ASSUME NEW m \in mods  PROVE \E i \in 1..Len(h[6]) : h[6][i] = m
  <2>1. PICK j \in 1..6 : order[j] = m
    BY <1>2
  <2> QED  BY <1>10, <2>1
<1> QED  BY <1>1, <1>3, <1>6, <1>10, <1>11

\* A sequence of known modifiers leaves nothing out.
LEMMA NothingIgnored ==
  ASSUME NEW n \in Nat, NEW s, DOMAIN s = 1..n, \A i \in 1..n : s[i] \in Names
  PROVE  Panel!Ignored(s) = <<>>
<1>1. PICK X : X = {<<>>}
  OBVIOUS
<1>2. \A i \in 1..n : Panel!LeaveOut(<<>>, s[i]) = <<>>
  <2>1. \A i \in 1..n : Panel!ModifierBits(s[i]) # {}
    BY NameMeansItself
  <2> QED  BY <2>1 DEF Panel!LeaveOut
<1>3. <<>> \in X /\ \A a \in X, i \in 1..n : Panel!LeaveOut(a, s[i]) \in X
  BY <1>1, <1>2
<1>4. PICK h : LeaveTurns(h, n, s) /\ Panel!Ignored(s) = h[n]
  BY <1>3, IgnoredInTurn
<1>5. h[0] \in X /\ \A i \in 1..n : h[i-1] \in X => h[i] \in X
  BY <1>3, <1>4 DEF LeaveTurns
<1>6. h[n] \in X
  BY <1>5, InTurn
<1> QED  BY <1>1, <1>4, <1>6

LEMMA EffectiveMeansTheSame == Panel!EffectiveIsGrabbed
<1> SUFFICES ASSUME NEW s, Panel!Parsed(s).key # "none"
    PROVE  Panel!Parsed(Panel!Effective(Panel!Parsed(s))) = [Panel!Parsed(s) EXCEPT !.ignored = <<>>]
  BY Zenon DEF Panel!EffectiveIsGrabbed
<1>1. PICK key, mods : key = Panel!Keysym(Panel!Last(s)) /\ mods = Panel!Modifiers(s)
  OBVIOUS
<1>2. Panel!Parsed(s) = [key |-> key, mods |-> mods, ignored |-> Panel!Ignored(Panel!Front(s))]
  BY <1>1 DEF Panel!Parsed
<1>3. key # "none" /\ Panel!Keysym(key) = key
  BY <1>1, <1>2, NameMeansItself
<1>4. mods \in SUBSET Names
  BY <1>1, NameMeansItself DEF Panel!Modifiers
<1>5. PICK a : a = Panel!Named(Panel!ModifierNames, mods)
  OBVIOUS
<1>6. a \in Seq(mods) /\ \A m \in mods : \E i \in 1..Len(a) : a[i] = m
  BY <1>4, <1>5, AllNamed
<1>7. PICK n : n = Len(a)
  OBVIOUS
<1>8. n \in Nat /\ \A i \in 1..n : a[i] \in mods
  BY <1>6, <1>7, LenProperties, ElementOfSeq
<1>9. PICK e : e = a \o <<key>>
  OBVIOUS
<1>10. PICK P : P = mods \cup {key}
  OBVIOUS
<1>11. e \in Seq(P) /\ Len(e) = n + 1 /\ e[n + 1] = key /\ \A i \in 1..n : e[i] = a[i]
  <2>1. a \in Seq(P) /\ <<key>> \in Seq(P) /\ Len(<<key>>) = 1 /\ <<key>>[1] = key
    <3>1. \A i \in 1..n : a[i] \in P
      BY <1>8, <1>10
    <3>2. a \in Seq(P)
      BY <1>6, <1>7, <1>8, <3>1
    <3> QED  BY <1>10, <3>2
  <2>2. /\ a \o <<key>> \in Seq(P) /\ Len(a \o <<key>>) = Len(a) + Len(<<key>>)
        /\ \A i \in 1..Len(a) + Len(<<key>>) :
             (a \o <<key>>)[i] = IF i <= Len(a) THEN a[i] ELSE <<key>>[i - Len(a)]
    BY <2>1, ConcatProperties
  <2>3. /\ e \in Seq(P) /\ Len(e) = n + 1
        /\ \A i \in 1..n + 1 : e[i] = IF i <= n THEN a[i] ELSE <<key>>[i - n]
    BY <1>7, <1>9, <2>1, <2>2
  <2>4. n + 1 \in 1..n + 1 /\ ~(n + 1 <= n) /\ (n + 1) - n = 1
    BY <1>8
  <2>5. \A i \in 1..n : i \in 1..n + 1 /\ i <= n
    BY <1>8
  <2> QED  BY <2>1, <2>3, <2>4, <2>5
<1>12. Panel!Effective(Panel!Parsed(s)) = e
  BY <1>2, <1>5, <1>9 DEF Panel!Effective
<1>13. Panel!Last(e) = key /\ e # <<>>
  <2>1. Len(<<>>) = 0
    OBVIOUS
  <2> QED  BY <1>8, <1>11, <2>1 DEF Panel!Last
<1>14. Panel!Modifiers(e) = mods
  <2>1. (n + 1) - 1 = n
    BY <1>8
  <2>2. Panel!Modifiers(e) = UNION {Panel!ModifierBits(e[i]) : i \in 1..n}
    BY <1>11, <2>1 DEF Panel!Modifiers
  <2>3. \A i \in 1..n : Panel!ModifierBits(e[i]) = {a[i]}
    BY <1>4, <1>8, <1>11, NameMeansItself
  <2>4. Panel!Modifiers(e) = UNION {{a[i]} : i \in 1..n}
    BY <2>2, <2>3
  <2> QED  BY <1>6, <1>7, <1>8, <2>4
<1>15. Panel!Ignored(Panel!Front(e)) = <<>>
  <2>1. PICK f : f = Panel!Front(e)
    OBVIOUS
  <2>2. f = SubSeq(e, 1, n)
    <3>1. (n + 1) - 1 = n
      BY <1>8
    <3> QED  BY <1>11, <2>1, <3>1 DEF Panel!Front
  <2>3. DOMAIN f = 1..n /\ \A i \in 1..n : f[i] = e[i]
    BY <1>8, <1>11, <2>2
  <2>4. \A i \in 1..n : f[i] \in Names
    BY <1>4, <1>8, <1>11, <2>3
  <2> QED  BY <1>8, <2>1, <2>3, <2>4, NothingIgnored
<1>16. Panel!Parsed(e) = [key |-> key, mods |-> mods, ignored |-> <<>>]
  BY <1>3, <1>13, <1>14, <1>15 DEF Panel!Parsed
<1> QED  BY <1>2, <1>12, <1>16

-----------------------------------------------------------------------------
(* The window.                                                              *)

Window == [mode : {"normal", "panel"}, pending : {"none", "normal", "panel"}, applied : BOOLEAN,
           hidden : BOOLEAN, hide : BOOLEAN, shown : BOOLEAN, away : BOOLEAN, settings : BOOLEAN,
           starts : 0..StartFrames, closing : BOOLEAN, quit : BOOLEAN]

\* The flags of a window that is being worked on.
FlagsAgree(w) ==
  /\ w \in Window
  /\ w.hidden => w.mode = "panel" /\ ~w.shown
  /\ w.shown <=> ~(w.hidden \/ w.away)

\* Between frames only a panel on screen is to be hidden, and a process that is not about to
\* end has no window that closes unseen.
WindowRests ==
  /\ win.hide => win.mode = "panel" /\ ~win.hidden
  /\ open => ~win.quit /\ (win.closing => win.shown)

ShellInv ==
  /\ KeyInv /\ (open => NotYetStarted)
  /\ {wake, requested, dbus, trayOn, minimize, open} \subseteq BOOLEAN
  /\ caller \in {"idle", "asks"} /\ events \in Seq(Panel!TrayEvents)
  /\ FlagsAgree(win) /\ WindowRests /\ Panel!RequestHasFrame

LEMMA ToggledFlags ==
  ASSUME KeyBounds, NEW w, FlagsAgree(w), w.hide => w.mode = "panel"
  PROVE  FlagsAgree(Panel!Toggled(w)) /\ (Panel!Toggled(w).hide => Panel!Toggled(w).mode = "panel")
<1> DEFINE v == Panel!Toggled(w)
<1>1. w \in Window
  BY DEF FlagsAgree
<1>2. \/ w.hidden /\ Panel!Toggled(w) = [w EXCEPT !.shown = TRUE, !.away = FALSE, !.hidden = FALSE]
      \/ /\ ~w.hidden /\ w.mode # "panel"
         /\ Panel!Toggled(w) = [w EXCEPT !.shown = TRUE, !.away = FALSE, !.hidden = FALSE, !.pending = "panel"]
      \/ /\ ~w.hidden /\ w.mode = "panel"
         /\ Panel!Toggled(w) = [w EXCEPT !.shown = FALSE, !.away = FALSE, !.hidden = TRUE]
      \/ ~w.hidden /\ w.mode = "panel" /\ Panel!Toggled(w) = [w EXCEPT !.pending = "normal"]
  BY <1>1 DEF Panel!Toggled, Panel!ToggleAction, Panel!Visible, Panel!Hidden, Panel!RefuseHide, Window
<1>3. Panel!Toggled(w) \in Window
  BY <1>1, <1>2 DEF Window
<1>4. CASE ~(~w.hidden /\ w.mode = "panel")
  <2>1. v.shown /\ ~v.away /\ ~v.hidden /\ v.hide = w.hide /\ v.mode = w.mode
    BY <1>1, <1>2, <1>4 DEF Window
  <2> QED  BY <1>3, <2>1 DEF FlagsAgree
<1>5. CASE ~w.hidden /\ w.mode = "panel"
  <2>1. v.mode = "panel"
    BY <1>1, <1>2, <1>5 DEF Window
  <2>2. \/ ~v.shown /\ ~v.away /\ v.hidden
        \/ v.shown = w.shown /\ v.away = w.away /\ v.hidden = w.hidden
    BY <1>1, <1>2, <1>5 DEF Window
  <2> QED  BY <1>3, <2>1, <2>2 DEF FlagsAgree
<1> QED  BY <1>4, <1>5

LEMMA HideAppliedFlags ==
  ASSUME KeyBounds, NEW w, FlagsAgree(w), w.hide => w.mode = "panel"
  PROVE  FlagsAgree(Panel!HideApplied(w)) /\ ~Panel!HideApplied(w).hide
<1> DEFINE v == Panel!HideApplied(w)
<1>1. w \in Window
  BY DEF FlagsAgree
<1>2. \/ Panel!HideApplied(w) = [w EXCEPT !.hide = FALSE]
      \/ /\ ~w.hidden /\ w.mode = "panel"
         /\ \/ Panel!HideApplied(w) = [w EXCEPT !.hide = FALSE, !.shown = FALSE, !.away = FALSE, !.hidden = TRUE]
            \/ Panel!HideApplied(w) = [w EXCEPT !.hide = FALSE, !.pending = "normal"]
  BY <1>1 DEF Panel!HideApplied, Panel!Visible, Panel!Hidden, Panel!RefuseHide, Window
<1>3. Panel!HideApplied(w) \in Window
  BY <1>1, <1>2 DEF Window
<1>4. ~v.hide /\ v.mode = w.mode
  BY <1>1, <1>2 DEF Window
<1>5. \/ v.shown = w.shown /\ v.away = w.away /\ v.hidden = w.hidden
      \/ ~v.shown /\ ~v.away /\ v.hidden /\ v.mode = "panel"
  BY <1>1, <1>2 DEF Window
<1> QED  BY <1>3, <1>4, <1>5 DEF FlagsAgree

LEMMA StartAppliedFlags ==
  ASSUME KeyBounds, NEW w, FlagsAgree(w), ~w.hide, minimize \in BOOLEAN
  PROVE  FlagsAgree(Panel!StartApplied(w)) /\ ~Panel!StartApplied(w).hide
<1> DEFINE v == Panel!StartApplied(w)
<1>1. w \in Window
  BY DEF FlagsAgree
<1>2. \/ Panel!StartApplied(w) = w
      \/ /\ w.starts # 0
         /\ Panel!StartApplied(w) = [w EXCEPT !.starts = w.starts - 1, !.shown = w.shown /\ ~minimize,
                                        !.away = w.away \/ (minimize /\ ~w.hidden)]
  BY <1>1 DEF Panel!StartApplied, Window
<1>3. Panel!StartApplied(w) \in Window
  <2>1. w.starts # 0 => w.starts - 1 \in 0..StartFrames
    BY <1>1 DEF Window, KeyBounds
  <2> QED  BY <1>1, <1>2, <2>1 DEF Window
<1>4. ~v.hide /\ v.mode = w.mode /\ v.hidden = w.hidden
  BY <1>1, <1>2 DEF Window
<1>5. \/ v.shown = w.shown /\ v.away = w.away
      \/ v.shown = (w.shown /\ ~minimize) /\ v.away = (w.away \/ (minimize /\ ~w.hidden))
  BY <1>1, <1>2 DEF Window
<1> QED  BY <1>3, <1>4, <1>5 DEF FlagsAgree, Window

LEMMA ModeAppliedFlags ==
  ASSUME NEW w, FlagsAgree(w), ~w.hide
  PROVE  FlagsAgree(Panel!ModeApplied(w)) /\ ~Panel!ModeApplied(w).hide
<1> DEFINE v == Panel!ModeApplied(w)
<1>1. w \in Window
  BY DEF FlagsAgree
<1>2. \/ Panel!ModeApplied(w) = w
      \/ \E target \in {"normal", "panel"} :
           /\ target = "normal" => ~w.hidden
           /\ Panel!ModeApplied(w) = [w EXCEPT !.mode = target, !.pending = "none", !.applied = TRUE]
      \/ Panel!ModeApplied(w) = [w EXCEPT !.shown = TRUE, !.away = FALSE, !.hidden = FALSE,
                                    !.mode = "normal", !.pending = "none", !.applied = TRUE]
  BY <1>1 DEF Panel!ModeApplied, Panel!Visible, Window
<1>3. Panel!ModeApplied(w) \in Window
  BY <1>1, <1>2 DEF Window
<1>4. /\ ~v.hide
      /\ \/ /\ v.shown = w.shown /\ v.away = w.away /\ v.hidden = w.hidden
            /\ w.hidden => v.mode \in {w.mode, "panel"}
         \/ v.shown /\ ~v.away /\ ~v.hidden
  BY <1>1, <1>2 DEF Window
<1> QED  BY <1>3, <1>4 DEF FlagsAgree

\* A frame that handles a quit closes; one that handles the tray or a close changes what is shown.
LEMMA TrayHandledFlags ==
  ASSUME NEW w, FlagsAgree(w), ~w.hide
  PROVE  /\ FlagsAgree(Panel!TrayHandled(w)) /\ ~Panel!TrayHandled(w).hide
         /\ ~w.quit => (Panel!TrayHandled(w).quit => Panel!TrayHandled(w).closing)
<1>1. w \in Window
  BY DEF FlagsAgree
<1>2. \/ Panel!TrayHandled(w) = w
      \/ Panel!TrayHandled(w) = [w EXCEPT !.quit = TRUE, !.closing = TRUE]
      \/ Panel!TrayHandled(w) = [w EXCEPT !.shown = TRUE, !.away = FALSE, !.hidden = FALSE]
  BY <1>1 DEF Panel!TrayHandled, Panel!Visible, Window
<1>3. Panel!TrayHandled(w) \in Window
  BY <1>1, <1>2 DEF Window
<1> QED  BY <1>1, <1>2, <1>3, ZenonT(30) DEF FlagsAgree, Window

LEMMA CloseHandledFlags ==
  ASSUME NEW w, FlagsAgree(w), ~w.hide, w.quit => w.closing
  PROVE  /\ FlagsAgree(Panel!CloseHandled(w)) /\ ~Panel!CloseHandled(w).hide
         /\ Panel!CloseHandled(w).quit => Panel!CloseHandled(w).closing
<1>1. w \in Window
  BY DEF FlagsAgree
<1>2. \/ Panel!CloseHandled(w) = w
      \/ ~w.quit /\ Panel!CloseHandled(w) = [w EXCEPT !.closing = FALSE, !.shown = FALSE, !.away = ~w.hidden]
  BY <1>1 DEF Panel!CloseHandled, Window
<1>3. Panel!CloseHandled(w) \in Window
  BY <1>1, <1>2 DEF Window
<1> QED  BY <1>1, <1>2, <1>3, ZenonT(30) DEF FlagsAgree, Window

\* What is done with the window in a frame, before it is drawn.
Worked(w) == Panel!Handled(IF requested \/ fired THEN Panel!Toggled(w) ELSE w)

LEMMA WorkedFlags ==
  ASSUME KeyBounds, ShellInv, open
  PROVE  FlagsAgree(Worked(win)) /\ ~Worked(win).hide /\ (Worked(win).quit => Worked(win).closing)
<1> DEFINE w1 == IF requested \/ fired THEN Panel!Toggled(win) ELSE win
           w2 == Panel!HideApplied(w1)
           w3 == Panel!StartApplied(w2)
           w4 == Panel!ModeApplied(w3)
           w5 == Panel!TrayHandled(w4)
<1>1. FlagsAgree(win) /\ (win.hide => win.mode = "panel") /\ ~win.quit /\ minimize \in BOOLEAN
  BY DEF ShellInv, WindowRests
<1>2. win \in Window
  BY <1>1 DEF FlagsAgree
<1>3. FlagsAgree(w1) /\ (w1.hide => w1.mode = "panel")
  BY <1>1, ToggledFlags
<1>4. ~w1.quit
  BY <1>1, <1>2 DEF Panel!Toggled, Panel!ToggleAction, Panel!Visible, Panel!Hidden, Panel!RefuseHide, Window
<1> HIDE DEF w1
<1>5. FlagsAgree(w2) /\ ~w2.hide
  BY <1>3, HideAppliedFlags
<1>6. ~w2.quit
  <2>1. w1 \in Window
    BY <1>3 DEF FlagsAgree
  <2> QED  BY <1>4, <2>1 DEF Panel!HideApplied, Panel!Visible, Panel!Hidden, Panel!RefuseHide, Window
<1> HIDE DEF w2
<1>7. FlagsAgree(w3) /\ ~w3.hide
  BY <1>1, <1>5, StartAppliedFlags
<1>8. ~w3.quit
  <2>1. w2 \in Window
    BY <1>5 DEF FlagsAgree
  <2> QED  BY <1>6, <2>1 DEF Panel!StartApplied, Window
<1> HIDE DEF w3
<1>9. FlagsAgree(w4) /\ ~w4.hide
  BY <1>7, ModeAppliedFlags
<1>10. ~w4.quit
  <2>1. w3 \in Window
    BY <1>7 DEF FlagsAgree
  <2> QED  BY <1>8, <2>1 DEF Panel!ModeApplied, Panel!Visible, Window
<1> HIDE DEF w4
<1>11. FlagsAgree(w5) /\ ~w5.hide /\ (w5.quit => w5.closing)
  BY <1>9, <1>10, TrayHandledFlags
<1> HIDE DEF w5
<1>12. FlagsAgree(Panel!CloseHandled(w5)) /\ ~Panel!CloseHandled(w5).hide
       /\ (Panel!CloseHandled(w5).quit => Panel!CloseHandled(w5).closing)
  BY <1>11, CloseHandledFlags
<1>13. Worked(win) = Panel!CloseHandled(w5)
  BY DEF Worked, Panel!Handled, w5, w4, w3, w2, w1
<1> QED  BY <1>12, <1>13

LEMMA ClickedFlags ==
  ASSUME NEW w, FlagsAgree(w), ~w.hide, NEW c \in Panel!Clicks(w)
  PROVE  /\ FlagsAgree(Panel!Clicked(w, c)) /\ Panel!Clicked(w, c).shown = w.shown
         /\ Panel!Clicked(w, c).hidden = w.hidden /\ Panel!Clicked(w, c).closing = w.closing
         /\ Panel!Clicked(w, c).quit = w.quit
         /\ Panel!Clicked(w, c).hide => Panel!Clicked(w, c).mode = "panel" /\ ~Panel!Clicked(w, c).hidden
<1>1. w \in Window
  BY DEF FlagsAgree
<1>2. c = "Hide" => w.mode = "panel" /\ ~w.hidden
  BY DEF Panel!Clicks
<1>3. \/ c = "Hide" /\ Panel!Clicked(w, c) = [w EXCEPT !.hide = TRUE]
      \/ Panel!Clicked(w, c) = [w EXCEPT !.settings = TRUE]
      \/ Panel!Clicked(w, c) = [w EXCEPT !.pending = "normal"]
      \/ Panel!Clicked(w, c) = [w EXCEPT !.applied = FALSE]
      \/ Panel!Clicked(w, c) = [w EXCEPT !.settings = FALSE]
      \/ Panel!Clicked(w, c) = w
  BY <1>1 DEF Panel!Clicked
<1>4. Panel!Clicked(w, c) \in Window
  BY <1>1, <1>3 DEF Window
<1> QED  BY <1>1, <1>2, <1>3, <1>4 DEF FlagsAgree, Window

LEMMA ShellStart ==
  ASSUME KeyBounds, Panel!ShellInit  PROVE ShellInv
<1>1. KeyInv /\ NotYetStarted /\ fired = FALSE
  BY KeyInit DEF Panel!ShellInit, Panel!Init
<1>2. /\ win \in Window /\ win.shown = ~win.away /\ ~win.hidden /\ ~win.hide /\ ~win.closing /\ ~win.quit
      /\ minimize \in BOOLEAN
  <2>1. StartFrames \in 0..StartFrames
    BY DEF KeyBounds
  <2>2. minimize \in BOOLEAN
    BY DEF Panel!ShellInit, Panel!WindowInit
  <2>3. PICK drawn \in {"normal", "panel"} :
          win = [mode |-> drawn, pending |-> "none", applied |-> drawn = "normal",
                 hidden |-> FALSE, hide |-> FALSE, shown |-> ~minimize, away |-> minimize,
                 settings |-> FALSE, starts |-> StartFrames, closing |-> FALSE, quit |-> FALSE]
    BY DEF Panel!ShellInit, Panel!WindowInit
  <2>4. (drawn = "normal") \in BOOLEAN /\ (~minimize) \in BOOLEAN
    OBVIOUS
  <2>5. win \in Window
    BY <2>1, <2>2, <2>3, <2>4 DEF Window
  <2>6. win.shown = ~minimize /\ win.away = minimize
    BY <2>3
  <2>7. ~win.hidden /\ ~win.hide /\ ~win.closing /\ ~win.quit
    BY <2>3
  <2> QED  BY <2>2, <2>5, <2>6, <2>7
<1>3. FlagsAgree(win) /\ WindowRests
  BY <1>2 DEF FlagsAgree, WindowRests, Window
<1>4. Panel!RequestHasFrame
  BY <1>1 DEF Panel!ShellInit, Panel!WindowInit, Panel!RequestHasFrame
<1>5. {wake, requested, dbus, trayOn, minimize, open} \subseteq BOOLEAN
      /\ caller \in {"idle", "asks"} /\ events \in Seq(Panel!TrayEvents)
  <2>1. /\ wake \in BOOLEAN /\ requested \in BOOLEAN /\ dbus \in BOOLEAN /\ trayOn \in BOOLEAN
        /\ minimize \in BOOLEAN /\ open \in BOOLEAN
    BY DEF Panel!ShellInit, Panel!WindowInit
  <2>2. caller \in {"idle", "asks"} /\ events \in Seq(Panel!TrayEvents)
    BY DEF Panel!ShellInit, Panel!WindowInit
  <2> QED  BY <2>1, <2>2
<1> QED  BY <1>1, <1>3, <1>4, <1>5 DEF ShellInv

LEMMA FrameShell ==
  ASSUME KeyBounds, ShellInv, Panel!Frame  PROVE ShellInv'
<1>1. /\ open /\ KeyInv /\ NotYetStarted /\ events \in Seq(Panel!TrayEvents)
      /\ {wake, requested, dbus, trayOn, minimize, open} \subseteq BOOLEAN
      /\ caller \in {"idle", "asks"}
  BY DEF ShellInv, Panel!Frame
<1>2. /\ requested' = FALSE /\ fired' = FALSE /\ UNCHANGED <<caller, dbus, trayOn, minimize>>
      /\ events' \in Seq(Panel!TrayEvents)
  BY <1>1 DEF Panel!Frame
<1>3. /\ FlagsAgree(Worked(win)) /\ ~Worked(win).hide
      /\ Worked(win).quit => Worked(win).closing
  BY <1>1, WorkedFlags
<1>4. Worked(win) \in Window
  BY <1>3 DEF FlagsAgree
<1>5. Panel!RequestHasFrame'
  BY <1>2 DEF Panel!RequestHasFrame
<1>6. CASE Worked(win).closing
  <2>1. /\ win' = Worked(win) /\ open' = FALSE /\ stop' = [stop EXCEPT ![current] = TRUE]
        /\ watcher' = [n \in Panel!Grabs |-> Panel!Gone]
        /\ UNCHANGED <<wake, display, foreign, spec, current, status, teller>>
    BY <1>6 DEF Panel!Frame, Worked, Panel!StopWatcher
  <2>2. KeyInv'
    <3>1. stop' \in [Panel!Grabs -> BOOLEAN] /\ stop'[current'] = TRUE
      BY <1>1, <2>1 DEF KeyInv
    <3>2. watcher' \in [Panel!Grabs -> Thread] /\ \A n \in Panel!Grabs : Sorted(watcher'[n]) /\ watcher'[n].at = "gone"
      BY <2>1, GoneThreads
    <3>3. OwnKey' /\ Panel!CaughtIsListenedTo'
      BY <1>1, <2>1, <3>1, <3>2 DEF OwnKey, Panel!CaughtIsListenedTo, KeyInv
    <3> QED  BY <1>1, <1>2, <2>1, <3>1, <3>2, <3>3 DEF KeyInv
  <2>3. FlagsAgree(win') /\ WindowRests'
    BY <1>3, <2>1 DEF WindowRests
  <2> QED  BY <1>1, <1>2, <1>5, <2>1, <2>2, <2>3 DEF ShellInv
<1>7. CASE ~Worked(win).closing
  <2>1. PICK c \in Panel!Clicks(Worked(win)) :
          /\ win' = Panel!Clicked(Worked(win), c) /\ wake' = (Worked(win).shown \/ c = "Restack")
          /\ IF c = "ChangeKey" THEN \E s \in Specs \ {spec} : Panel!Regrab(s)
             ELSE UNCHANGED <<display, foreign, spec, watcher, stop, current, status, teller>>
    BY <1>7 DEF Panel!Frame, Worked
  <2>2. UNCHANGED open
    BY <1>7 DEF Panel!Frame, Worked
  <2>3. FlagsAgree(win') /\ WindowRests'
    BY <1>3, <1>7, <2>1, ClickedFlags DEF WindowRests
  <2>4. KeyInv' /\ NotYetStarted'
    <3>1. CASE UNCHANGED <<display, foreign, spec, watcher, stop, current, status, teller>>
      BY <1>1, <1>2, <3>1 DEF KeyInv, NotYetStarted, OwnKey, Panel!CaughtIsListenedTo
    <3>2. ASSUME NEW s \in Specs, Panel!Regrab(s)  PROVE KeyInv' /\ NotYetStarted'
      BY <1>1, <1>2, <3>2, RegrabKey
    <3> QED  BY <2>1, <3>1, <3>2
  <2>5. wake' \in BOOLEAN
    BY <1>4, <2>1 DEF Window
  <2> QED  BY <1>1, <1>2, <1>5, <2>2, <2>3, <2>4, <2>5 DEF ShellInv
<1> QED  BY <1>6, <1>7

LEMMA KeyThreadShell ==
  ASSUME KeyBounds, ShellInv, NEW n \in Panel!Grabs, Panel!KeyThread(n)  PROVE ShellInv'
<1>1. /\ KeyInv /\ NotYetStarted /\ open
      /\ UNCHANGED <<win, requested, caller, dbus, trayOn, minimize, events, open>>
      /\ Panel!Connect(n) \/ Panel!Grab(n) \/ Panel!Report(n) \/ Panel!Leave(n) \/ Panel!Break(n) \/ Panel!Press(n) \/ Panel!AskFrame(n)
      /\ wake \in BOOLEAN /\ watcher \in [Panel!Grabs -> Thread]
  BY DEF ShellInv, Panel!KeyThread, KeyInv
<1>2. KeyInv' /\ NotYetStarted'
  BY <1>1, ConnectKey, GrabKey, ReportKey, WatchKey
<1>3. wake' \in BOOLEAN /\ (wake => wake') /\ (watcher[n].at = "fires" => wake')
  BY <1>1 DEF Panel!KeyThread, Panel!RequestRepaint
<1>4. \A m \in Panel!Grabs : m # n => watcher'[m] = watcher[m]
  BY <1>1 DEF Panel!Connect, Panel!Grab, Panel!Report, Panel!Leave, Panel!Break, Panel!Press, Panel!AskFrame
<1>5. fired' = fired \/ watcher'[n].at = "fires"
  <2>1. ASSUME Panel!Press(n)  PROVE watcher'[n].at = "fires"
    <3>1. watcher' = [watcher EXCEPT ![n] = [watcher[n] EXCEPT !.at = "fires"]]
      BY <2>1 DEF Panel!Press
    <3> QED  BY <1>1, <3>1 DEF Thread
  <2> QED  BY <1>1, <2>1 DEF Panel!Connect, Panel!Grab, Panel!Report, Panel!Leave, Panel!Break, Panel!AskFrame
<1>6. Panel!RequestHasFrame'
  <2>1. CASE watcher'[n].at = "fires"
    BY <2>1 DEF Panel!RequestHasFrame
  <2>2. CASE fired' = fired
    <3>1. CASE \E m \in Panel!Grabs : watcher[m].at = "fires"
      <4>1. PICK m \in Panel!Grabs : watcher[m].at = "fires"
        BY <3>1
      <4>2. CASE m = n
        BY <1>3, <4>1, <4>2 DEF Panel!RequestHasFrame
      <4>3. CASE m # n
        BY <1>4, <4>1, <4>3 DEF Panel!RequestHasFrame
      <4> QED  BY <4>2, <4>3
    <3>2. CASE ~\E m \in Panel!Grabs : watcher[m].at = "fires"
      BY <1>1, <1>3, <2>2, <3>2 DEF ShellInv, Panel!RequestHasFrame
    <3> QED  BY <3>1, <3>2
  <2> QED  BY <1>5, <2>1, <2>2
<1>7. WindowRests'
  BY <1>1 DEF ShellInv, WindowRests
<1> QED  BY <1>1, <1>2, <1>3, <1>6, <1>7 DEF ShellInv

LEMMA OthersShell ==
  ASSUME KeyBounds, ShellInv,
         Panel!Export \/ Panel!TogglePanel \/ Panel!AskRepaint \/ Panel!UserCloses \/ Panel!SwitchTray \/ Panel!Wakes
           \/ (\E e \in Panel!TrayEvents : Panel!TraySends(e)) \/ UNCHANGED Panel!allVars
  PROVE  ShellInv'
<1>1. UNCHANGED Panel!hotkeyVars /\ UNCHANGED <<open, minimize>>
  BY DEF Panel!Export, Panel!TogglePanel, Panel!AskRepaint, Panel!UserCloses, Panel!SwitchTray, Panel!Wakes, Panel!TraySends, Panel!allVars, Panel!shellVars
<1>2. KeyInv' /\ (open' => NotYetStarted')
  BY <1>1 DEF Panel!hotkeyVars, ShellInv, KeyInv, NotYetStarted, OwnKey, Panel!CaughtIsListenedTo
<1>3. events' \in Seq(Panel!TrayEvents)
  BY DEF Panel!Export, Panel!TogglePanel, Panel!AskRepaint, Panel!UserCloses, Panel!SwitchTray, Panel!Wakes, Panel!TraySends, Panel!allVars, Panel!shellVars,
         ShellInv
<1>4. win' = win \/ (win.shown /\ win' = [win EXCEPT !.closing = TRUE])
  BY DEF Panel!Export, Panel!TogglePanel, Panel!AskRepaint, Panel!UserCloses, Panel!SwitchTray, Panel!Wakes, Panel!TraySends, Panel!allVars, Panel!shellVars
<1>5. FlagsAgree(win')
  BY <1>4 DEF FlagsAgree, ShellInv, Window
<1>6. WindowRests'
  BY <1>1, <1>4 DEF WindowRests, ShellInv, FlagsAgree, Window
<1>7. {wake', requested', dbus', trayOn', minimize', open'} \subseteq BOOLEAN
      /\ caller' \in {"idle", "asks"}
  BY <1>1 DEF Panel!Export, Panel!TogglePanel, Panel!AskRepaint, Panel!UserCloses, Panel!SwitchTray, Panel!Wakes, Panel!TraySends, Panel!allVars, Panel!shellVars,
              ShellInv, Panel!RequestRepaint
<1>8. Panel!RequestHasFrame'
  <2>1. CASE Panel!TogglePanel
    BY <1>1, <2>1 DEF Panel!TogglePanel, Panel!RequestHasFrame, Panel!hotkeyVars
  <2>2. CASE Panel!AskRepaint
    BY <2>2 DEF Panel!AskRepaint, Panel!RequestRepaint, Panel!RequestHasFrame
  <2>3. CASE Panel!UserCloses \/ Panel!Wakes
    BY <2>3 DEF Panel!UserCloses, Panel!Wakes, Panel!RequestHasFrame
  <2>4. CASE Panel!Export \/ Panel!SwitchTray \/ (\E e \in Panel!TrayEvents : Panel!TraySends(e)) \/ UNCHANGED Panel!allVars
    BY <1>1, <2>4 DEF Panel!Export, Panel!SwitchTray, Panel!TraySends, Panel!allVars, Panel!shellVars, Panel!hotkeyVars, ShellInv,
                      Panel!RequestHasFrame
  <2> QED  BY <2>1, <2>2, <2>3, <2>4
<1> QED  BY <1>2, <1>3, <1>5, <1>6, <1>7, <1>8 DEF ShellInv

LEMMA ShellStep ==
  ASSUME KeyBounds, ShellInv, [Panel!ShellNext]_(Panel!allVars)  PROVE ShellInv'
  BY FrameShell, KeyThreadShell, OthersShell DEF Panel!ShellNext

LEMMA ShellGives ==
  ASSUME KeyBounds, ShellInv
  PROVE  Panel!WindowAgrees /\ Panel!RequestHasFrame /\ Panel!CaughtIsListenedTo /\ Panel!ShellTypeOK
<1>1. Panel!WindowAgrees
  BY DEF ShellInv, FlagsAgree, Panel!WindowAgrees
<1>2. Panel!ShellTypeOK
  BY KeyGives DEF ShellInv, FlagsAgree, Panel!ShellTypeOK, Window
<1> QED  BY <1>1, <1>2, KeyGives DEF ShellInv

\* For any number of changes of the key and any events of the tray: the flags of the window are
\* what is on screen, no request is left without a frame, what is told of the key is so, also
\* with the window that changes it and ends its threads, and the key that the settings window
\* writes is the key that is grabbed.
THEOREM WindowTellsTruth ==
  ASSUME KeyBounds  PROVE Panel!ShellSpec => []PanelComesBack
<1>1. Panel!ShellInit => ShellInv
  BY ShellStart
<1>2. ShellInv /\ [Panel!ShellNext]_(Panel!allVars) => ShellInv'
  BY ShellStep
<1>3. ShellInv => PanelComesBack
  BY ShellGives, EffectiveMeansTheSame DEF PanelComesBack
<1> QED  BY <1>1, <1>2, <1>3, PTL DEF Panel!ShellSpec

\* A window that was hidden when the frame began, and was to be shown by it, is shown by it.
LEMMA WorkedShows ==
  ASSUME KeyBounds, ShellInv, open, win.hidden, requested \/ fired, win.starts = 0, ~Worked(win).closing
  PROVE  Worked(win).shown /\ ~Worked(win).hidden
<1> DEFINE w1 == [win EXCEPT !.shown = TRUE, !.away = FALSE, !.hidden = FALSE]
           w2 == Panel!HideApplied(w1)
           w3 == Panel!StartApplied(w2)
           w4 == Panel!ModeApplied(w3)
           w5 == Panel!TrayHandled(w4)
<1>1. win \in Window /\ ~win.hide /\ ~win.closing
  BY DEF ShellInv, FlagsAgree, WindowRests, Window
<1>2. Panel!Toggled(win) = w1
  BY <1>1 DEF Panel!Toggled, Panel!ToggleAction, Panel!Visible, Window
<1>3. w1 \in Window /\ w1.shown /\ ~w1.hidden /\ ~w1.hide /\ ~w1.closing /\ w1.starts = 0
  BY <1>1 DEF Window
<1>4. Worked(win) = Panel!CloseHandled(w5)
  BY <1>2 DEF Worked, Panel!Handled
<1> HIDE DEF w1
<1>5. w2 \in Window /\ w2.shown /\ ~w2.hidden /\ ~w2.closing /\ w2.starts = 0
  BY <1>3 DEF Panel!HideApplied, Window
<1> HIDE DEF w2
<1>6. w3 \in Window /\ w3.shown /\ ~w3.hidden /\ ~w3.closing
  BY <1>5 DEF Panel!StartApplied
<1> HIDE DEF w3
<1>7. w4 \in Window /\ w4.shown /\ ~w4.hidden /\ ~w4.closing
  BY <1>6 DEF Panel!ModeApplied, Window
<1> HIDE DEF w4
<1>8. w5 \in Window /\ w5.shown /\ ~w5.hidden /\ (w5.closing => w5.quit)
  BY <1>7 DEF Panel!TrayHandled, Panel!Visible, Window
<1> HIDE DEF w5
<1>9. Panel!CloseHandled(w5) = w5
  BY <1>8 DEF Panel!CloseHandled
<1> QED  BY <1>4, <1>8, <1>9

\* A press that finds the panel hidden shows it, whatever the frame that takes it has to do
\* besides, unless that frame ends the process.
THEOREM PressShowsPanel ==
  ASSUME KeyBounds  PROVE Panel!ShellSpec => Panel!PressShows
<1>1. Panel!ShellInit => ShellInv
  BY ShellStart
<1>2. ShellInv /\ [Panel!ShellNext]_(Panel!allVars) => ShellInv'
  BY ShellStep
<1>3. ASSUME ShellInv, Panel!ShellNext, win.hidden, wake, open, requested \/ fired,
             ~(requested' \/ fired'), win.starts = 0, ~win'.closing
      PROVE  win'.shown /\ ~win'.hidden
  <2>1. Panel!Frame
    <3>1. ASSUME NEW n \in Panel!Grabs, Panel!KeyThread(n)  PROVE FALSE
      <4>1. UNCHANGED requested
        BY <3>1 DEF Panel!KeyThread
      <4>2. fired' = fired \/ fired' = TRUE
        BY <3>1 DEF Panel!KeyThread, Panel!Connect, Panel!Grab, Panel!Report, Panel!Leave, Panel!Break, Panel!Press, Panel!AskFrame
      <4> QED  BY <1>3, <4>1, <4>2
    <3>2. ASSUME Panel!Export \/ Panel!TogglePanel \/ Panel!AskRepaint \/ Panel!UserCloses \/ Panel!SwitchTray \/ Panel!Wakes
                   \/ \E e \in Panel!TrayEvents : Panel!TraySends(e)
          PROVE  FALSE
      BY <1>3, <3>2 DEF Panel!Export, Panel!TogglePanel, Panel!AskRepaint, Panel!UserCloses, Panel!SwitchTray, Panel!Wakes, Panel!TraySends,
                        Panel!hotkeyVars
    <3> QED  BY <1>3, <3>1, <3>2 DEF Panel!ShellNext
  <2>2. ~Worked(win).closing
    <3>1. Worked(win).closing => win' = Worked(win)
      BY <2>1 DEF Panel!Frame, Worked
    <3> QED  BY <1>3, <3>1
  <2>3. PICK c \in Panel!Clicks(Worked(win)) : win' = Panel!Clicked(Worked(win), c)
    BY <2>1, <2>2 DEF Panel!Frame, Worked
  <2>4. Worked(win).shown /\ ~Worked(win).hidden
    BY <1>3, <2>2, WorkedShows
  <2>5. FlagsAgree(Worked(win)) /\ ~Worked(win).hide
    BY <1>3, WorkedFlags
  <2> QED  BY <2>3, <2>4, <2>5, ClickedFlags
<1>4. ShellInv /\ [Panel!ShellNext]_(Panel!allVars) =>
        [win.hidden /\ wake /\ open /\ (requested \/ fired) /\ ~(requested' \/ fired')
           /\ win.starts = 0 /\ ~win'.closing => win'.shown /\ ~win'.hidden]_(Panel!allVars)
  BY <1>3
<1> QED  BY <1>1, <1>2, <1>4, PTL DEF Panel!ShellSpec, Panel!PressShows

-----------------------------------------------------------------------------
(* The atoms of the window.                                                 *)

\* The bounds of the program and of its environment.
AtomBounds == MaxRequests \in Nat /\ Attempts \in Nat \ {0} /\ MaxSendFaults \in Nat

Inside == {"looks", "sends", "reads"}

\* Nothing on its way is newer than the newest claim, nor than a worker in a round.
SentByOlder ==
  \A i \in 1..Len(sent) :
    /\ sent[i].by <= generation
    /\ \A n \in Atoms!Claims : worker[n].at \in Inside => sent[i].by <= n

\* The lock is never a claim's that is yet to be made.
LockIsClaimed == round <= generation

Inv == Atoms!TypeOK /\ Atoms!RoundsDoNotMix /\ Atoms!NewestSendsLast /\ SentByOlder /\ LockIsClaimed

\* The difference between two states is a sequence of changes.
LEMMA ChangesType ==
  ASSUME NEW wanted, NEW observed
  PROVE  Atoms!AtomChanges(wanted, observed) \in Seq(Atoms!Changes)
<1>1. ASSUME NEW a \in Atoms!StateAtoms
      PROVE  Atoms!AtomChange(a, wanted, observed) \in Seq(Atoms!Changes)
  <2>1. [atom |-> a, add |-> a \in wanted] \in Atoms!Changes
    BY (a \in wanted) \in BOOLEAN DEF Atoms!Changes
  <2>2. <<[atom |-> a, add |-> a \in wanted]>> \in Seq(Atoms!Changes)
    BY <2>1
  <2> QED  BY <2>2 DEF Atoms!AtomChange
<1> QED  BY <1>1 DEF Atoms!AtomChanges, Atoms!StateAtoms

\* What is wanted is a state.
LEMMA WantedType ==
  ASSUME NEW c  PROVE Atoms!WantedState(c) \in Atoms!States
BY DEF Atoms!WantedState, Atoms!States, Atoms!StateAtoms

LEMMA InitInv ==
  ASSUME AtomBounds, Atoms!Init  PROVE Inv
<1>1. Atoms!NoWorker \in Atoms!AWorker
  BY DEF AtomBounds, Atoms!NoWorker, Atoms!Places, Atoms!States, Atoms!Unknown, Atoms!AWorker
<1>2. Atoms!TypeOK
  <2>1. worker \in [Atoms!Claims -> Atoms!AWorker]
    BY <1>1 DEF Atoms!Init
  <2>2. sent \in Seq(Atoms!Message) /\ actual \in Atoms!States /\ failures \in 0..MaxSendFaults
    BY DEF Atoms!Init, Atoms!States, AtomBounds
  <2>3. generation \in 0..MaxRequests /\ round \in 0..MaxRequests
    BY DEF Atoms!Init, AtomBounds
  <2>4. /\ choice \in Selectable /\ window = "Unknown" /\ asked = Atoms!Unasked
        /\ managed \in BOOLEAN /\ ready \in BOOLEAN /\ overtaken \in BOOLEAN
    BY DEF Atoms!Init
  <2> QED  BY <2>1, <2>2, <2>3, <2>4 DEF Atoms!TypeOK
<1>3. \A n \in Atoms!Claims : worker[n].at = "none"
  BY DEF Atoms!Init, Atoms!NoWorker
<1>4. sent = <<>> /\ round = 0 /\ generation = 0
  BY DEF Atoms!Init
<1> QED  BY <1>2, <1>3, <1>4 DEF Inv, Atoms!RoundsDoNotMix, Atoms!NewestSendsLast, SentByOlder, LockIsClaimed

\* A worker that stays, or comes to be, outside the lock, and sends nothing.
LEMMA StaysOutside ==
  ASSUME AtomBounds, Inv, NEW n \in Atoms!Claims, NEW w \in Atoms!AWorker, w.at \notin Inside,
         worker' = [worker EXCEPT ![n] = w], sent' = sent,
         generation' = generation \/ generation' = generation + 1,
         \/ round' = round
         \/ round = n /\ round' = 0
  PROVE  /\ worker' \in [Atoms!Claims -> Atoms!AWorker] /\ round' \in 0..MaxRequests
         /\ Atoms!RoundsDoNotMix' /\ Atoms!NewestSendsLast' /\ SentByOlder' /\ LockIsClaimed'
<1> USE DEF Inv, Atoms!TypeOK
<1>1. \A m \in Atoms!Claims : m # n => worker'[m] = worker[m]
  OBVIOUS
<1>2. worker'[n] = w
  OBVIOUS
<1>3. Atoms!RoundsDoNotMix'
  BY <1>1, <1>2 DEF Atoms!RoundsDoNotMix, Inside, Atoms!Claims
<1>4. Atoms!NewestSendsLast'
  BY DEF Atoms!NewestSendsLast
<1>5. SentByOlder'
  <2> SUFFICES ASSUME NEW i \in 1..Len(sent)
               PROVE  /\ sent[i].by <= generation'
                      /\ \A m \in Atoms!Claims : worker'[m].at \in Inside => sent[i].by <= m
    BY DEF SentByOlder
  <2>1. sent[i] \in Atoms!Message
    OBVIOUS
  <2>2. sent[i].by <= generation'
    <3>1. sent[i].by \in Int /\ generation \in Int /\ generation' \in Int
      BY <2>1 DEF Atoms!Message, Atoms!Claims, AtomBounds
    <3>2. sent[i].by <= generation
      BY DEF SentByOlder
    <3> QED  BY <3>1, <3>2
  <2>3. \A m \in Atoms!Claims : m # n /\ worker[m].at \in Inside => sent[i].by <= m
    BY DEF SentByOlder
  <2> QED  BY <1>1, <1>2, <2>2, <2>3
<1> QED  BY <1>3, <1>4, <1>5 DEF AtomBounds, Atoms!Claims, LockIsClaimed

\* A worker that is inside stays inside, with the lock, and sends nothing.
LEMMA StaysInside ==
  ASSUME AtomBounds, Inv, NEW n \in Atoms!Claims, NEW w \in Atoms!AWorker,
         worker[n].at \in Inside, worker' = [worker EXCEPT ![n] = w],
         sent' = sent, generation' = generation, round' = round
  PROVE  /\ worker' \in [Atoms!Claims -> Atoms!AWorker]
         /\ Atoms!RoundsDoNotMix' /\ Atoms!NewestSendsLast' /\ SentByOlder' /\ LockIsClaimed'
<1> USE DEF Inv, Atoms!TypeOK
<1>1. \A m \in Atoms!Claims : m # n => worker'[m] = worker[m]
  OBVIOUS
<1>2. round = n
  BY DEF Atoms!RoundsDoNotMix, Inside
<1>3. Atoms!RoundsDoNotMix'
  BY <1>1, <1>2 DEF Atoms!RoundsDoNotMix
<1>4. SentByOlder'
  BY <1>1 DEF SentByOlder
<1> QED  BY <1>3, <1>4 DEF Atoms!NewestSendsLast, LockIsClaimed

LEMMA WorkerTypes ==
  ASSUME AtomBounds, Inv
  PROVE  Atoms!NoWorker \in Atoms!AWorker /\ \A n \in Atoms!Claims : worker[n] \in Atoms!AWorker
BY DEF Inv, Atoms!TypeOK, AtomBounds, Atoms!NoWorker, Atoms!Places, Atoms!States, Atoms!Unknown, Atoms!AWorker

\* The parts of the type that a worker's step leaves to this lemma.
LEMMA TypeAgain ==
  ASSUME Inv, Atoms!ByItself, worker' \in [Atoms!Claims -> Atoms!AWorker], round' \in 0..MaxRequests,
         sent' \in Seq(Atoms!Message), failures' \in 0..MaxSendFaults, overtaken' \in BOOLEAN
  PROVE  Atoms!TypeOK'
BY DEF Inv, Atoms!TypeOK, Atoms!ByItself, Atoms!ofTheWM

LEMMA FailsType ==
  ASSUME AtomBounds, Inv, NEW n \in Atoms!Claims, Atoms!Fails(n)
  PROVE  failures' \in 0..MaxSendFaults
BY DEF AtomBounds, Inv, Atoms!TypeOK, Atoms!Fails

LEMMA ConnectInv ==
  ASSUME AtomBounds, Inv, NEW n \in Atoms!Claims, Atoms!Connect(n)  PROVE Inv'
<1>1. failures' \in 0..MaxSendFaults
  BY FailsType DEF Atoms!Connect, Inv, Atoms!TypeOK
<1>2. PICK stage \in {"loop", "failed"} : worker' = [worker EXCEPT ![n] = [worker[n] EXCEPT !.at = stage]]
  BY DEF Atoms!Connect, Atoms!Goes
<1> DEFINE w == [worker[n] EXCEPT !.at = stage]
<1>3. worker[n] \in Atoms!AWorker
  BY WorkerTypes
<1>4. w \in Atoms!AWorker /\ w.at = stage /\ w.at \notin Inside
  BY <1>3 DEF Atoms!AWorker, Atoms!Places, Inside
<1>5. generation' = generation /\ round' = round /\ sent' = sent /\ overtaken' = overtaken
  BY DEF Atoms!Connect, Atoms!ByItself
<1>6. /\ worker' \in [Atoms!Claims -> Atoms!AWorker] /\ round' \in 0..MaxRequests
      /\ Atoms!RoundsDoNotMix' /\ Atoms!NewestSendsLast' /\ SentByOlder' /\ LockIsClaimed'
  BY <1>2, <1>3, <1>4, <1>5, StaysOutside DEF Inv, Atoms!TypeOK
<1> QED  BY <1>1, <1>5, <1>6, TypeAgain DEF Inv, Atoms!TypeOK, Atoms!Connect

LEMMA TopInv ==
  ASSUME AtomBounds, Inv, NEW n \in Atoms!Claims, Atoms!Top(n)  PROVE Inv'
<1>1. PICK w \in Atoms!AWorker : w.at \notin Inside /\ worker' = [worker EXCEPT ![n] = w]
  <2>1. CASE Atoms!IsCurrent(n)
    <3>1. worker[n] \in Atoms!AWorker
      BY WorkerTypes
    <3>2. /\ [worker[n] EXCEPT !.at = "waits"] \in Atoms!AWorker
          /\ [worker[n] EXCEPT !.at = "waits"].at \notin Inside
      BY <3>1 DEF Atoms!AWorker, Atoms!Places, Inside
    <3> QED  BY <2>1, <3>1, <3>2 DEF Atoms!Top, Atoms!Goes
  <2>2. CASE ~Atoms!IsCurrent(n)
    <3>1. Atoms!NoWorker \in Atoms!AWorker
      BY WorkerTypes
    <3>2. /\ [Atoms!NoWorker EXCEPT !.at = "superseded"] \in Atoms!AWorker
          /\ [Atoms!NoWorker EXCEPT !.at = "superseded"].at \notin Inside
      BY <3>1 DEF Atoms!AWorker, Atoms!Places, Inside
    <3> QED  BY <2>2, <3>1, <3>2 DEF Atoms!Top
  <2> QED  BY <2>1, <2>2
<1>2. /\ generation' = generation /\ round' = round /\ sent' = sent
      /\ overtaken' = overtaken /\ failures' = failures
  BY DEF Atoms!Top, Atoms!ByItself
<1>3. /\ worker' \in [Atoms!Claims -> Atoms!AWorker] /\ round' \in 0..MaxRequests
      /\ Atoms!RoundsDoNotMix' /\ Atoms!NewestSendsLast' /\ SentByOlder' /\ LockIsClaimed'
  BY <1>1, <1>2, StaysOutside DEF Inv, Atoms!TypeOK
<1> QED  BY <1>2, <1>3, TypeAgain DEF Inv, Atoms!TypeOK, Atoms!Top

\* The claim is the newest when the lock is taken: nothing on its way is newer.
LEMMA EnterInv ==
  ASSUME AtomBounds, Inv, NEW n \in Atoms!Claims, Atoms!Enter(n)  PROVE Inv'
<1>1. /\ generation' = generation /\ sent' = sent /\ overtaken' = overtaken /\ failures' = failures
      /\ round = 0 /\ n # 0
  BY DEF Atoms!Enter, Atoms!ByItself, Atoms!Claims, AtomBounds
<1>2. CASE ~Atoms!MaySend(n)
  <2> DEFINE w == [worker[n] EXCEPT !.at = "decides", !.observed = Atoms!Unknown]
  <2>1. worker[n] \in Atoms!AWorker /\ Atoms!Unknown \in {Atoms!Unknown}
    BY WorkerTypes
  <2>2. w \in Atoms!AWorker /\ w.at \notin Inside
    BY <2>1 DEF Atoms!AWorker, Atoms!Places, Inside
  <2>3. worker' = [worker EXCEPT ![n] = w] /\ round' = round
    BY <1>2 DEF Atoms!Enter
  <2>4. /\ worker' \in [Atoms!Claims -> Atoms!AWorker] /\ round' \in 0..MaxRequests
        /\ Atoms!RoundsDoNotMix' /\ Atoms!NewestSendsLast' /\ SentByOlder' /\ LockIsClaimed'
    BY <1>1, <2>1, <2>2, <2>3, StaysOutside DEF Inv, Atoms!TypeOK
  <2> QED  BY <1>1, <2>4, TypeAgain DEF Inv, Atoms!TypeOK, Atoms!Enter
<1>3. CASE Atoms!MaySend(n)
  <2> DEFINE w == [worker[n] EXCEPT !.at = "looks"]
  <2>0. worker[n] \in Atoms!AWorker
    BY WorkerTypes
  <2>1. w \in Atoms!AWorker /\ w.at \in Inside
    BY <2>0 DEF Atoms!AWorker, Atoms!Places, Inside
  <2>2. worker' = [worker EXCEPT ![n] = w] /\ round' = n /\ generation = n
    BY <1>3 DEF Atoms!Enter, Atoms!Goes, Atoms!MaySend, Atoms!IsCurrent
  <2>3. worker' \in [Atoms!Claims -> Atoms!AWorker] /\ round' \in 0..MaxRequests
    BY <2>1, <2>2 DEF Inv, Atoms!TypeOK, Atoms!Claims, AtomBounds
  <2>4. \A m \in Atoms!Claims : m # n => worker'[m] = worker[m] /\ worker[m].at \notin Inside
    BY <1>1, <2>2 DEF Inv, Atoms!TypeOK, Atoms!RoundsDoNotMix, Inside, Atoms!Claims, AtomBounds
  <2>5. Atoms!RoundsDoNotMix'
    BY <2>2, <2>4 DEF Atoms!RoundsDoNotMix, Inside
  <2>6. SentByOlder'
    BY <1>1, <2>2, <2>4 DEF SentByOlder, Inv
  <2>7. Atoms!NewestSendsLast' /\ LockIsClaimed'
    BY <1>1, <2>2 DEF Atoms!NewestSendsLast, Inv, LockIsClaimed, Atoms!Claims, AtomBounds
  <2>8. Atoms!TypeOK'
    BY <1>1, <2>3, TypeAgain DEF Inv, Atoms!TypeOK, Atoms!Enter
  <2> QED  BY <2>5, <2>6, <2>7, <2>8 DEF Inv
<1> QED  BY <1>2, <1>3

\* A round that ends.
LEMMA OverOutside ==
  ASSUME AtomBounds, Inv, NEW n \in Atoms!Claims, NEW o \in Atoms!States \cup {Atoms!Unknown}, Atoms!Over(n, o),
         worker[n].at \in Inside, sent' = sent, generation' = generation
  PROVE  /\ worker' \in [Atoms!Claims -> Atoms!AWorker] /\ round' \in 0..MaxRequests
         /\ Atoms!RoundsDoNotMix' /\ Atoms!NewestSendsLast' /\ SentByOlder' /\ LockIsClaimed'
<1> DEFINE w == [worker[n] EXCEPT !.at = "decides", !.observed = o]
<1>1. worker[n] \in Atoms!AWorker
  BY WorkerTypes
<1>2. w \in Atoms!AWorker /\ w.at \notin Inside
  BY <1>1 DEF Atoms!AWorker, Atoms!Places, Inside
<1>3. worker' = [worker EXCEPT ![n] = w] /\ round' = 0 /\ round = n
  BY DEF Atoms!Over, Inv, Atoms!RoundsDoNotMix, Inside
<1> QED  BY <1>1, <1>2, <1>3, StaysOutside DEF Inv, Atoms!TypeOK

LEMMA LookInv ==
  ASSUME AtomBounds, Inv, NEW n \in Atoms!Claims, Atoms!Look(n)  PROVE Inv'
<1>1. /\ generation' = generation /\ sent' = sent /\ worker[n].at \in Inside
      /\ Atoms!Unknown \in {Atoms!Unknown}
  BY DEF Atoms!Look, Atoms!ByItself, Inside
<1>2. failures' \in 0..MaxSendFaults /\ overtaken' \in BOOLEAN
  BY FailsType DEF Atoms!Look, Inv, Atoms!TypeOK
<1>3. /\ worker' \in [Atoms!Claims -> Atoms!AWorker] /\ round' \in 0..MaxRequests
      /\ Atoms!RoundsDoNotMix' /\ Atoms!NewestSendsLast' /\ SentByOlder' /\ LockIsClaimed'
  <2>1. CASE Atoms!Over(n, Atoms!Unknown)
    BY <1>1, <2>1, OverOutside
  <2>2. CASE /\ worker' = [worker EXCEPT ![n].at = "sends",
                                         ![n].todo = Atoms!AtomChanges(worker[n].wanted, actual)]
             /\ round' = round
    <3> DEFINE w == [worker[n] EXCEPT !.at = "sends",
                                      !.todo = Atoms!AtomChanges(worker[n].wanted, actual)]
    <3>1. worker[n] \in Atoms!AWorker /\ Atoms!AtomChanges(worker[n].wanted, actual) \in Seq(Atoms!Changes)
      BY WorkerTypes, ChangesType
    <3>2. w \in Atoms!AWorker
      BY <3>1 DEF Atoms!AWorker, Atoms!Places
    <3>3. worker' = [worker EXCEPT ![n] = w]
      BY <2>2
    <3> QED  BY <1>1, <2>2, <3>2, <3>3, StaysInside DEF Inv, Atoms!TypeOK
  <2> QED  BY <2>1, <2>2 DEF Atoms!Look
<1> QED  BY <1>1, <1>2, <1>3, TypeAgain DEF Inv, Atoms!TypeOK, Atoms!Look

\* The only step that sends: it holds the lock, and nothing sent before is newer.
LEMMA SendInv ==
  ASSUME AtomBounds, Inv, NEW n \in Atoms!Claims, Atoms!Send(n)  PROVE Inv'
<1>1. generation' = generation /\ worker[n].at \in Inside /\ overtaken' = overtaken
  BY DEF Atoms!Send, Atoms!ByItself, Inside
<1>2. failures' \in 0..MaxSendFaults
  BY FailsType DEF Atoms!Send, Inv, Atoms!TypeOK
<1>3. worker[n] \in Atoms!AWorker /\ sent \in Seq(Atoms!Message) /\ round \in 0..MaxRequests
  BY DEF Inv, Atoms!TypeOK
<1>4. CASE worker[n].todo = <<>>
  <2> DEFINE w == [worker[n] EXCEPT !.at = "reads"]
  <2>1. w \in Atoms!AWorker
    BY <1>3 DEF Atoms!AWorker, Atoms!Places
  <2>2. worker' = [worker EXCEPT ![n] = w] /\ sent' = sent /\ round' = round
    BY <1>4 DEF Atoms!Send, Atoms!Goes
  <2>3. /\ worker' \in [Atoms!Claims -> Atoms!AWorker]
        /\ Atoms!RoundsDoNotMix' /\ Atoms!NewestSendsLast' /\ SentByOlder' /\ LockIsClaimed'
    BY <1>1, <2>1, <2>2, StaysInside
  <2> QED  BY <1>1, <1>2, <1>3, <2>2, <2>3, TypeAgain DEF Inv, Atoms!TypeOK, Atoms!Send
<1>5. CASE worker[n].todo # <<>> /\ Atoms!Over(n, Atoms!Unknown) /\ sent' = sent
  <2>1. /\ worker' \in [Atoms!Claims -> Atoms!AWorker] /\ round' \in 0..MaxRequests
        /\ Atoms!RoundsDoNotMix' /\ Atoms!NewestSendsLast' /\ SentByOlder' /\ LockIsClaimed'
    BY <1>1, <1>5, OverOutside
  <2> QED  BY <1>1, <1>2, <1>3, <1>5, <2>1, TypeAgain DEF Inv, Atoms!TypeOK, Atoms!Send
<1>6. CASE /\ worker[n].todo # <<>>
           /\ sent' = Append(sent, [change |-> Head(worker[n].todo), by |-> n])
           /\ worker' = [worker EXCEPT ![n].todo = Tail(@)]
           /\ round' = round
  <2> DEFINE msg == [change |-> Head(worker[n].todo), by |-> n]
             w == [worker[n] EXCEPT !.todo = Tail(@)]
  <2>1. Head(worker[n].todo) \in Atoms!Changes /\ Tail(worker[n].todo) \in Seq(Atoms!Changes)
    BY <1>3, <1>6 DEF Atoms!AWorker
  <2>2. msg \in Atoms!Message
    BY <2>1 DEF Atoms!Message
  <2>3. w \in Atoms!AWorker /\ w.at = worker[n].at
    BY <1>3, <2>1 DEF Atoms!AWorker
  <2>4. worker' = [worker EXCEPT ![n] = w]
    BY <1>6
  <2>5. /\ worker' \in [Atoms!Claims -> Atoms!AWorker] /\ worker'[n].at \in Inside
        /\ \A m \in Atoms!Claims : m # n => worker'[m] = worker[m]
    BY <1>1, <2>3, <2>4 DEF Inv, Atoms!TypeOK
  <2>6. /\ sent' \in Seq(Atoms!Message) /\ Len(sent') = Len(sent) + 1
        /\ sent'[Len(sent) + 1] = msg
        /\ \A i \in 1..Len(sent) : sent'[i] = sent[i]
    BY <1>3, <1>6, <2>2
  <2>7. /\ round = n /\ n <= MaxRequests
        /\ \A m \in Atoms!Claims : worker'[m].at \in Inside => m = n
    BY <1>1, <2>5 DEF Inv, Atoms!RoundsDoNotMix, Inside, Atoms!Claims
  <2>8. \A i \in 1..Len(sent) : sent[i].by <= n /\ sent[i].by <= generation
    BY <1>1 DEF Inv, SentByOlder
  <2>9. n <= generation /\ LockIsClaimed'
    BY <1>1, <1>6, <2>7 DEF Inv, LockIsClaimed
  <2>10. Atoms!RoundsDoNotMix'
    BY <1>6, <2>7 DEF Atoms!RoundsDoNotMix, Inside
  <2>11. Atoms!NewestSendsLast'
    <3> SUFFICES ASSUME NEW i \in 1..Len(sent'), NEW j \in 1..Len(sent'), i < j
                 PROVE  sent'[i].by <= sent'[j].by
      BY DEF Atoms!NewestSendsLast
    <3>1. i \in 1..Len(sent) /\ sent'[i] = sent[i]
      BY <1>3, <2>6
    <3>2. CASE j = Len(sent) + 1
      BY <2>6, <2>8, <3>1, <3>2
    <3>3. CASE j # Len(sent) + 1
      <4>1. j \in 1..Len(sent) /\ sent'[j] = sent[j]
        BY <1>3, <2>6, <3>3
      <4> QED  BY <3>1, <4>1 DEF Inv, Atoms!NewestSendsLast
    <3> QED  BY <3>2, <3>3
  <2>12. SentByOlder'
    BY <1>1, <1>3, <2>6, <2>7, <2>8, <2>9 DEF SentByOlder
  <2> QED  BY <1>1, <1>2, <1>3, <1>6, <2>5, <2>6, <2>9, <2>10, <2>11, <2>12, TypeAgain
           DEF Inv, Atoms!TypeOK, Atoms!Send
<1> QED  BY <1>4, <1>5, <1>6 DEF Atoms!Send

LEMMA ReadBackInv ==
  ASSUME AtomBounds, Inv, NEW n \in Atoms!Claims, Atoms!ReadBack(n)  PROVE Inv'
<1>1. /\ generation' = generation /\ sent' = sent /\ overtaken' = overtaken
      /\ worker[n].at \in Inside
  BY DEF Atoms!ReadBack, Atoms!ByItself, Inside
<1>2. failures' \in 0..MaxSendFaults
  BY FailsType DEF Atoms!ReadBack, Inv, Atoms!TypeOK
<1>3. PICK o \in Atoms!States \cup {Atoms!Unknown} : Atoms!Over(n, o)
  BY DEF Atoms!ReadBack, Inv, Atoms!TypeOK, Atoms!Unknown
<1>4. /\ worker' \in [Atoms!Claims -> Atoms!AWorker] /\ round' \in 0..MaxRequests
      /\ Atoms!RoundsDoNotMix' /\ Atoms!NewestSendsLast' /\ SentByOlder' /\ LockIsClaimed'
  BY <1>1, <1>3, OverOutside
<1> QED  BY <1>1, <1>2, <1>4, TypeAgain DEF Inv, Atoms!TypeOK, Atoms!ReadBack

LEMMA DecideInv ==
  ASSUME AtomBounds, Inv, NEW n \in Atoms!Claims, Atoms!Decide(n)  PROVE Inv'
<1> DEFINE step == Atoms!AtomStep(worker[n].wanted, worker[n].observed, worker[n].attempt)
           next == IF step = "loop" THEN worker[n].attempt + 1 ELSE 1
           w == [Atoms!NoWorker EXCEPT !.at = step, !.wanted = worker[n].wanted, !.attempt = next]
<1>1. worker[n] \in Atoms!AWorker /\ Atoms!NoWorker \in Atoms!AWorker
  BY WorkerTypes
<1>2. step \in {"confirmed", "exhausted", "loop"} /\ next \in 1..Attempts
  BY <1>1 DEF Atoms!AtomStep, Atoms!AWorker, AtomBounds
<1>3. w \in Atoms!AWorker /\ w.at = step
  <2> HIDE DEF step, next
  <2> QED  BY <1>1, <1>2 DEF Atoms!AWorker, Atoms!Places
<1>4. w.at \notin Inside
  BY <1>2, <1>3 DEF Inside
<1>5. /\ worker' = [worker EXCEPT ![n] = w] /\ generation' = generation /\ sent' = sent
      /\ round' = round /\ overtaken' = overtaken /\ failures' = failures
  BY DEF Atoms!Decide, Atoms!ByItself
<1>6. /\ worker' \in [Atoms!Claims -> Atoms!AWorker] /\ round' \in 0..MaxRequests
      /\ Atoms!RoundsDoNotMix' /\ Atoms!NewestSendsLast' /\ SentByOlder' /\ LockIsClaimed'
  <2> HIDE DEF w
  <2> QED  BY <1>3, <1>4, <1>5, StaysOutside DEF Inv, Atoms!TypeOK
<1> QED  BY <1>5, <1>6, TypeAgain DEF Inv, Atoms!TypeOK, Atoms!Decide

\* The rest is left alone.
LEMMA Untouched ==
  ASSUME Inv, worker' = worker, round' = round, sent' = sent, generation' = generation
  PROVE  Atoms!RoundsDoNotMix' /\ Atoms!NewestSendsLast' /\ SentByOlder' /\ LockIsClaimed'
BY DEF Inv, Atoms!RoundsDoNotMix, Atoms!NewestSendsLast, SentByOlder, LockIsClaimed

\* The claim of a new request is newer than every other.
LEMMA FrameInv ==
  ASSUME AtomBounds, Inv, Atoms!Frame  PROVE Inv'
<1>1. /\ round' = round /\ sent' = sent /\ overtaken' = overtaken
      /\ managed' = managed /\ ready' = ready /\ actual' = actual
  BY DEF Atoms!Frame, Atoms!ofTheWM
<1>2. /\ choice' \in Selectable /\ window' \in {"Unknown", "X11", "NotX11"}
      /\ asked' \in Atoms!States \cup {Atoms!Unasked}
  BY WantedType DEF Atoms!Frame, Inv, Atoms!TypeOK
<1>3. CASE UNCHANGED <<generation, worker, failures>>
  BY <1>1, <1>2, <1>3, Untouched DEF Inv, Atoms!TypeOK
<1>4. ASSUME NEW wanted \in Atoms!States, Atoms!Request(wanted)  PROVE Inv'
  <2>1. /\ generation' = generation + 1 /\ generation + 1 \in Atoms!Claims
        /\ generation' \in 0..MaxRequests /\ failures' \in 0..MaxSendFaults
    BY <1>4 DEF Atoms!Request, Inv, Atoms!TypeOK, Atoms!Claims, AtomBounds
  <2>2. Atoms!NoWorker \in Atoms!AWorker
    BY WorkerTypes
  <2>3. /\ [Atoms!NoWorker EXCEPT !.at = "connects", !.wanted = wanted] \in Atoms!AWorker
        /\ [Atoms!NoWorker EXCEPT !.at = "connects", !.wanted = wanted].at \notin Inside
        /\ [Atoms!NoWorker EXCEPT !.at = "failed"] \in Atoms!AWorker
        /\ [Atoms!NoWorker EXCEPT !.at = "failed"].at \notin Inside
    BY <2>2 DEF Atoms!AWorker, Atoms!Places, Inside
  <2>4. PICK w \in Atoms!AWorker : w.at \notin Inside /\ worker' = [worker EXCEPT ![generation + 1] = w]
    BY <1>4, <2>1, <2>3 DEF Atoms!Request
  <2>5. /\ worker' \in [Atoms!Claims -> Atoms!AWorker] /\ round' \in 0..MaxRequests
        /\ Atoms!RoundsDoNotMix' /\ Atoms!NewestSendsLast' /\ SentByOlder' /\ LockIsClaimed'
    BY <1>1, <2>1, <2>4, StaysOutside
  <2> QED  BY <1>1, <1>2, <2>1, <2>5 DEF Inv, Atoms!TypeOK
<1>5. Atoms!WantedState(choice') \in Atoms!States
  BY WantedType
<1> QED  BY <1>3, <1>4, <1>5 DEF Atoms!Frame

\* The window manager takes the oldest message.
LEMMA ProcessInv ==
  ASSUME AtomBounds, Inv, Atoms!Process  PROVE Inv'
<1>1. /\ sent \in Seq(Atoms!Message) /\ sent # <<>> /\ sent' = Tail(sent)
      /\ UNCHANGED <<choice, window, asked, generation, worker, round, managed, ready, failures, overtaken>>
  BY DEF Inv, Atoms!TypeOK, Atoms!Process
<1>2. /\ sent' \in Seq(Atoms!Message) /\ Len(sent') = Len(sent) - 1 /\ Len(sent) \in Nat
      /\ \A i \in 1..Len(sent') : i + 1 \in 1..Len(sent) /\ sent'[i] = sent[i + 1]
  BY <1>1
<1>3. actual' \in Atoms!States
  <2>1. Head(sent) \in Atoms!Message
    BY <1>1
  <2>2. Head(sent).change \in Atoms!Changes
    BY <2>1 DEF Atoms!Message
  <2> QED  BY <2>2 DEF Atoms!Process, Inv, Atoms!TypeOK, Atoms!Changes, Atoms!States
<1>4. Atoms!NewestSendsLast'
  <2>1. ASSUME NEW i \in 1..Len(sent'), NEW j \in 1..Len(sent'), i < j  PROVE sent'[i].by <= sent'[j].by
    <3>1. i + 1 \in 1..Len(sent) /\ j + 1 \in 1..Len(sent) /\ i + 1 < j + 1
      BY <1>2, <2>1
    <3>2. sent[i + 1].by <= sent[j + 1].by
      BY <3>1 DEF Atoms!NewestSendsLast, Inv
    <3> QED  BY <1>2, <2>1, <3>2
  <2> QED  BY <2>1 DEF Atoms!NewestSendsLast
<1>5. SentByOlder'
  BY <1>1, <1>2 DEF SentByOlder, Inv
<1> QED  BY <1>1, <1>2, <1>3, <1>4, <1>5 DEF Inv, Atoms!TypeOK, Atoms!RoundsDoNotMix, LockIsClaimed

LEMMA NextInv ==
  ASSUME AtomBounds, Inv, [Atoms!Next]_(Atoms!atomVars)  PROVE Inv'
<1>1. CASE Atoms!Frame
  BY <1>1, FrameInv
<1>2. CASE Atoms!Manage \/ Atoms!Settle
  BY <1>2, Untouched DEF Atoms!Manage, Atoms!Settle, Inv, Atoms!TypeOK
<1>3. CASE Atoms!Process
  BY <1>3, ProcessInv
<1>4. ASSUME NEW n \in Atoms!Claims, Atoms!Worker(n)  PROVE Inv'
  BY <1>4, ConnectInv, TopInv, EnterInv, LookInv, SendInv, ReadBackInv, DecideInv DEF Atoms!Worker
<1>5. CASE UNCHANGED Atoms!atomVars
  BY <1>5, Untouched DEF Atoms!atomVars, Inv, Atoms!TypeOK
<1> QED  BY <1>1, <1>2, <1>3, <1>4, <1>5 DEF Atoms!Next

\* However many requests overtake one another and whatever fails, the messages of a
\* request never come after those of a newer one ...
THEOREM NewestRunsLast ==
  ASSUME AtomBounds  PROVE Atoms!Spec => []Atoms!NewestSendsLast
<1>1. Atoms!Init => Inv
  BY InitInv
<1>2. Inv /\ [Atoms!Next]_(Atoms!atomVars) => Inv'
  BY NextInv
<1>3. Inv => Atoms!NewestSendsLast
  BY DEF Inv
<1> QED  BY <1>1, <1>2, <1>3, PTL DEF Atoms!Spec

\* ... and what a worker reads back between its look and its verdict, no other worker's
\* messages have been mixed into.
THEOREM RoundsAreExclusive ==
  ASSUME AtomBounds  PROVE Atoms!Spec => []Atoms!RoundsDoNotMix
<1>1. Atoms!Init => Inv
  BY InitInv
<1>2. Inv /\ [Atoms!Next]_(Atoms!atomVars) => Inv'
  BY NextInv
<1>3. Inv => Atoms!RoundsDoNotMix
  BY DEF Inv
<1> QED  BY <1>1, <1>2, <1>3, PTL DEF Atoms!Spec

\* Every variable stays of its type.
THEOREM AtomTypes ==
  ASSUME AtomBounds  PROVE Atoms!Spec => []Atoms!TypeOK
<1>1. Atoms!Init => Inv
  BY InitInv
<1>2. Inv /\ [Atoms!Next]_(Atoms!atomVars) => Inv'
  BY NextInv
<1>3. Inv => Atoms!TypeOK
  BY DEF Inv
<1> QED  BY <1>1, <1>2, <1>3, PTL DEF Atoms!Spec

-----------------------------------------------------------------------------
(* What has been confirmed stays.                                           *)

Toward(wanted) == {c \in Atoms!Changes : c.add = (c.atom \in wanted)}

Newest == worker[generation]

\* The worker has looked, and no lock keeps an older one away any more ...
HasLooked(w) ==
  w.at \in {"sends", "reads", "confirmed"} \/ (w.at = "decides" /\ w.observed # Atoms!Unknown)

\* ... and has read what it wants.
HasSeen(w) == w.at = "confirmed" \/ (w.at = "decides" /\ w.observed = w.wanted)

\* What was asked for last is what the last frame wants.
FramesAsk ==
  /\ window # "Unknown" => asked = Atoms!WantedState(choice)
  /\ generation > 0 => window = "X11"

\* The newest worker has and sends nothing but what leads there, over all its rounds.
NewestAsks ==
  generation > 0 =>
    /\ Newest.at # "failed" => Newest.wanted = asked
    /\ \A i \in 1..Len(Newest.todo) : Newest.todo[i] \in Toward(asked)
    /\ \A i \in 1..Len(sent) : sent[i].by = generation => sent[i].change \in Toward(asked)

\* Once it has looked, nobody else's messages are on their way, nor will be.
Alone ==
  generation > 0 /\ ~overtaken /\ HasLooked(Newest) =>
    /\ \A i \in 1..Len(sent) : sent[i].by = generation
    /\ \A m \in Atoms!Claims : m # generation => worker[m].at \notin Inside

Seen == generation > 0 /\ ~overtaken /\ HasSeen(Newest) => actual = asked

Keep == FramesAsk /\ NewestAsks /\ Alone /\ Seen

LEMMA ChangesLead ==
  ASSUME NEW wanted, NEW observed
  PROVE  Atoms!AtomChanges(wanted, observed) \in Seq(Toward(wanted))
<1>1. ASSUME NEW a \in Atoms!StateAtoms
      PROVE  Atoms!AtomChange(a, wanted, observed) \in Seq(Toward(wanted))
  <2>1. [atom |-> a, add |-> a \in wanted] \in Toward(wanted)
    BY (a \in wanted) \in BOOLEAN DEF Atoms!Changes, Toward
  <2>2. <<[atom |-> a, add |-> a \in wanted]>> \in Seq(Toward(wanted))
    BY <2>1
  <2> QED  BY <2>2 DEF Atoms!AtomChange
<1> QED  BY <1>1 DEF Atoms!AtomChanges, Atoms!StateAtoms

\* A state that could not be read is no state.
LEMMA UnknownIsNone ==
  Atoms!Unknown \notin Atoms!States
BY DEF Atoms!Unknown, Atoms!States, Atoms!StateAtoms

LEMMA NewestType ==
  ASSUME AtomBounds, Inv, generation > 0
  PROVE  generation \in Atoms!Claims /\ Newest \in Atoms!AWorker
BY DEF AtomBounds, Inv, Atoms!TypeOK, Atoms!Claims, Newest

LEMMA InitKeep ==
  ASSUME AtomBounds, Atoms!Init  PROVE Keep
BY DEF Atoms!Init, Keep, FramesAsk, NewestAsks, Alone, Seen

\* An older worker: it may go on in the round it is in, and enters no other.
LEMMA OlderKeep ==
  ASSUME AtomBounds, Inv, Keep, NEW n \in Atoms!Claims, n # generation, Atoms!Worker(n)  PROVE Keep'
<1>1. /\ UNCHANGED <<choice, window, asked, generation, actual>>
      /\ generation > 0 => worker'[generation] = worker[generation]
      /\ \A m \in Atoms!Claims : m # n => worker'[m] = worker[m]
  BY NewestType DEF Atoms!Worker, Atoms!Connect, Atoms!Top, Atoms!Enter, Atoms!Look, Atoms!Send, Atoms!ReadBack, Atoms!Decide, Atoms!ByItself, Atoms!ofTheWM,
     Atoms!Goes, Atoms!Over, Inv, Atoms!TypeOK
<1>2. worker'[n].at \in Inside => worker[n].at \in Inside
  <2>1. worker \in [Atoms!Claims -> Atoms!AWorker] /\ worker[n] \in Atoms!AWorker
    BY DEF Inv, Atoms!TypeOK
  <2>2. CASE Atoms!Connect(n) \/ Atoms!Enter(n)
    BY <2>1, <2>2 DEF Atoms!Connect, Atoms!Enter, Atoms!MaySend, Atoms!IsCurrent, Atoms!Goes, Inside, Atoms!AWorker
  <2>3. CASE Atoms!Look(n) \/ Atoms!Send(n) \/ Atoms!ReadBack(n)
    BY <2>3 DEF Atoms!Look, Atoms!Send, Atoms!ReadBack, Inside
  <2>4. CASE Atoms!Top(n)
    <3>1. worker'[n].at = "superseded"
      BY <2>1, <2>4 DEF Atoms!Top, Atoms!IsCurrent, Atoms!NoWorker
    <3> QED  BY <3>1 DEF Inside
  <2>5. CASE Atoms!Decide(n)
    <3>1. worker'[n].at \in {"confirmed", "exhausted", "loop"}
      BY <2>1, <2>5 DEF Atoms!Decide, Atoms!AtomStep, Atoms!NoWorker
    <3> QED  BY <3>1 DEF Inside
  <2> QED  BY <2>2, <2>3, <2>4, <2>5 DEF Atoms!Worker
<1>3. \/ sent' = sent
      \/ worker[n].at \in Inside /\ \E c \in Atoms!Changes : sent' = Append(sent, [change |-> c, by |-> n])
  <2>1. CASE Atoms!Send(n)
    <3>1. worker[n].todo \in Seq(Atoms!Changes)
      BY DEF Inv, Atoms!TypeOK, Atoms!AWorker
    <3> QED  BY <2>1, <3>1 DEF Atoms!Send, Inside
  <2> QED  BY <2>1 DEF Atoms!Worker, Atoms!Connect, Atoms!Top, Atoms!Enter, Atoms!Look, Atoms!ReadBack, Atoms!Decide
<1>4. overtaken => overtaken'
  BY DEF Atoms!Worker, Atoms!Connect, Atoms!Top, Atoms!Enter, Atoms!Look, Atoms!Send, Atoms!ReadBack, Atoms!Decide
<1>5. FramesAsk'
  BY <1>1 DEF Keep, FramesAsk
<1>6. NewestAsks'
  <2> SUFFICES ASSUME generation > 0  PROVE NewestAsks'
    BY <1>1 DEF NewestAsks
  <2>1. \A i \in 1..Len(sent') : sent'[i].by = generation => sent'[i].change \in Toward(asked)
    <3>1. CASE sent' = sent
      BY <3>1 DEF Keep, NewestAsks
    <3>2. ASSUME NEW c \in Atoms!Changes, sent' = Append(sent, [change |-> c, by |-> n])
          PROVE  \A i \in 1..Len(sent') : sent'[i].by = generation => sent'[i].change \in Toward(asked)
      <4>1. sent \in Seq(Atoms!Message) /\ [change |-> c, by |-> n] \in Atoms!Message
        BY DEF Inv, Atoms!TypeOK, Atoms!Message
      <4>2. /\ Len(sent') = Len(sent) + 1 /\ sent'[Len(sent) + 1].by = n /\ Len(sent) \in Nat
            /\ \A i \in 1..Len(sent) : sent'[i] = sent[i]
        BY <3>2, <4>1
      <4> QED  BY <4>2 DEF Keep, NewestAsks
    <3> QED  BY <1>3, <3>1, <3>2
  <2> QED  BY <1>1, <2>1 DEF Keep, NewestAsks, Newest
<1>7. Alone'
  <2> SUFFICES ASSUME generation > 0, ~overtaken', HasLooked(Newest)'
               PROVE  /\ \A i \in 1..Len(sent') : sent'[i].by = generation
                      /\ \A m \in Atoms!Claims : m # generation => worker'[m].at \notin Inside
    BY <1>1 DEF Alone
  <2>1. ~overtaken /\ HasLooked(Newest)
    BY <1>1, <1>4 DEF Newest, HasLooked
  <2>2. worker[n].at \notin Inside
    BY <2>1 DEF Keep, Alone
  <2>3. sent' = sent
    BY <1>3, <2>2
  <2> QED  BY <1>1, <1>2, <2>1, <2>3 DEF Keep, Alone
<1>8. Seen'
  BY <1>1, <1>4 DEF Keep, Seen, Newest, HasSeen
<1> QED  BY <1>5, <1>6, <1>7, <1>8 DEF Keep

\* The newest worker goes on, and sends nothing.
LEMMA NewestGoes ==
  ASSUME AtomBounds, Inv, Keep, generation > 0, NEW w \in Atoms!AWorker, Atoms!ByItself,
         worker' = [worker EXCEPT ![generation] = w], sent' = sent, overtaken => overtaken',
         w.at # "failed" => w.wanted = asked,
         \A i \in 1..Len(w.todo) : w.todo[i] \in Toward(asked),
         ~overtaken' /\ HasLooked(w) =>
           \/ HasLooked(Newest)
           \/ /\ \A i \in 1..Len(sent) : sent[i].by = generation
              /\ \A m \in Atoms!Claims : m # generation => worker[m].at \notin Inside,
         ~overtaken' /\ HasSeen(w) => HasSeen(Newest) \/ actual = asked
  PROVE  Keep'
<1>1. /\ UNCHANGED <<choice, window, asked, generation, actual>>
      /\ Newest' = w /\ \A m \in Atoms!Claims : m # generation => worker'[m] = worker[m]
  BY NewestType DEF Atoms!ByItself, Atoms!ofTheWM, Inv, Atoms!TypeOK, Newest
<1>2. FramesAsk' /\ NewestAsks'
  BY <1>1 DEF Keep, FramesAsk, NewestAsks
<1>3. Alone'
  BY <1>1 DEF Keep, Alone
<1>4. Seen'
  BY <1>1 DEF Keep, Seen
<1> QED  BY <1>2, <1>3, <1>4 DEF Keep

\* A round that ends without a state has confirmed nothing.
LEMMA BlindKeep ==
  ASSUME AtomBounds, Inv, Keep, generation > 0, Atoms!ByItself, Newest.at \notin {"failed"},
         Atoms!Over(generation, Atoms!Unknown) \/
           worker' = [worker EXCEPT ![generation].at = "decides", ![generation].observed = Atoms!Unknown],
         sent' = sent, overtaken => overtaken'
  PROVE  Keep'
<1> DEFINE w == [Newest EXCEPT !.at = "decides", !.observed = Atoms!Unknown]
<1>1. Newest \in Atoms!AWorker /\ Newest.wanted = asked /\ Newest.wanted \in Atoms!States
  BY NewestType DEF Keep, NewestAsks, Atoms!AWorker
<1>2. /\ w \in Atoms!AWorker /\ w.at = "decides" /\ w.observed = Atoms!Unknown
      /\ w.wanted = Newest.wanted /\ w.todo = Newest.todo
  BY <1>1 DEF Atoms!AWorker, Atoms!Places
<1>3. worker' = [worker EXCEPT ![generation] = w]
  BY DEF Atoms!Over, Newest
<1>4. ~HasLooked(w) /\ ~HasSeen(w)
  BY <1>1, <1>2, UnknownIsNone DEF HasLooked, HasSeen
<1>5. \A i \in 1..Len(w.todo) : w.todo[i] \in Toward(asked)
  BY <1>2 DEF Keep, NewestAsks
<1> HIDE DEF w
<1> QED  BY <1>1, <1>2, <1>3, <1>4, <1>5, NewestGoes

\* To another place of its round, or of its loop.
LEMMA PlaceKeep ==
  ASSUME AtomBounds, Inv, Keep, generation > 0, Atoms!ByItself,
         NEW stage \in {"loop", "failed", "waits", "looks", "reads"},
         worker' = [worker EXCEPT ![generation].at = stage], Newest.at # "failed",
         stage = "reads" => HasLooked(Newest), sent' = sent, overtaken => overtaken'
  PROVE  Keep'
<1> DEFINE w == [Newest EXCEPT !.at = stage]
<1>1. Newest \in Atoms!AWorker /\ Newest.wanted = asked
  BY NewestType DEF Keep, NewestAsks
<1>2. w \in Atoms!AWorker /\ w.at = stage /\ w.wanted = Newest.wanted /\ w.todo = Newest.todo
  BY <1>1 DEF Atoms!AWorker, Atoms!Places
<1>3. worker' = [worker EXCEPT ![generation] = w]
  BY DEF Newest
<1>4. (HasLooked(w) => HasLooked(Newest)) /\ ~HasSeen(w)
  BY <1>2 DEF HasLooked, HasSeen
<1>5. \A i \in 1..Len(w.todo) : w.todo[i] \in Toward(asked)
  BY <1>2 DEF Keep, NewestAsks
<1> HIDE DEF w
<1> QED  BY <1>1, <1>2, <1>3, <1>4, <1>5, NewestGoes

\* It looks with the lock: nobody else is in a round, and whose messages are on their way is
\* noted.
LEMMA LookKeep ==
  ASSUME AtomBounds, Inv, Keep, generation > 0, Atoms!Look(generation)  PROVE Keep'
<1>1. /\ Atoms!ByItself /\ sent' = sent /\ Newest.at = "looks" /\ (overtaken => overtaken')
      /\ generation \in Atoms!Claims /\ Newest \in Atoms!AWorker /\ Newest.wanted = asked
  <2>1. Newest.at = "looks" /\ Atoms!ByItself /\ sent' = sent
    BY DEF Atoms!Look, Newest
  <2>2. overtaken => overtaken'
    BY DEF Atoms!Look
  <2> QED  BY <2>1, <2>2, NewestType DEF Keep, NewestAsks
<1>2. CASE Atoms!Over(generation, Atoms!Unknown)
  BY <1>1, <1>2, BlindKeep
<1>3. CASE /\ worker' = [worker EXCEPT ![generation].at = "sends",
                                       ![generation].todo = Atoms!AtomChanges(Newest.wanted, actual)]
           /\ overtaken' = (overtaken \/ \E i \in 1..Len(sent) : sent[i].by # generation)
  <2> DEFINE todo == Atoms!AtomChanges(Newest.wanted, actual)
             w == [Newest EXCEPT !.at = "sends", !.todo = todo]
  <2>1. todo \in Seq(Atoms!Changes) /\ todo \in Seq(Toward(asked))
    BY <1>1, ChangesType, ChangesLead
  <2> HIDE DEF todo
  <2>2. w \in Atoms!AWorker /\ w.at = "sends" /\ w.wanted = Newest.wanted /\ w.todo = todo
    BY <1>1, <2>1 DEF Atoms!AWorker, Atoms!Places
  <2>3. worker' = [worker EXCEPT ![generation] = w]
    BY <1>3 DEF todo, Newest
  <2>4. ~HasSeen(w)
    BY <2>2 DEF HasSeen
  <2>5. \A m \in Atoms!Claims : m # generation => worker[m].at \notin Inside
    BY <1>1 DEF Inv, Atoms!RoundsDoNotMix, Inside, Newest
  <2>6. \A i \in 1..Len(todo) : todo[i] \in Toward(asked)
    BY <2>1
  <2> HIDE DEF w
  <2> QED  BY <1>1, <1>3, <2>2, <2>3, <2>4, <2>5, <2>6, NewestGoes
<1> QED  BY <1>2, <1>3 DEF Atoms!Look, Newest

LEMMA SendKeep ==
  ASSUME AtomBounds, Inv, Keep, generation > 0, Atoms!Send(generation)  PROVE Keep'
<1>1. /\ Atoms!ByItself /\ Newest.at = "sends" /\ overtaken' = overtaken
      /\ generation \in Atoms!Claims /\ Newest \in Atoms!AWorker /\ Newest.wanted = asked
  BY NewestType DEF Atoms!Send, Newest, Keep, NewestAsks
<1>2. CASE Atoms!Over(generation, Atoms!Unknown) /\ sent' = sent
  BY <1>1, <1>2, BlindKeep
<1>3. CASE Atoms!Goes(generation, "reads") /\ sent' = sent
  BY <1>1, <1>3, PlaceKeep DEF Atoms!Goes, HasLooked
<1>4. CASE /\ Newest.todo # <<>>
           /\ sent' = Append(sent, [change |-> Head(Newest.todo), by |-> generation])
           /\ worker' = [worker EXCEPT ![generation].todo = Tail(@)]
  <2> DEFINE w == [Newest EXCEPT !.todo = Tail(Newest.todo)]
             msg == [change |-> Head(Newest.todo), by |-> generation]
  <2>1. Newest.todo \in Seq(Atoms!Changes) /\ Tail(Newest.todo) \in Seq(Atoms!Changes)
    BY <1>1, <1>4 DEF Atoms!AWorker
  <2>2. w \in Atoms!AWorker /\ w.at = "sends" /\ w.wanted = asked /\ w.todo = Tail(Newest.todo)
    BY <1>1, <2>1 DEF Atoms!AWorker
  <2>3. Newest' = w /\ \A m \in Atoms!Claims : m # generation => worker'[m] = worker[m]
    BY <1>1, <1>4 DEF Newest, Atoms!ByItself, Inv, Atoms!TypeOK
  <2>4. /\ Head(Newest.todo) \in Toward(asked)
        /\ \A i \in 1..Len(Tail(Newest.todo)) : Tail(Newest.todo)[i] \in Toward(asked)
    <3>1. \A i \in 1..Len(Newest.todo) : Newest.todo[i] \in Toward(asked)
      BY DEF Keep, NewestAsks
    <3>2. /\ 1 \in 1..Len(Newest.todo) /\ Head(Newest.todo) = Newest.todo[1]
          /\ \A i \in 1..Len(Tail(Newest.todo)) :
               i + 1 \in 1..Len(Newest.todo) /\ Tail(Newest.todo)[i] = Newest.todo[i + 1]
      BY <1>4, <2>1
    <3> QED  BY <3>1, <3>2
  <2>5. /\ Len(sent') = Len(sent) + 1 /\ Len(sent) \in Nat /\ sent'[Len(sent) + 1] = msg
        /\ \A i \in 1..Len(sent) : sent'[i] = sent[i]
    <3>1. Head(Newest.todo) \in Atoms!Changes
      BY <2>4 DEF Toward
    <3>2. msg \in Atoms!Message /\ sent \in Seq(Atoms!Message)
      BY <1>1, <3>1 DEF Atoms!Message, Inv, Atoms!TypeOK
    <3> QED  BY <1>4, <3>2
  <2>6. /\ msg.by = generation /\ msg.change \in Toward(asked)
    BY <2>4
  <2> HIDE DEF w, msg
  <2>7. UNCHANGED <<choice, window, asked, generation, actual>>
    BY <1>1 DEF Atoms!ByItself, Atoms!ofTheWM
  <2>8. \A i \in 1..Len(sent') : sent'[i] = msg \/ (i \in 1..Len(sent) /\ sent'[i] = sent[i])
    BY <2>5
  <2>9. FramesAsk' /\ Seen'
    BY <1>1, <2>2, <2>3, <2>7 DEF Keep, FramesAsk, Seen, HasSeen
  <2>10. NewestAsks'
    BY <2>2, <2>3, <2>4, <2>6, <2>7, <2>8 DEF Keep, NewestAsks
  <2>11. Alone'
    BY <1>1, <2>2, <2>3, <2>6, <2>7, <2>8 DEF Keep, Alone, HasLooked
  <2> QED  BY <2>9, <2>10, <2>11 DEF Keep
<1> QED  BY <1>2, <1>3, <1>4 DEF Atoms!Send, Newest

LEMMA ReadBackKeep ==
  ASSUME AtomBounds, Inv, Keep, generation > 0, Atoms!ReadBack(generation)  PROVE Keep'
<1>1. /\ Atoms!ByItself /\ sent' = sent /\ overtaken' = overtaken /\ Newest.at = "reads"
      /\ Newest \in Atoms!AWorker /\ Newest.wanted = asked
  BY NewestType DEF Atoms!ReadBack, Newest, Keep, NewestAsks
<1>2. CASE Atoms!Over(generation, Atoms!Unknown)
  BY <1>1, <1>2, BlindKeep
<1>3. CASE Atoms!Over(generation, actual)
  <2> DEFINE w == [Newest EXCEPT !.at = "decides", !.observed = actual]
  <2>1. actual \in Atoms!States
    BY DEF Inv, Atoms!TypeOK
  <2>2. /\ w \in Atoms!AWorker /\ w.at = "decides" /\ w.wanted = asked /\ w.todo = Newest.todo
        /\ w.observed = actual
    BY <1>1, <2>1 DEF Atoms!AWorker, Atoms!Places
  <2>3. worker' = [worker EXCEPT ![generation] = w]
    BY <1>3 DEF Atoms!Over, Newest
  <2>4. HasLooked(Newest) /\ (HasSeen(w) => actual = asked)
    BY <1>1, <2>2 DEF HasLooked, HasSeen
  <2>5. \A i \in 1..Len(w.todo) : w.todo[i] \in Toward(asked)
    BY <2>2 DEF Keep, NewestAsks
  <2> HIDE DEF w
  <2> QED  BY <1>1, <2>2, <2>3, <2>4, <2>5, NewestGoes
<1> QED  BY <1>2, <1>3 DEF Atoms!ReadBack

\* What is confirmed has been read.
LEMMA DecideKeep ==
  ASSUME AtomBounds, Inv, Keep, generation > 0, Atoms!Decide(generation)  PROVE Keep'
<1> DEFINE step == Atoms!AtomStep(Newest.wanted, Newest.observed, Newest.attempt)
           next == IF step = "loop" THEN Newest.attempt + 1 ELSE 1
           w == [Atoms!NoWorker EXCEPT !.at = step, !.wanted = Newest.wanted, !.attempt = next]
<1>1. /\ Atoms!ByItself /\ sent' = sent /\ overtaken' = overtaken /\ Newest.at = "decides"
      /\ Newest \in Atoms!AWorker /\ Newest.wanted = asked /\ Atoms!NoWorker \in Atoms!AWorker
  BY NewestType, WorkerTypes DEF Atoms!Decide, Newest, Keep, NewestAsks
<1>2. step \in {"confirmed", "exhausted", "loop"} /\ next \in 1..Attempts
  BY <1>1 DEF Atoms!AtomStep, Atoms!AWorker, AtomBounds
<1>3. step = "confirmed" => Newest.observed = Newest.wanted
  BY DEF Atoms!AtomStep
<1>4. worker' = [worker EXCEPT ![generation] = w]
  BY DEF Atoms!Decide, Newest
<1> HIDE DEF step, next
<1>5. w \in Atoms!AWorker /\ w.at = step /\ w.wanted = asked /\ w.todo = <<>> /\ w.observed = Atoms!Unknown
  BY <1>1, <1>2 DEF Atoms!AWorker, Atoms!Places, Atoms!NoWorker
<1>6. HasLooked(w) \/ HasSeen(w) => HasLooked(Newest) /\ HasSeen(Newest)
  <2>1. Newest.wanted \in Atoms!States
    BY <1>1 DEF Atoms!AWorker
  <2> QED  BY <1>1, <1>2, <1>3, <1>5, <2>1, UnknownIsNone DEF HasLooked, HasSeen
<1>7. \A i \in 1..Len(w.todo) : w.todo[i] \in Toward(asked)
  BY <1>5
<1>8. overtaken => overtaken'
  BY <1>1
<1> HIDE DEF w
<1> QED  BY <1>1, <1>4, <1>5, <1>6, <1>7, <1>8, NewestGoes

\* The newest claim is not superseded, and the lock lets it in.
LEMMA NewestKeep ==
  ASSUME AtomBounds, Inv, Keep, generation > 0, Atoms!Worker(generation)  PROVE Keep'
<1>1. CASE Atoms!Connect(generation)
  BY <1>1, PlaceKeep DEF Atoms!Connect, Atoms!Goes, Newest
<1>2. CASE Atoms!Top(generation)
  BY <1>2, PlaceKeep DEF Atoms!Top, Atoms!IsCurrent, Atoms!Goes, Newest
<1>3. CASE Atoms!Enter(generation)
  BY <1>3, PlaceKeep DEF Atoms!Enter, Atoms!MaySend, Atoms!IsCurrent, Atoms!Goes, Newest
<1> QED  BY <1>1, <1>2, <1>3, LookKeep, SendKeep, ReadBackKeep, DecideKeep DEF Atoms!Worker

\* The claim of a new request has sent nothing; without one, what is asked for stays.
LEMMA FrameKeep ==
  ASSUME AtomBounds, Inv, Keep, Atoms!Frame  PROVE Keep'
<1>1. UNCHANGED <<sent, overtaken, actual>> /\ asked' \in {asked, Atoms!WantedState(choice')}
  BY DEF Atoms!Frame, Atoms!ofTheWM
<1>2. FramesAsk'
  BY DEF Atoms!Frame, Atoms!Request, Keep, FramesAsk, Inv, Atoms!TypeOK
<1>3. CASE UNCHANGED <<generation, worker>>
  <2>1. generation > 0 => asked' = asked
    BY <1>3 DEF Atoms!Frame, Keep, FramesAsk, Atoms!Request, Inv, Atoms!TypeOK
  <2>2. Newest' = Newest
    BY <1>3 DEF Newest
  <2>3. NewestAsks' /\ Alone' /\ Seen'
    BY <1>1, <1>3, <2>1, <2>2 DEF Keep, NewestAsks, Alone, Seen
  <2> QED  BY <1>2, <2>3 DEF Keep
<1>4. CASE Atoms!Request(asked')
  <2>1. generation \in 0..MaxRequests /\ generation' = generation + 1 /\ generation + 1 \in Atoms!Claims
    BY <1>4 DEF Atoms!Request, Inv, Atoms!TypeOK, Atoms!Claims, AtomBounds
  <2>2. /\ Newest'.at \in {"connects", "failed"} /\ Newest'.todo = <<>>
        /\ Newest'.at # "failed" => Newest'.wanted = asked'
    BY <1>4, <2>1 DEF Atoms!Request, Newest, Atoms!NoWorker, Inv, Atoms!TypeOK
  <2>3. \A i \in 1..Len(sent) : sent[i].by # generation + 1
    BY <2>1 DEF Inv, SentByOlder
  <2>4. NewestAsks'
    BY <1>1, <2>1, <2>2, <2>3 DEF NewestAsks
  <2>5. Alone' /\ Seen'
    BY <2>2 DEF Alone, Seen, HasLooked, HasSeen
  <2> QED  BY <1>2, <2>4, <2>5 DEF Keep
<1> QED  BY <1>3, <1>4 DEF Atoms!Frame

\* A message towards what is there already changes nothing.
LEMMA ProcessKeep ==
  ASSUME AtomBounds, Inv, Keep, Atoms!Process  PROVE Keep'
<1>1. /\ sent \in Seq(Atoms!Message) /\ sent # <<>> /\ sent' = Tail(sent)
      /\ UNCHANGED <<choice, window, asked, generation, worker, overtaken>>
  BY DEF Inv, Atoms!TypeOK, Atoms!Process
<1>2. /\ 1 \in 1..Len(sent) /\ Head(sent) = sent[1]
      /\ \A i \in 1..Len(sent') : i + 1 \in 1..Len(sent) /\ sent'[i] = sent[i + 1]
  BY <1>1
<1>3. Newest' = Newest
  BY <1>1 DEF Newest
<1>4. FramesAsk'
  BY <1>1 DEF Keep, FramesAsk
<1>5. NewestAsks'
  BY <1>1, <1>2, <1>3 DEF Keep, NewestAsks
<1>6. Alone'
  BY <1>1, <1>2, <1>3 DEF Keep, Alone
<1>7. Seen'
  <2> SUFFICES ASSUME generation > 0, ~overtaken, HasSeen(Newest)  PROVE actual' = asked
    BY <1>1, <1>3 DEF Seen
  <2>1. actual = asked
    BY DEF Keep, Seen
  <2>2. HasLooked(Newest)
    <3>1. Newest \in Atoms!AWorker
      BY NewestType
    <3>2. Newest.wanted # Atoms!Unknown
      BY <3>1, UnknownIsNone DEF Atoms!AWorker
    <3> QED  BY <3>2 DEF HasSeen, HasLooked
  <2>3. sent[1].by = generation
    BY <1>2, <2>2 DEF Keep, Alone
  <2>4. sent[1].change \in Toward(asked)
    BY <1>2, <2>3 DEF Keep, NewestAsks
  <2>5. asked \in Atoms!States
    BY <2>1 DEF Inv, Atoms!TypeOK
  <2> DEFINE change == sent[1].change
  <2>6. actual' = actual \/ actual' = IF change.add THEN actual \cup {change.atom}
                                      ELSE actual \ {change.atom}
    BY <1>2 DEF Atoms!Process
  <2>7. change.add = (change.atom \in asked)
    BY <2>4 DEF Toward
  <2> HIDE DEF change
  <2>8. CASE change.atom \in asked
    BY <2>1, <2>6, <2>7, <2>8
  <2>9. CASE change.atom \notin asked
    BY <2>1, <2>6, <2>7, <2>9
  <2> QED  BY <2>8, <2>9
<1> QED  BY <1>4, <1>5, <1>6, <1>7 DEF Keep

LEMMA NextKeep ==
  ASSUME AtomBounds, Inv, Keep, [Atoms!Next]_(Atoms!atomVars)  PROVE Keep'
<1>1. CASE Atoms!Manage \/ Atoms!Settle \/ UNCHANGED Atoms!atomVars
  <2>1. UNCHANGED <<choice, window, asked, generation, worker, actual, sent, overtaken>>
    BY <1>1 DEF Atoms!Manage, Atoms!Settle, Atoms!atomVars
  <2> QED  BY <2>1 DEF Keep, FramesAsk, NewestAsks, Alone, Seen, Newest
<1>2. ASSUME NEW n \in Atoms!Claims, Atoms!Worker(n)  PROVE Keep'
  <2>1. CASE n = generation
    BY <1>2, <2>1, NewestKeep DEF Atoms!Claims, AtomBounds
  <2> QED  BY <1>2, <2>1, OlderKeep
<1> QED  BY <1>1, <1>2, FrameKeep, ProcessKeep DEF Atoms!Next

\* What the newest request has confirmed is what the last frame wants, and stays so, although
\* messages of its own attempts may still be on their way and older workers still run.
THEOREM NewestIsKept ==
  ASSUME AtomBounds  PROVE Atoms!Spec => []NewestRequestHolds
<1>1. Atoms!Init => Inv /\ Keep
  BY InitInv, InitKeep
<1>2. Inv /\ Keep /\ [Atoms!Next]_(Atoms!atomVars) => Inv' /\ Keep'
  BY NextInv, NextKeep
<1>3. Inv /\ Keep => NewestRequestHolds
  <2> SUFFICES ASSUME Inv, Keep, generation > 0, Newest.at = "confirmed", ~overtaken
               PROVE  actual = Newest.wanted /\ actual = Atoms!WantedState(choice)
    BY DEF NewestRequestHolds, Atoms!NewestRequestHolds, Atoms!ConfirmedStays, Inv, Newest
  <2>1. actual = asked
    BY DEF Keep, Seen, HasSeen
  <2> QED  BY <2>1 DEF Keep, NewestAsks, FramesAsk
<1> QED  BY <1>1, <1>2, <1>3, PTL DEF Atoms!Spec

-----------------------------------------------------------------------------
(* Where the panel is.                                                      *)

\* Places are whole points, so is the tolerance, and a wait takes time.
Even == {n \in Int : n % 2 = 0}
PlaceBounds ==
  /\ Spots \subseteq Place!Reach \cap Even /\ Monitors \subseteq Nat
  /\ Settled \in Nat \ {0} /\ Tolerance \in Nat \cap Even

Near(a, b) == a - b \in -Tolerance..Tolerance

\* A panel that was not dragged is about where it is remembered, or is asked to go there, or
\* will be: it has not been shown, and its monitor is known.
NotMoved ==
  ~left => /\ stored # Place!Nowhere
           /\ \/ move # Place!Nowhere /\ Near(move, stored)
              \/ move = Place!Nowhere /\ Near(pos, stored)
              \/ monitor # Place!Nowhere /\ (mode = "normal" \/ ~applied)

PlaceInv ==
  /\ Place!TypeOK /\ Place!WatchAgrees /\ NotMoved
  /\ pos \in Even /\ stored \in Even \cup {Place!Nowhere} /\ watch.observed \in Even \cup {Place!Nowhere}

LEMMA HeightsPositive == \A h \in Place!Heights : h \in Nat
BY DEF Place!Heights, Place!HeightFor

LEMMA PlaceInit == ASSUME PlaceBounds, Place!Init  PROVE PlaceInv
<1>1. Spots \subseteq Place!Reach /\ Spots \subseteq Even /\ Place!Nowhere = -1 /\ -1 \notin Place!Reach
  BY DEF PlaceBounds, Place!Nowhere, Place!Reach
<1>2. watch = [observed |-> -1, still |-> 0, requested |-> -1, reported |-> -1]
  BY <1>1 DEF Place!Init, Place!NewWatch
<1>3. Place!TypeOK
  BY <1>1, <1>2 DEF Place!Init, Place!TypeOK, PlaceBounds
<1>4. NotMoved
  <2>1. monitor # Place!Nowhere
    BY <1>1 DEF Place!Init, PlaceBounds
  <2>2. stored = Place!Nowhere => left
    BY DEF Place!Init
  <2>3. mode = "normal" \/ ~applied
    <3>1. CASE mode = "normal"
      BY <3>1
    <3>2. CASE mode # "normal"
      <4>1. applied = (mode = "normal")
        BY DEF Place!Init
      <4> QED  BY <3>2, <4>1, Zenon
    <3> QED  BY <3>1, <3>2
  <2> QED  BY <2>1, <2>2, <2>3, Zenon DEF NotMoved
<1> QED  BY <1>1, <1>2, <1>3, <1>4 DEF Place!Init, PlaceInv, Place!WatchAgrees

\* A place that is asked for is between 0 and the one remembered.
LEMMA RestoredInReach ==
  ASSUME PlaceInv, PlaceBounds, NEW h \in Place!Heights
  PROVE  /\ Place!RestorePosition(stored, h, monitor) \in Place!Reach \cup {Place!Nowhere}
         /\ stored # Place!Nowhere /\ monitor # Place!Nowhere => Place!RestorePosition(stored, h, monitor) # Place!Nowhere
<1>1. h \in Nat /\ stored \in 0..20 \cup {-1} /\ monitor \in Nat \cup {-1} /\ Place!Nowhere = -1
  BY HeightsPositive DEF PlaceInv, PlaceBounds, Place!TypeOK, Place!Nowhere, Place!Reach
<1> QED  BY <1>1 DEF Place!RestorePosition, Place!ClampAxis, Place!Smaller, Place!Larger, Place!Reach

\* What a frame does, once it is known what it asks for and how old the wait is.
LEMMA FrameNext ==
  ASSUME PlaceBounds, PlaceInv, NEW target \in {"normal", "panel"}, NEW dt \in 1..Settled,
         Place!Frame(target, dt)
  PROVE  PlaceInv' /\ (stored' # stored => left /\ move = Place!Nowhere)
<1>1. /\ Place!Nowhere = -1 /\ pos \in 0..20 /\ pos \in Even /\ stored \in 0..20 \cup {-1}
      /\ move \in 0..20 \cup {-1} /\ watch.observed \in 0..20 \cup {-1} /\ watch.reported \in 0..20 \cup {-1}
      /\ watch.requested \in 0..20 \cup {-1} /\ watch.still \in 0..Settled /\ Settled \in Nat \ {0}
      /\ watch \in [observed : 0..20 \cup {-1}, still : 0..Settled, requested : 0..20 \cup {-1},
                    reported : 0..20 \cup {-1}]
      /\ Tolerance \in Nat
  BY DEF PlaceInv, PlaceBounds, Place!TypeOK, Place!Nowhere, Place!Reach
<1>2. PICK sp : sp = Place!WindowSpec(target)
  OBVIOUS
<1>3. /\ sp.size \in Place!Heights \cup {-1} /\ sp.place \in 0..20 \cup {-1}
      /\ target = "panel" /\ stored # -1 /\ monitor # -1 => sp.place # -1
  <2>1. Place!HeightFor(shown) \in Place!Heights
    BY DEF PlaceInv, Place!TypeOK, Place!Heights
  <2>2. CASE target = "panel"
    <3>1. sp = [size |-> Place!HeightFor(shown),
                  place |-> Place!RestorePosition(stored, Place!HeightFor(shown), monitor)]
      BY <1>2, <2>2 DEF Place!WindowSpec
    <3>2. sp.size = Place!HeightFor(shown) /\ sp.place = Place!RestorePosition(stored, Place!HeightFor(shown), monitor)
      BY <3>1
    <3> QED  BY <1>1, <2>1, <3>2, RestoredInReach DEF Place!Reach
  <2>3. CASE target # "panel"
    BY <1>1, <1>2, <2>3 DEF Place!WindowSpec
  <2> QED  BY <2>2, <2>3
<1>4. PICK place : place = IF Place!Sends(target) THEN sp.place ELSE Place!Nowhere
  OBVIOUS
<1>5. PICK now : now = Place!Aged(watch.still, dt)
  OBVIOUS
<1>6. now \in 0..Settled
  BY <1>1, <1>5 DEF Place!Aged, Place!Smaller
<1>7. PICK waiting : waiting = IF place # Place!Nowhere THEN Place!Requested([watch EXCEPT !.still = now], place)
                           ELSE [watch EXCEPT !.still = now]
  OBVIOUS
<1>8. place \in 0..20 \cup {-1}
  BY <1>1, <1>3, <1>4
<1>9. /\ waiting \in [observed : 0..20 \cup {-1}, still : 0..Settled, requested : 0..20 \cup {-1},
                    reported : 0..20 \cup {-1}]
      /\ waiting.observed = watch.observed /\ waiting.reported = watch.reported
      /\ waiting.still = IF place # -1 THEN 0 ELSE now
  <2>1. PICK v : v = [watch EXCEPT !.still = now]
    OBVIOUS
  <2>2. /\ v \in [observed : 0..20 \cup {-1}, still : 0..Settled, requested : 0..20 \cup {-1},
                  reported : 0..20 \cup {-1}]
        /\ v.observed = watch.observed /\ v.reported = watch.reported /\ v.still = now
    BY <1>1, <1>6, <2>1
  <2>3. CASE place = -1
    BY <1>1, <1>7, <2>1, <2>2, <2>3
  <2>4. CASE place # -1
    <3>1. waiting = [v EXCEPT !.requested = place, !.still = 0]
      BY <1>1, <1>7, <2>1, <2>4 DEF Place!Requested
    <3>2. 0 \in 0..Settled
      BY <1>1
    <3> QED  BY <1>8, <2>2, <2>4, <3>1, <3>2
  <2> QED  BY <2>3, <2>4
<1>10. /\ move # -1 => waiting.still < Settled \/ place # -1
       /\ mode' = target /\ applied' = TRUE
       /\ move' = IF place # -1 THEN place ELSE move
       /\ size' = IF Place!Sends(target) THEN sp.size ELSE size
       /\ IF target = "panel" THEN Place!Tracked(Place!Observe(waiting, pos, waiting.still))
          ELSE watch' = waiting /\ UNCHANGED stored
       /\ left' = ((left /\ stored' = stored) \/ (place # -1 /\ ~Near(place, stored)))
       /\ UNCHANGED <<monitor, shown, pos, drags, respecs>>
  <2>1. [watch EXCEPT !.still = Place!Aged(@, dt)] = [watch EXCEPT !.still = now]
    BY <1>1, <1>5
  <2> QED  BY <1>1, <1>2, <1>4, <1>7, <2>1 DEF Place!Frame, Place!outside, Near
<1>11. PICK w : w = Place!Observe(waiting, pos, waiting.still)
  OBVIOUS
<1>12. /\ w \in [observed : 0..20 \cup {-1}, still : 0..Settled, requested : 0..20 \cup {-1},
                 reported : 0..20 \cup {-1}]
       /\ w.observed = pos /\ w.reported = watch.reported /\ (w.still = Settled => waiting.still = Settled)
  <2>1. 0 \in 0..Settled /\ 0 # Settled /\ pos \in 0..20 \cup {-1}
    BY <1>1
  <2>2. CASE waiting.observed = pos
    <3>1. w = [waiting EXCEPT !.still = waiting.still]
      BY <1>11, <2>2 DEF Place!Observe
    <3> QED  BY <1>9, <2>2, <3>1
  <2>3. CASE waiting.observed # pos
    <3>1. w = [waiting EXCEPT !.observed = pos, !.still = 0]
      BY <1>11, <2>3 DEF Place!Observe
    <3> QED  BY <1>9, <2>1, <3>1
  <2> QED  BY <2>2, <2>3
\* Only a wait that has gone on while nothing was asked for stores a place.
<1>13. CASE target = "panel" /\ Place!Settles(w)
  <2>1. place = -1 /\ move = -1 /\ move' = -1
    BY <1>1, <1>9, <1>10, <1>12, <1>13 DEF Place!Settles
  <2>2. /\ watch' = [w EXCEPT !.reported = w.observed, !.requested = Place!Nowhere]
        /\ stored' = IF stored # -1 /\ Near(stored, pos) THEN stored ELSE pos
    BY <1>1, <1>10, <1>11, <1>12, <1>13 DEF Place!Tracked, Place!PositionMatches, Near
  <2>3. /\ watch' \in [observed : 0..20 \cup {-1}, still : 0..Settled, requested : 0..20 \cup {-1},
                       reported : 0..20 \cup {-1}]
        /\ watch'.observed = pos /\ watch'.reported = pos
    BY <1>1, <1>12, <2>2
  <2>4. stored' \in 0..20 /\ Near(stored', pos) /\ Near(pos, stored') /\ (stored' = stored \/ stored' = pos)
    BY <1>1, <2>2 DEF Near
  <2>5. Place!TypeOK'
    BY <1>1, <1>3, <1>10, <2>1, <2>3, <2>4 DEF PlaceInv, Place!TypeOK, Place!Reach
  <2>6. Place!WatchAgrees'
    <3>1. stored' # -1 /\ Place!PositionMatches(stored', watch'.reported)
      BY <2>3, <2>4 DEF Place!PositionMatches, Near
    <3> QED  BY <1>1, <3>1 DEF Place!WatchAgrees, Place!PositionMatches
  <2>7. NotMoved'
    BY <1>1, <1>10, <2>1, <2>4 DEF NotMoved
  <2>8. stored' # stored => left
    <3> SUFFICES ASSUME ~left  PROVE stored' = stored
      OBVIOUS
    <3>1. stored # -1 /\ (Near(pos, stored) \/ (monitor # -1 /\ (mode = "normal" \/ ~applied)))
      BY <1>1, <2>1 DEF PlaceInv, NotMoved
    <3>2. CASE monitor # -1 /\ (mode = "normal" \/ ~applied)
      BY <1>1, <1>3, <1>4, <1>13, <2>1, <3>1, <3>2 DEF Place!Sends
    <3>3. CASE Near(pos, stored)
      BY <1>1, <2>2, <3>1, <3>3 DEF Near
    <3> QED  BY <3>1, <3>2, <3>3
  <2>9. stored' \in Even \cup {-1}
    BY <1>1, <2>4 DEF PlaceInv
  <2> QED  BY <1>1, <1>10, <2>1, <2>3, <2>5, <2>6, <2>7, <2>8, <2>9 DEF PlaceInv
<1>14. CASE ~(target = "panel" /\ Place!Settles(w))
  <2>1. stored' = stored /\ watch' = IF target = "panel" THEN w ELSE waiting
    BY <1>10, <1>11, <1>14 DEF Place!Tracked
  <2>2. /\ watch' \in [observed : 0..20 \cup {-1}, still : 0..Settled, requested : 0..20 \cup {-1},
                       reported : 0..20 \cup {-1}]
        /\ watch'.observed \in {pos, watch.observed} /\ watch'.reported = watch.reported
    BY <1>9, <1>12, <2>1
  <2>3. Place!TypeOK'
    BY <1>1, <1>3, <1>8, <1>10, <2>1, <2>2 DEF PlaceInv, Place!TypeOK, Place!Reach
  <2>4. Place!WatchAgrees'
    BY <2>1, <2>2 DEF PlaceInv, Place!WatchAgrees
  <2>5. NotMoved'
    <3> SUFFICES ASSUME ~left'
                 PROVE  /\ stored # -1
                        /\ \/ move' # -1 /\ Near(move', stored)
                           \/ move' = -1 /\ Near(pos, stored)
                           \/ monitor # -1 /\ mode' = "normal"
      BY <1>1, <1>10, <2>1 DEF NotMoved
    <3>1. ~left /\ (place # -1 => Near(place, stored))
      BY <1>10, <2>1
    <3>2. /\ stored # -1
          /\ \/ move # -1 /\ Near(move, stored)
             \/ move = -1 /\ Near(pos, stored)
             \/ monitor # -1 /\ (mode = "normal" \/ ~applied)
      BY <1>1, <3>1 DEF PlaceInv, NotMoved
    <3>3. CASE place # -1
      BY <1>10, <3>1, <3>2, <3>3
    <3>4. CASE place = -1 /\ ~(monitor # -1 /\ (mode = "normal" \/ ~applied))
      BY <1>10, <3>2, <3>4
    <3>5. CASE place = -1 /\ monitor # -1 /\ (mode = "normal" \/ ~applied)
      <4>1. target = "normal"
        BY <1>1, <1>3, <1>4, <3>2, <3>5 DEF Place!Sends
      <4> QED  BY <1>10, <3>2, <3>5, <4>1
    <3> QED  BY <3>3, <3>4, <3>5
  <2> QED  BY <1>1, <1>10, <2>1, <2>2, <2>3, <2>4, <2>5 DEF PlaceInv
<1> QED  BY <1>13, <1>14

LEMMA PlaceNext ==
  ASSUME PlaceBounds, PlaceInv, [Place!Next]_(Place!placeVars)
  PROVE  PlaceInv' /\ (stored' # stored => left /\ move = Place!Nowhere)
<1>1. /\ Place!Nowhere = -1 /\ Place!Reach = 0..20 /\ Spots \subseteq 0..20 /\ Spots \subseteq Even
      /\ pos \in 0..20 /\ pos \in Even /\ stored \in 0..20 \cup {-1} /\ stored \in Even \cup {-1}
      /\ move \in 0..20 \cup {-1} /\ Tolerance \in Nat /\ Tolerance \in Even
  BY DEF PlaceInv, PlaceBounds, Place!TypeOK, Place!Nowhere, Place!Reach
<1>2. CASE UNCHANGED Place!placeVars
  BY <1>2 DEF Place!placeVars, PlaceInv, Place!TypeOK, Place!WatchAgrees, NotMoved
<1>3. CASE Place!Moved
  <2>1. PICK p \in 0..20 : p % 2 = 0 /\ p - move \in -1..1 /\ pos' = p
    BY <1>1, <1>3 DEF Place!Moved
  <2>2. /\ move # -1 /\ move' = -1
        /\ UNCHANGED <<mode, applied, monitor, shown, size, stored, watch, drags, respecs, left>>
    BY <1>1, <1>3 DEF Place!Moved
  <2>3. pos' \in Even
    BY <2>1 DEF Even
  <2>4. stored # -1 /\ Near(move, stored) => Near(pos', stored)
    <3> SUFFICES ASSUME stored # -1, Near(move, stored)  PROVE Near(p, stored)
      BY <2>1
    <3>1. stored \in 0..20 /\ stored % 2 = 0 /\ Tolerance % 2 = 0 /\ move \in 0..20
      BY <1>1, <2>2 DEF Even
    <3>2. p - stored \in -(Tolerance + 1)..Tolerance + 1
      BY <1>1, <2>1, <3>1 DEF Near
    <3>3. p - stored # Tolerance + 1 /\ p - stored # -(Tolerance + 1)
      BY <1>1, <2>1, <3>1
    <3> QED  BY <1>1, <2>1, <3>1, <3>2, <3>3 DEF Near
  <2>5. Place!TypeOK'
    BY <1>1, <2>1, <2>2 DEF PlaceInv, Place!TypeOK
  <2>6. NotMoved'
    BY <1>1, <2>2, <2>4 DEF PlaceInv, NotMoved
  <2> QED  BY <1>1, <2>2, <2>3, <2>5, <2>6 DEF PlaceInv, Place!WatchAgrees
<1>4. CASE Place!Drag
  <2>1. /\ pos' \in Spots /\ left' = TRUE
        /\ UNCHANGED <<mode, applied, monitor, shown, size, stored, move, watch, respecs>>
    BY <1>4 DEF Place!Drag
  <2> QED  BY <1>1, <2>1 DEF PlaceInv, Place!TypeOK, Place!WatchAgrees, NotMoved
<1>5. CASE Place!ToggleRow
  <2>1. /\ shown' \subseteq RowKinds
        /\ UNCHANGED <<mode, applied, monitor, size, stored, pos, move, watch, drags, left>>
    BY <1>5 DEF Place!ToggleRow, PlaceInv, Place!TypeOK
  <2> QED  BY <1>1, <2>1 DEF PlaceInv, Place!TypeOK, Place!WatchAgrees, NotMoved
<1>6. CASE Place!Respec
  <2>1. /\ mode = "panel" /\ applied' = FALSE
        /\ UNCHANGED <<mode, monitor, shown, size, stored, pos, move, watch, drags, left>>
    BY <1>6 DEF Place!Respec
  <2> QED  BY <1>1, <2>1 DEF PlaceInv, Place!TypeOK, Place!WatchAgrees, NotMoved
<1>7. CASE Place!Restart
  <2>1. /\ mode' \in {"normal", "panel"} /\ applied' = (mode' = "normal")
        /\ monitor' \in Monitors \cup {-1} /\ left' = (left \/ monitor' = -1)
        /\ pos' \in Spots /\ move' = -1 /\ watch' = Place!NewWatch /\ size' = -1
        /\ UNCHANGED <<shown, stored, drags>>
    BY <1>1, <1>7 DEF Place!Restart
  <2>2. watch' = [observed |-> -1, still |-> 0, requested |-> -1, reported |-> -1]
    BY <1>1, <2>1 DEF Place!NewWatch
  <2>3. Place!TypeOK'
    BY <1>1, <2>1, <2>2 DEF PlaceInv, Place!TypeOK, PlaceBounds
  <2>4. NotMoved'
    BY <1>1, <2>1 DEF PlaceInv, NotMoved
  <2>5. Place!WatchAgrees'
    BY <1>1, <2>2 DEF Place!WatchAgrees
  <2> QED  BY <1>1, <2>1, <2>2, <2>3, <2>4, <2>5 DEF PlaceInv
<1>8. ASSUME NEW target \in {"normal", "panel"}, NEW dt \in 1..Settled, Place!Frame(target, dt)
      PROVE  PlaceInv' /\ (stored' # stored => left /\ move = Place!Nowhere)
  BY <1>8, FrameNext
<1>9. stored' # stored => \E target \in {"normal", "panel"}, dt \in 1..Settled : Place!Frame(target, dt)
  BY DEF Place!Next, Place!Moved, Place!Drag, Place!ToggleRow, Place!Respec, Place!Restart, Place!placeVars
<1>10. PlaceInv'
  BY <1>2, <1>3, <1>4, <1>5, <1>6, <1>7, <1>8 DEF Place!Next
<1> QED  BY <1>8, <1>9, <1>10

\* However often the panel is started, switched, widened and asked to go back, on whatever
\* monitors: the place in panel.json changes only after the user dragged the window or when the
\* remembered place could not be asked for, and never while the window is about to leave; and
\* what has been offered is what is stored.
THEOREM PanelStays ==
  ASSUME PlaceBounds
  PROVE  Place!Spec => []Place!WatchAgrees /\ Place!StaysWhereLeft
<1>1. Place!Init => PlaceInv
  BY PlaceInit
<1>2. PlaceInv /\ [Place!Next]_(Place!placeVars) => PlaceInv' /\ (stored' # stored => left /\ move = Place!Nowhere)
  BY PlaceNext
<1>3. PlaceInv => Place!WatchAgrees
  BY DEF PlaceInv
<1>4. PlaceInv /\ [Place!Next]_(Place!placeVars) => [stored' # stored => left /\ move = Place!Nowhere]_(Place!placeVars)
  BY <1>2
<1> QED  BY <1>1, <1>2, <1>3, <1>4, PTL DEF Place!Spec, Place!StaysWhereLeft

-----------------------------------------------------------------------------
(* The panel's configuration, for any rows in any order, and any range.      *)

\* The rows of a file are gone through one by one.
KeepTurns(h, n, s) == h[0] = <<>> /\ \A i \in 1..n : h[i] = Conf!Keep(h[i-1], s[i])

LEMMA KeptInTurn ==
  ASSUME NEW X, <<>> \in X, NEW n \in Nat, NEW s, DOMAIN s = 1..n,
         \A acc \in X, i \in 1..n : Conf!Keep(acc, s[i]) \in X
  PROVE  \E h : KeepTurns(h, n, s) /\ Conf!Kept(s) = h[n]
<1> DEFINE Step(f, r) == IF r = {} THEN <<>> ELSE Conf!Keep(f[r \ {Greatest(r)}], s[Greatest(r)])
<1>1. PICK D : D = [z \in X \X (1..n) |-> Conf!Keep(z[1], s[z[2]])]
  OBVIOUS
<1>2. D \in [X \X (1..n) -> X] /\ \A x \in X, i \in 1..n : D[<<x, i>>] = Conf!Keep(x, s[i])
  BY <1>1
<1>3. PICK g \in [SUBSET (1..n) -> X] : FoldsTo(g, n, <<>>, D)
  BY <1>2, FoldExists
<1>4. g = [r \in SUBSET (1..n) |-> Step(g, r)]
  <2>1. ASSUME NEW r \in SUBSET (1..n), r # {}  PROVE g[r] = Step(g, r)
    <3>1. Greatest(r) \in r /\ r \ {Greatest(r)} \in SUBSET (1..n) /\ Greatest(r) \in 1..n
      BY <2>1, MaxIn
    <3> QED  BY <3>1, <2>1, <1>2, <1>3 DEF FoldsTo
  <2>2. g[{}] = <<>>
    BY <1>3 DEF FoldsTo
  <2> QED  BY <2>1, <2>2, <1>3, Zenon
<1>5. Conf!Kept(s)
        = (CHOOSE f : f = [r \in SUBSET (1..n) |-> Step(f, r)])[1..n]
  BY Zenon DEF Conf!Kept, Conf!FoldLeft, Conf!MapThenFoldSet, Conf!Max, Greatest
<1>6. PICK f : f = CHOOSE e : e = [r \in SUBSET (1..n) |-> Step(e, r)]
  OBVIOUS
<1>7. f = [r \in SUBSET (1..n) |-> Step(f, r)]
  BY <1>4, <1>6, Zenon
<1>8. Conf!Kept(s) = f[1..n]
  BY <1>5, <1>6, Zenon
<1>9. ASSUME NEW i \in 1..n  PROVE f[1..i] = Conf!Keep(f[1..(i-1)], s[i])
  <2>1. PICK r : r = 1..i
    OBVIOUS
  <2>2. r \in SUBSET (1..n) /\ r # {} /\ Greatest(r) = i /\ r \ {i} = 1..(i-1)
    BY <2>1, UpTo
  <2>3. f[r] = Conf!Keep(f[r \ {Greatest(r)}], s[Greatest(r)])
    BY <1>7, <2>2
  <2> QED  BY <2>1, <2>2, <2>3
<1>10. f[1..0] = <<>>
  <2>1. 1..0 = {}
    OBVIOUS
  <2> QED  BY <1>7, <2>1
<1>11. PICK h : h = [i \in 0..n |-> f[1..i]]
  OBVIOUS
<1>12. h[0] = <<>> /\ h[n] = f[1..n] /\ \A i \in 1..n : h[i] = Conf!Keep(h[i-1], s[i])
  BY <1>9, <1>10, <1>11
<1>13. KeepTurns(h, n, s)
  BY <1>12 DEF KeepTurns
<1> QED  BY <1>8, <1>12, <1>13, Zenon

\* And then the ids of the registry.
FillTurns(h, b, n, s) == h[0] = b /\ \A i \in 1..n : h[i] = Conf!Fill(h[i-1], s[i])

LEMMA FilledInTurn ==
  ASSUME NEW X, NEW b \in X, NEW n \in Nat, NEW s, DOMAIN s = 1..n,
         \A acc \in X, i \in 1..n : Conf!Fill(acc, s[i]) \in X
  PROVE  \E h : FillTurns(h, b, n, s) /\ Conf!Filled(b, s) = h[n]
<1> DEFINE Step(f, r) == IF r = {} THEN b ELSE Conf!Fill(f[r \ {Greatest(r)}], s[Greatest(r)])
<1>1. PICK D : D = [z \in X \X (1..n) |-> Conf!Fill(z[1], s[z[2]])]
  OBVIOUS
<1>2. D \in [X \X (1..n) -> X] /\ \A x \in X, i \in 1..n : D[<<x, i>>] = Conf!Fill(x, s[i])
  BY <1>1
<1>3. PICK g \in [SUBSET (1..n) -> X] : FoldsTo(g, n, b, D)
  BY <1>2, FoldExists
<1>4. g = [r \in SUBSET (1..n) |-> Step(g, r)]
  <2>1. ASSUME NEW r \in SUBSET (1..n), r # {}  PROVE g[r] = Step(g, r)
    <3>1. Greatest(r) \in r /\ r \ {Greatest(r)} \in SUBSET (1..n) /\ Greatest(r) \in 1..n
      BY <2>1, MaxIn
    <3> QED  BY <3>1, <2>1, <1>2, <1>3 DEF FoldsTo
  <2>2. g[{}] = b
    BY <1>3 DEF FoldsTo
  <2> QED  BY <2>1, <2>2, <1>3, Zenon
<1>5. Conf!Filled(b, s)
        = (CHOOSE f : f = [r \in SUBSET (1..n) |-> Step(f, r)])[1..n]
  BY Zenon DEF Conf!Filled, Conf!FoldLeft, Conf!MapThenFoldSet, Conf!Max, Greatest
<1>6. PICK f : f = CHOOSE e : e = [r \in SUBSET (1..n) |-> Step(e, r)]
  OBVIOUS
<1>7. f = [r \in SUBSET (1..n) |-> Step(f, r)]
  BY <1>4, <1>6, Zenon
<1>8. Conf!Filled(b, s) = f[1..n]
  BY <1>5, <1>6, Zenon
<1>9. ASSUME NEW i \in 1..n  PROVE f[1..i] = Conf!Fill(f[1..(i-1)], s[i])
  <2>1. PICK r : r = 1..i
    OBVIOUS
  <2>2. r \in SUBSET (1..n) /\ r # {} /\ Greatest(r) = i /\ r \ {i} = 1..(i-1)
    BY <2>1, UpTo
  <2>3. f[r] = Conf!Fill(f[r \ {Greatest(r)}], s[Greatest(r)])
    BY <1>7, <2>2
  <2> QED  BY <2>1, <2>2, <2>3
<1>10. f[1..0] = b
  <2>1. 1..0 = {}
    OBVIOUS
  <2> QED  BY <1>7, <2>1
<1>11. PICK h : h = [i \in 0..n |-> f[1..i]]
  OBVIOUS
<1>12. h[0] = b /\ h[n] = f[1..n] /\ \A i \in 1..n : h[i] = Conf!Fill(h[i-1], s[i])
  BY <1>9, <1>10, <1>11
<1>13. FillTurns(h, b, n, s)
  BY <1>12 DEF FillTurns
<1> QED  BY <1>8, <1>12, <1>13, Zenon

\* The registry lists each row once; a number that is not one is in no range.
ConfBounds ==
  /\ RowOrder \in Seq(Conf!RowIds)
  /\ \A i, j \in 1..Len(RowOrder) : RowOrder[i] = RowOrder[j] => i = j
  /\ Least \in Int /\ Most \in Int /\ Least <= Most /\ {0, 1} \subseteq Least - 1..Most + 1 /\ NaN \notin Least - 1..Most + 1
  /\ "key" \in KeyTexts
  /\ MaxEntries \in Nat /\ MaxEdits \in Nat /\ MaxSaveFaults \in Nat

\* Rows of known ids, each once.
Listing ==
  {a \in Seq(Conf!RowConfigs) :
     /\ \A i \in 1..Len(a) : a[i].id \in Conf!RowIds
     /\ \A i, j \in 1..Len(a) : a[i].id = a[j].id => i = j}

\* And every one of them.
Complete == {a \in Listing : \A i \in 1..Len(RowOrder) : \E m \in 1..Len(a) : a[m].id = RowOrder[i]}

\* One more row at the end.
LEMMA ListedMore ==
  ASSUME NEW a \in Listing, NEW row \in Conf!RowConfigs, row.id \in Conf!RowIds,
         \A i \in 1..Len(a) : a[i].id # row.id
  PROVE  /\ Append(a, row) \in Listing /\ Len(Append(a, row)) = Len(a) + 1 /\ Len(a) \in Nat
         /\ Append(a, row)[Len(a) + 1] = row /\ \A i \in 1..Len(a) : Append(a, row)[i] = a[i]
<1>1. a \in Seq(Conf!RowConfigs)
  BY DEF Listing
<1>2. PICK b : b = Append(a, row)
  OBVIOUS
<1>3. /\ b \in Seq(Conf!RowConfigs) /\ Len(b) = Len(a) + 1 /\ Len(a) \in Nat
      /\ b[Len(a) + 1] = row /\ \A i \in 1..Len(a) : b[i] = a[i]
  BY <1>1, <1>2, AppendProperties, LenProperties
<1>4. ASSUME NEW i \in 1..Len(b)  PROVE i \in 1..Len(a) \/ i = Len(a) + 1
  BY <1>3
<1>5. \A i \in 1..Len(b) : b[i].id \in Conf!RowIds
  BY <1>3, <1>4 DEF Listing
<1>6. ASSUME NEW i \in 1..Len(b), NEW j \in 1..Len(b), b[i].id = b[j].id  PROVE i = j
  BY <1>3, <1>4, <1>6 DEF Listing
<1> QED  BY <1>2, <1>3, <1>5, <1>6 DEF Listing

LEMMA EmptyListing == <<>> \in Listing
<1>1. <<>> \in Seq(Conf!RowConfigs) /\ Len(<<>>) = 0
  OBVIOUS
<1> QED  BY <1>1 DEF Listing

LEMMA KeepListing ==
  ASSUME NEW a \in Listing, NEW row \in Conf!RowConfigs
  PROVE  Conf!Keep(a, row) \in Listing
BY ListedMore DEF Conf!Keep

LEMMA FillListing ==
  ASSUME NEW a \in Listing, NEW id \in Conf!RowIds
  PROVE  Conf!Fill(a, id) \in Listing
<1>1. [id |-> id, visible |-> FALSE] \in Conf!RowConfigs
  BY DEF Conf!RowConfigs
<1> QED  BY <1>1, ListedMore DEF Conf!Fill

\* A row that is known and the first of its id.
First(rows, i) == rows[i].id \in Conf!RowIds /\ \A h \in 1..(i-1) : rows[h].id # rows[i].id

\* The rows kept of the first k of a file: nothing else, each first one, in its order.
Follows(a, rows, k) ==
  /\ a \in Listing
  /\ \A m \in 1..Len(a) : \E i \in 1..k : a[m] = rows[i]
  /\ \A i \in 1..k : First(rows, i) => \E m \in 1..Len(a) : a[m] = rows[i]
  /\ \A i, j \in 1..k : First(rows, i) /\ First(rows, j) /\ i < j =>
       \E m, n \in 1..Len(a) : m < n /\ a[m] = rows[i] /\ a[n] = rows[j]

LEMMA KeepFollows ==
  ASSUME NEW n \in Nat, NEW rows, \A i \in 1..n : rows[i] \in Conf!RowConfigs, NEW k \in 1..n,
         NEW a, Follows(a, rows, k - 1)
  PROVE  Follows(Conf!Keep(a, rows[k]), rows, k)
<1>0. 1..(k-1) \subseteq 1..k /\ k \in 1..k /\ \A i \in 1..k : i \in 1..(k-1) \/ i = k
  OBVIOUS
<1>1. CASE rows[k].id \in Conf!RowIds /\ \A i \in 1..Len(a) : a[i].id # rows[k].id
  <2>1. PICK b : b = Append(a, rows[k])
    OBVIOUS
  <2>2. Conf!Keep(a, rows[k]) = b
    BY <1>1, <2>1 DEF Conf!Keep
  <2>3. /\ b \in Listing /\ Len(b) = Len(a) + 1 /\ Len(a) \in Nat
        /\ b[Len(a) + 1] = rows[k] /\ \A i \in 1..Len(a) : b[i] = a[i]
    BY <1>1, <2>1, ListedMore DEF Follows
  <2>4. 1..Len(a) \subseteq 1..Len(b) /\ Len(a) + 1 \in 1..Len(b) /\ \A m \in 1..Len(b) : m \in 1..Len(a) \/ m = Len(a) + 1
    BY <2>3
  <2>5. \A m \in 1..Len(b) : \E i \in 1..k : b[m] = rows[i]
    BY <1>0, <2>3, <2>4 DEF Follows
  <2>6. \A i \in 1..k : First(rows, i) => \E m \in 1..Len(b) : b[m] = rows[i]
    BY <1>0, <2>3, <2>4 DEF Follows
  <2>7. ASSUME NEW i \in 1..k, NEW j \in 1..k, First(rows, i), First(rows, j), i < j
        PROVE  \E m, l \in 1..Len(b) : m < l /\ b[m] = rows[i] /\ b[l] = rows[j]
    <3>1. i \in 1..(k-1)
      BY <2>7
    <3>2. CASE j = k
      <4>1. PICK m \in 1..Len(a) : a[m] = rows[i]
        BY <2>7, <3>1 DEF Follows
      <4>2. m < Len(a) + 1 /\ b[m] = rows[i] /\ m \in 1..Len(b)
        BY <2>3, <2>4, <4>1
      <4> QED  BY <2>3, <2>4, <3>2, <4>2
    <3>3. CASE j \in 1..(k-1)
      <4>1. PICK m \in 1..Len(a), l \in 1..Len(a) : m < l /\ a[m] = rows[i] /\ a[l] = rows[j]
        BY <2>7, <3>1, <3>3 DEF Follows
      <4> QED  BY <2>3, <2>4, <4>1
    <3> QED  BY <1>0, <3>2, <3>3
  <2> QED  BY <2>2, <2>3, <2>5, <2>6, <2>7 DEF Follows
<1>2. CASE ~(rows[k].id \in Conf!RowIds /\ \A i \in 1..Len(a) : a[i].id # rows[k].id)
  <2>1. Conf!Keep(a, rows[k]) = a
    BY <1>2 DEF Conf!Keep
  <2>2. ~First(rows, k)
    <3>1. SUFFICES ASSUME First(rows, k)  PROVE FALSE
      OBVIOUS
    <3>2. PICK m \in 1..Len(a) : a[m].id = rows[k].id
      BY <1>2, <3>1 DEF First
    <3>3. PICK i \in 1..(k-1) : a[m] = rows[i]
      BY DEF Follows
    <3> QED  BY <3>1, <3>2, <3>3 DEF First
  <2>3. a \in Listing /\ \A m \in 1..Len(a) : \E i \in 1..k : a[m] = rows[i]
    BY <1>0 DEF Follows
  <2>4. \A i \in 1..k : First(rows, i) => i \in 1..(k-1)
    BY <1>0, <2>2
  <2>5. \A i \in 1..k : First(rows, i) => \E m \in 1..Len(a) : a[m] = rows[i]
    BY <2>4 DEF Follows
  <2>6. \A i, j \in 1..k : First(rows, i) /\ First(rows, j) /\ i < j =>
          \E m, l \in 1..Len(a) : m < l /\ a[m] = rows[i] /\ a[l] = rows[j]
    BY <2>4 DEF Follows
  <2> QED  BY <2>1, <2>3, <2>5, <2>6 DEF Follows
<1> QED  BY <1>1, <1>2

LEMMA KeptFollows ==
  ASSUME NEW rows \in Seq(Conf!RowConfigs)
  PROVE  Follows(Conf!Kept(rows), rows, Len(rows))
<1>1. PICK n : n = Len(rows)
  OBVIOUS
<1>2. n \in Nat /\ DOMAIN rows = 1..n /\ \A i \in 1..n : rows[i] \in Conf!RowConfigs
  BY <1>1, LenProperties, ElementOfSeq
<1>3. PICK h : KeepTurns(h, n, rows) /\ Conf!Kept(rows) = h[n]
  <2>1. PICK X : X = Listing
    OBVIOUS
  <2>2. <<>> \in X /\ DOMAIN rows = 1..n /\ \A a \in X, i \in 1..n : Conf!Keep(a, rows[i]) \in X
    BY <1>2, <2>1, EmptyListing, KeepListing
  <2> QED BY <1>2, <2>2, KeptInTurn
<1> DEFINE T == {k \in 0..n : Follows(h[k], rows, k)}
<1>4. Follows(h[0], rows, 0)
  <2>1. h[0] = <<>> /\ Len(<<>>) = 0 /\ 1..0 = {}
    BY <1>3 DEF KeepTurns
  <2> QED  BY <2>1, EmptyListing DEF Follows
<1>5. ASSUME NEW k \in 1..n, Follows(h[k-1], rows, k-1)  PROVE Follows(h[k], rows, k)
  <2>1. PICK a : a = h[k-1]
    OBVIOUS
  <2>2. Follows(Conf!Keep(a, rows[k]), rows, k)
    BY <1>2, <1>5, <2>1, KeepFollows
  <2> QED  BY <1>3, <2>1, <2>2 DEF KeepTurns
<1>6. 0 \in T /\ \A i \in 1..n : i - 1 \in T => i \in T
  BY <1>2, <1>4, <1>5
<1>7. 0..n \subseteq T
  <2> HIDE DEF T
  <2> QED  BY <1>2, <1>6, Climb
<1> QED  BY <1>1, <1>2, <1>3, <1>7

\* What is added leaves what was there, and every id is.
Fills(b, a, k) ==
  /\ b \in Listing /\ Len(a) <= Len(b) /\ \A m \in 1..Len(a) : b[m] = a[m]
  /\ \A i \in 1..k : \E m \in 1..Len(b) : b[m].id = RowOrder[i]

LEMMA RegistryIs ==
  ASSUME ConfBounds
  PROVE  /\ Len(RowOrder) \in Nat /\ DOMAIN RowOrder = 1..Len(RowOrder)
         /\ \A i \in 1..Len(RowOrder) : RowOrder[i] \in Conf!RowIds
         /\ \A r \in Conf!RowIds : \E i \in 1..Len(RowOrder) : RowOrder[i] = r
<1>1. \A r \in Conf!RowIds : \E i \in 1..Len(RowOrder) : RowOrder[i] = r
  BY DEF Conf!RowIds
<1>2. \A i \in 1..Len(RowOrder) : RowOrder[i] \in Conf!RowIds
  BY DEF Conf!RowIds
<1>3. PICK S : S = Conf!RowIds
  OBVIOUS
<1>4. Len(RowOrder) \in Nat /\ DOMAIN RowOrder = 1..Len(RowOrder)
  BY <1>3, LenProperties DEF ConfBounds
<1> QED  BY <1>1, <1>2, <1>4

LEMMA ListingIs ==
  ASSUME NEW a \in Listing
  PROVE  Len(a) \in Nat /\ DOMAIN a = 1..Len(a) /\ \A m \in 1..Len(a) : a[m] \in Conf!RowConfigs
<1>1. PICK S : S = Conf!RowConfigs
  OBVIOUS
<1>2. a \in Seq(S)
  BY <1>1 DEF Listing
<1> QED  BY <1>1, <1>2, LenProperties, ElementOfSeq

LEMMA FillFills ==
  ASSUME ConfBounds, NEW a \in Listing, NEW b, NEW k \in 1..Len(RowOrder), Fills(b, a, k - 1)
  PROVE  Fills(Conf!Fill(b, RowOrder[k]), a, k)
<1>0. \A i \in 1..k : i \in 1..(k-1) \/ i = k
  BY RegistryIs
<1>1. CASE \A i \in 1..Len(b) : b[i].id # RowOrder[k]
  <2>1. PICK row : row = [id |-> RowOrder[k], visible |-> FALSE]
    OBVIOUS
  <2>2. row \in Conf!RowConfigs /\ row.id \in Conf!RowIds /\ row.id = RowOrder[k]
    BY <2>1, RegistryIs DEF Conf!RowConfigs
  <2>3. PICK c : c = Append(b, row)
    OBVIOUS
  <2>4. /\ c \in Listing /\ Len(c) = Len(b) + 1 /\ Len(b) \in Nat
        /\ c[Len(b) + 1] = row /\ \A i \in 1..Len(b) : c[i] = b[i]
    BY <1>1, <2>2, <2>3, ListedMore DEF Fills
  <2>5. 1..Len(b) \subseteq 1..Len(c) /\ Len(b) + 1 \in 1..Len(c)
    BY <2>4
  <2>6. Len(a) <= Len(c) /\ \A m \in 1..Len(a) : c[m] = a[m]
    BY <2>4, ListingIs DEF Fills
  <2>7. \A i \in 1..k : \E m \in 1..Len(c) : c[m].id = RowOrder[i]
    BY <1>0, <2>2, <2>4, <2>5 DEF Fills
  <2>8. Conf!Fill(b, RowOrder[k]) = c
    BY <1>1, <2>1, <2>3 DEF Conf!Fill
  <2> QED  BY <2>4, <2>6, <2>7, <2>8 DEF Fills
<1>2. CASE ~\A i \in 1..Len(b) : b[i].id # RowOrder[k]
  <2>1. Conf!Fill(b, RowOrder[k]) = b
    BY <1>2 DEF Conf!Fill
  <2>2. \A i \in 1..k : \E m \in 1..Len(b) : b[m].id = RowOrder[i]
    BY <1>0, <1>2 DEF Fills
  <2> QED  BY <2>1, <2>2 DEF Fills
<1> QED  BY <1>1, <1>2

LEMMA FilledFills ==
  ASSUME ConfBounds, NEW a \in Listing
  PROVE  Fills(Conf!Filled(a, RowOrder), a, Len(RowOrder))
<1>1. PICK n : n = Len(RowOrder)
  OBVIOUS
<1>2. n \in Nat /\ DOMAIN RowOrder = 1..n /\ \A i \in 1..n : RowOrder[i] \in Conf!RowIds
  BY <1>1, RegistryIs
<1>3. PICK h : FillTurns(h, a, n, RowOrder) /\ Conf!Filled(a, RowOrder) = h[n]
  <2>1. PICK X : X = Listing
    OBVIOUS
  <2>2. a \in X /\ \A c \in X, i \in 1..n : Conf!Fill(c, RowOrder[i]) \in X
    BY <1>2, <2>1, FillListing
  <2> QED BY <1>2, <2>2, FilledInTurn
<1> DEFINE T == {k \in 0..n : Fills(h[k], a, k)}
<1>4. Fills(h[0], a, 0)
  <2>1. h[0] = a /\ Len(a) \in Nat
    BY <1>3, ListingIs DEF FillTurns
  <2> QED  BY <2>1 DEF Fills
<1>5. ASSUME NEW k \in 1..n, Fills(h[k-1], a, k-1)  PROVE Fills(h[k], a, k)
  <2>1. PICK c : c = h[k-1]
    OBVIOUS
  <2>2. Fills(Conf!Fill(c, RowOrder[k]), a, k)
    BY <1>1, <1>5, <2>1, FillFills
  <2> QED  BY <1>3, <2>1, <2>2 DEF FillTurns
<1>6. 0 \in T /\ \A i \in 1..n : i - 1 \in T => i \in T
  BY <1>2, <1>4, <1>5
<1>7. 0..n \subseteq T
  <2> HIDE DEF T
  <2> QED  BY <1>2, <1>6, Climb
<1> QED  BY <1>1, <1>2, <1>3, <1>7

\* What normalize makes of rows: all of them, those of the file first and in its order.
LEMMA NormalRowsAre ==
  ASSUME ConfBounds, NEW rows \in Seq(Conf!RowConfigs)
  PROVE  /\ Conf!NormalRows(rows) \in Complete
         /\ \A i, j \in 1..Len(rows) : First(rows, i) /\ First(rows, j) /\ i < j =>
              \E m, n \in 1..Len(Conf!NormalRows(rows)) :
                m < n /\ Conf!NormalRows(rows)[m] = rows[i] /\ Conf!NormalRows(rows)[n] = rows[j]
<1>1. PICK a : a = Conf!Kept(rows)
  OBVIOUS
<1>2. Follows(a, rows, Len(rows))
  BY <1>1, KeptFollows
<1>3. PICK b : b = Conf!Filled(a, RowOrder)
  OBVIOUS
<1>4. Fills(b, a, Len(RowOrder)) /\ a \in Listing
  BY <1>2, <1>3, FilledFills DEF Follows
<1>5. Conf!NormalRows(rows) = b
  BY <1>1, <1>3 DEF Conf!NormalRows
<1>6. b \in Complete
  BY <1>4 DEF Complete, Fills
<1>7. 1..Len(a) \subseteq 1..Len(b)
  BY <1>4, ListingIs DEF Fills
<1>8. ASSUME NEW i \in 1..Len(rows), NEW j \in 1..Len(rows), First(rows, i), First(rows, j), i < j
      PROVE  \E m, n \in 1..Len(b) : m < n /\ b[m] = rows[i] /\ b[n] = rows[j]
  <2>1. PICK m \in 1..Len(a), n \in 1..Len(a) : m < n /\ a[m] = rows[i] /\ a[n] = rows[j]
    BY <1>2, <1>8 DEF Follows
  <2> QED  BY <1>4, <1>7, <2>1 DEF Fills
<1> QED  BY <1>5, <1>6, <1>8

\* Where two sequences agree in all their places, they are one.
LEMMA SameSeq ==
  ASSUME NEW S, NEW a \in Seq(S), NEW b \in Seq(S), Len(a) = Len(b), \A i \in 1..Len(a) : a[i] = b[i]
  PROVE  a = b
<1>1. DOMAIN a = 1..Len(a) /\ DOMAIN b = 1..Len(a) /\ a = [i \in 1..Len(a) |-> a[i]] /\ b = [i \in 1..Len(b) |-> b[i]]
  BY LenProperties
<1>2. [i \in 1..Len(a) |-> a[i]] = [i \in 1..Len(a) |-> b[i]]
  OBVIOUS
<1> QED  BY <1>1, <1>2

\* A listing has no row to drop.
LEMMA KeptListing ==
  ASSUME NEW b \in Listing
  PROVE  Conf!Kept(b) = b
<1>1. PICK n : n = Len(b)
  OBVIOUS
<1>2. n \in Nat /\ DOMAIN b = 1..n /\ \A i \in 1..n : b[i] \in Conf!RowConfigs
  BY <1>1, ListingIs
<1>3. PICK h : KeepTurns(h, n, b) /\ Conf!Kept(b) = h[n]
  <2>1. PICK X : X = Listing
    OBVIOUS
  <2>2. <<>> \in X /\ DOMAIN b = 1..n /\ \A a \in X, i \in 1..n : Conf!Keep(a, b[i]) \in X
    BY <1>2, <2>1, EmptyListing, KeepListing
  <2> QED BY <1>2, <2>2, KeptInTurn
<1> DEFINE Begins(a, k) == a \in Listing /\ Len(a) = k /\ \A i \in 1..k : a[i] = b[i]
           T == {k \in 0..n : Begins(h[k], k)}
<1>4. Begins(h[0], 0)
  <2>1. h[0] = <<>> /\ Len(<<>>) = 0
    BY <1>3 DEF KeepTurns
  <2> QED  BY <2>1, EmptyListing
<1>5. ASSUME NEW k \in 1..n, Begins(h[k-1], k-1)  PROVE Begins(h[k], k)
  <2>1. PICK a : a = h[k-1]
    OBVIOUS
  <2>2. a \in Listing /\ Len(a) = k-1 /\ \A i \in 1..(k-1) : a[i] = b[i]
    BY <1>5, <2>1
  <2>3. \A i \in 1..Len(a) : a[i].id # b[k].id
    <3>1. ASSUME NEW i \in 1..(k-1), b[i].id = b[k].id  PROVE FALSE
      <4>1. i \in 1..n /\ i # k
        BY <1>2
      <4> QED  BY <1>1, <3>1, <4>1 DEF Listing
    <3> QED  BY <2>2, <3>1
  <2>4. b[k] \in Conf!RowConfigs /\ b[k].id \in Conf!RowIds
    BY <1>1, <1>2 DEF Listing
  <2>5. PICK c : c = Append(a, b[k])
    OBVIOUS
  <2>6. c \in Listing /\ Len(c) = (k-1) + 1 /\ c[(k-1) + 1] = b[k] /\ \A i \in 1..(k-1) : c[i] = a[i]
    BY <2>2, <2>3, <2>4, <2>5, ListedMore
  <2>7. Conf!Keep(a, b[k]) = c
    BY <2>3, <2>4, <2>5 DEF Conf!Keep
  <2>8. h[k] = c
    BY <1>3, <2>1, <2>7 DEF KeepTurns
  <2>9. (k-1) + 1 = k /\ \A i \in 1..k : i \in 1..(k-1) \/ i = k
    BY <1>2
  <2> QED  BY <2>2, <2>6, <2>8, <2>9
<1>6. 0 \in T /\ \A i \in 1..n : i - 1 \in T => i \in T
  <2> HIDE DEF Begins
  <2> QED  BY <1>2, <1>4, <1>5
<1>7. 0..n \subseteq T
  <2> HIDE DEF T
  <2> QED  BY <1>2, <1>6, Climb
<1>8. Begins(h[n], n)
  BY <1>2, <1>7
<1>9. PICK S : S = Conf!RowConfigs
  OBVIOUS
<1>10. h[n] \in Seq(S) /\ b \in Seq(S) /\ Len(h[n]) = Len(b) /\ \A i \in 1..Len(h[n]) : h[n][i] = b[i]
  BY <1>1, <1>8, <1>9 DEF Listing
<1> QED  BY <1>3, <1>10, SameSeq

\* A complete one has no row to add.
LEMMA FilledComplete ==
  ASSUME ConfBounds, NEW b \in Complete
  PROVE  Conf!Filled(b, RowOrder) = b
<1>1. PICK n : n = Len(RowOrder)
  OBVIOUS
<1>2. n \in Nat /\ DOMAIN RowOrder = 1..n
  BY <1>1, RegistryIs
<1>3. \A i \in 1..n : Conf!Fill(b, RowOrder[i]) = b
  BY <1>1 DEF Complete, Conf!Fill
<1>4. PICK h : FillTurns(h, b, n, RowOrder) /\ Conf!Filled(b, RowOrder) = h[n]
  <2>1. PICK X : X = {b}
    OBVIOUS
  <2>2. b \in X /\ \A c \in X, i \in 1..n : Conf!Fill(c, RowOrder[i]) \in X
    BY <1>3, <2>1
  <2> QED BY <1>2, <2>2, FilledInTurn
<1>5. PICK X : X = {b}
  OBVIOUS
<1>6. h[0] \in X /\ \A i \in 1..n : h[i-1] \in X => h[i] \in X
  BY <1>3, <1>4, <1>5 DEF FillTurns
<1>7. h[n] \in X
  BY <1>2, <1>6, InTurn
<1> QED  BY <1>4, <1>5, <1>7

LEMMA NormalRowsAgain ==
  ASSUME ConfBounds, NEW b \in Complete
  PROVE  Conf!NormalRows(b) = b
<1>1. b \in Listing
  BY DEF Complete
<1> QED  BY <1>1, KeptListing, FilledComplete DEF Conf!NormalRows

\* It is as long as the registry.
LEMMA CompleteLength ==
  ASSUME ConfBounds, NEW b \in Complete
  PROVE  Len(b) = Len(RowOrder) /\ {row.id : row \in Conf!ToSet(b)} = Conf!RowIds
<1>1. b \in Listing /\ Len(b) \in Nat /\ DOMAIN b = 1..Len(b)
  BY ListingIs DEF Complete
<1>2. Conf!ToSet(b) = {b[i] : i \in 1..Len(b)}
  BY <1>1 DEF Conf!ToSet
<1>3. \A i \in 1..Len(b) : b[i].id \in Conf!RowIds
  BY <1>1 DEF Listing
<1>4. \A r \in Conf!RowIds : \E m \in 1..Len(b) : b[m].id = r
  BY RegistryIs DEF Complete
<1>5. {row.id : row \in Conf!ToSet(b)} = Conf!RowIds
  BY <1>2, <1>3, <1>4
<1> DEFINE f == [m \in 1..Len(b) |-> CHOOSE i \in 1..Len(RowOrder) : RowOrder[i] = b[m].id]
<1>6. \A m \in 1..Len(b) : f[m] \in 1..Len(RowOrder) /\ RowOrder[f[m]] = b[m].id
  BY <1>3, RegistryIs
<1>7. f \in [1..Len(b) -> 1..Len(RowOrder)]
  BY <1>6
<1>8. \A m, l \in 1..Len(b) : f[m] = f[l] => m = l
  <2> HIDE DEF f
  <2> QED  BY <1>1, <1>6 DEF Listing
<1>9. ASSUME NEW i \in 1..Len(RowOrder)  PROVE \E m \in 1..Len(b) : f[m] = i
  <2>1. PICK m \in 1..Len(b) : b[m].id = RowOrder[i]
    BY DEF Complete
  <2> QED  BY <1>6, <2>1 DEF ConfBounds
<1>10. f \in Bijection(1..Len(b), 1..Len(RowOrder))
  <2> HIDE DEF f
  <2> QED  BY <1>7, <1>8, <1>9 DEF Bijection, Injection, Surjection, IsInjective
<1>11. IsFiniteSet(1..Len(b)) /\ Cardinality(1..Len(b)) = Len(b) /\ IsFiniteSet(1..Len(RowOrder)) /\ Cardinality(1..Len(RowOrder)) = Len(RowOrder)
  <2>1. Len(RowOrder) \in Nat
    BY RegistryIs
  <2>2. \A n \in Nat : IsFiniteSet(1..n) /\ Cardinality(1..n) = n
    BY FS_Interval
  <2> QED  BY <1>1, <2>1, <2>2
<1>12. Cardinality(1..Len(b)) = Cardinality(1..Len(RowOrder))
  <2> HIDE DEF f
  <2>1. ExistsBijection(1..Len(b), 1..Len(RowOrder))
    BY <1>10 DEF ExistsBijection
  <2> QED  BY <1>11, <2>1, FS_Bijection
<1> QED  BY <1>5, <1>11, <1>12

-----------------------------------------------------------------------------
(* The process.                                                             *)

Reach == Least - 1..Most + 1
Positions == {<<>>} \cup {<<x, y>> : x \in Reach, y \in Reach}

\* What the process has, and what a file may have.
Configs ==
  [width : Least..Most, seconds : Least..Most, top : BOOLEAN, hide : BOOLEAN, position : Positions,
   hotkey : KeyTexts, rows : Complete]
Stored ==
  [width : Reach \cup {NaN}, seconds : Reach, top : BOOLEAN, hide : BOOLEAN, position : Positions,
   hotkey : KeyTexts, rows : Seq(Conf!RowConfigs)]

ConfInv ==
  /\ config \in Configs /\ disk \in Stored /\ grabbed \in KeyTexts
  /\ unsaved \in BOOLEAN /\ typing \in BOOLEAN /\ edits \in Nat
  /\ edits = 0 => config = Conf!Normalize(disk) /\ ~typing
  /\ ~unsaved =>
       \/ Conf!Normalize(disk) = config
       \/ typing /\ [Conf!Normalize(disk) EXCEPT !.hotkey = config.hotkey] = config

LEMMA NormalIs ==
  ASSUME ConfBounds, NEW d \in Stored
  PROVE  Conf!Normalize(d) \in Configs
<1>1. Conf!NormalRows(d.rows) \in Complete
  BY NormalRowsAre DEF Stored
<1>2. Conf!NormalFloat(d.width, Least) \in Least..Most /\ Conf!NormalNumber(d.seconds) \in Least..Most
  BY DEF Stored, Reach, ConfBounds, Conf!NormalFloat, Conf!NormalNumber
<1>3. Conf!Normalize(d) = [d EXCEPT !.width = Conf!NormalFloat(d.width, Least),
                                    !.seconds = Conf!NormalNumber(d.seconds), !.rows = Conf!NormalRows(d.rows)]
  BY DEF Conf!Normalize, Stored
<1> QED  BY <1>1, <1>2, <1>3 DEF Stored, Configs

LEMMA NormalAgain ==
  ASSUME ConfBounds, NEW c \in Configs
  PROVE  c \in Stored /\ Conf!Normalize(c) = c
<1>1. c.rows \in Seq(Conf!RowConfigs) /\ Conf!NormalRows(c.rows) = c.rows
  BY NormalRowsAgain DEF Configs, Complete, Listing
<1>2. Conf!NormalFloat(c.width, Least) = c.width /\ Conf!NormalNumber(c.seconds) = c.seconds
  BY DEF Configs, ConfBounds, Conf!NormalFloat, Conf!NormalNumber
<1>3. c.width \in Reach /\ c.seconds \in Reach
  BY DEF Configs, Reach, ConfBounds
<1>4. Conf!Normalize(c) = [c EXCEPT !.width = Conf!NormalFloat(c.width, Least),
                                    !.seconds = Conf!NormalNumber(c.seconds), !.rows = Conf!NormalRows(c.rows)]
  BY DEF Conf!Normalize, Configs
<1>5. Conf!Normalize(c) = c
  BY <1>1, <1>2, <1>4 DEF Configs
<1>6. c \in Stored
  BY <1>1, <1>3 DEF Configs, Stored
<1> QED  BY <1>5, <1>6

LEMMA FilesStored ==
  ASSUME ConfBounds
  PROVE  Conf!Files \cup {Conf!Fresh} \subseteq Stored
<1>1. ASSUME NEW d \in Conf!Files  PROVE d \in Stored
  <2>1. PICK l \in 0..MaxEntries : d.rows \in [1..l -> Conf!RowConfigs]
    BY DEF Conf!Files
  <2>2. d.rows \in Seq(Conf!RowConfigs)
    <3>1. l \in Nat
      BY DEF ConfBounds
    <3> QED  BY <2>1, <3>1
  <2>3. d.width \in {NaN, Least - 1, Most + 1} /\ d.seconds \in {Least - 1, Most, Most + 1}
    BY DEF Conf!Files
  <2>4. PICK p \in {<<>>, <<NaN, 0>>, <<0, 0>>} : d.position = Conf!ParsePosition(p)
    BY DEF Conf!Files
  <2>5. Conf!ParsePosition(p) \in Positions
    <3>1. CASE p = <<>>
      BY <3>1 DEF Conf!ParsePosition, Positions
    <3>2. CASE p = <<NaN, 0>>
      <4>1. NaN \in {p[i] : i \in 1..Len(p)}
        BY <3>2
      <4> QED  BY <4>1 DEF Conf!ParsePosition, Positions
    <3>3. CASE p = <<0, 0>>
      <4>1. p \in Positions
        BY <3>3 DEF Positions, ConfBounds, Reach
      <4>2. <<>> \in Positions
        BY DEF Positions
      <4> QED  BY <4>1, <4>2 DEF Conf!ParsePosition
    <3> QED  BY <2>4, <3>1, <3>2, <3>3
  <2>6. d.top \in BOOLEAN /\ d.hide \in BOOLEAN /\ d.hotkey = "key"
    BY DEF Conf!Files, Conf!FromStored
  <2>7. d.width \in Reach \cup {NaN} /\ d.seconds \in Reach
    BY <2>3 DEF ConfBounds, Reach
  <2>8. d = [width |-> d.width, seconds |-> d.seconds, top |-> d.top, hide |-> d.hide,
             position |-> d.position, hotkey |-> d.hotkey, rows |-> d.rows]
    BY DEF Conf!Files
  <2> QED  BY <2>2, <2>4, <2>5, <2>6, <2>7, <2>8 DEF Stored, ConfBounds
<1>2. Conf!Fresh \in Stored
  <2>1. PICK rows : rows = [i \in 1..Len(RowOrder) |-> [id |-> RowOrder[i], visible |-> i = 1]]
    OBVIOUS
  <2>2. \A i \in 1..Len(RowOrder) : [id |-> RowOrder[i], visible |-> i = 1] \in Conf!RowConfigs
    BY RegistryIs DEF Conf!RowConfigs
  <2>3. rows \in Seq(Conf!RowConfigs)
    <3>1. PICK S : S = Conf!RowConfigs
      OBVIOUS
    <3>2. rows \in [1..Len(RowOrder) -> S] /\ Len(RowOrder) \in Nat
      BY <2>1, <2>2, <3>1, RegistryIs
    <3> QED  BY <3>1, <3>2
  <2>4. Conf!Fresh = [width |-> Least, seconds |-> Least, top |-> TRUE, hide |-> TRUE, position |-> <<>>,
                      hotkey |-> "key", rows |-> rows]
    BY <2>1 DEF Conf!Fresh
  <2>5. Least \in Reach /\ <<>> \in Positions
    BY DEF ConfBounds, Reach, Positions
  <2> QED  BY <2>3, <2>4, <2>5 DEF Stored, ConfBounds
<1> QED  BY <1>1, <1>2

LEMMA ConfInit == ASSUME ConfBounds, Conf!Init  PROVE ConfInv
<1>1. disk \in Stored
  BY FilesStored DEF Conf!Init
<1>2. config = Conf!Normalize(disk) /\ config \in Configs /\ grabbed = config.hotkey
  BY <1>1, NormalIs DEF Conf!Init, Conf!Load
<1> QED  BY <1>1, <1>2 DEF ConfInv, Conf!Init, Configs

\* A control's change goes to the file with the next save.
LEMMA EditSaved ==
  ASSUME ConfBounds, ConfInv, NEW c \in Configs, Conf!Edit(c), Conf!Save, UNCHANGED <<grabbed, typing>>
  PROVE  ConfInv'
<1>1. config' = c /\ edits' \in Nat /\ edits' # 0
  BY DEF Conf!Edit, ConfInv
<1>2. disk' \in Stored /\ unsaved' \in BOOLEAN /\ (~unsaved' => disk' = config')
  BY <1>1, NormalAgain DEF Conf!Save, ConfInv
<1>3. ~unsaved' => Conf!Normalize(disk)' = config'
  <2>1. ASSUME ~unsaved'  PROVE Conf!Normalize(disk)' = config'
    <3>1. PICK d : d = disk'
      OBVIOUS
    <3>2. Conf!Normalize(d) = d
      BY <1>1, <1>2, <2>1, <3>1, NormalAgain
    <3>3. Conf!Normalize(disk)' = Conf!Normalize(d)
      BY <3>1 DEF Conf!Normalize, Conf!NormalRows, Conf!Filled, Conf!Kept, Conf!NormalFloat, Conf!NormalNumber
    <3> QED  BY <1>2, <2>1, <3>1, <3>2, <3>3
  <2> QED  BY <2>1
<1> QED  BY <1>1, <1>2, <1>3 DEF ConfInv

\* The box of a row changes whether it is shown.
LEMMA ToggledComplete ==
  ASSUME NEW a \in Complete, NEW i \in 1..Len(a)
  PROVE  [a EXCEPT ![i].visible = ~a[i].visible] \in Complete
<1>1. PICK b : b = [a EXCEPT ![i].visible = ~a[i].visible]
  OBVIOUS
<1>2. a \in Listing /\ Len(a) \in Nat /\ DOMAIN a = 1..Len(a) /\ \A m \in 1..Len(a) : a[m] \in Conf!RowConfigs
  BY ListingIs DEF Complete
<1>3. \A m \in 1..Len(a) : b[m] \in Conf!RowConfigs /\ b[m].id = a[m].id
  BY <1>1, <1>2 DEF Conf!RowConfigs
<1>4. PICK S : S = Conf!RowConfigs
  OBVIOUS
<1>5. a \in Seq(S) /\ \A m \in 1..Len(a) : b[m] \in S
  BY <1>2, <1>3, <1>4 DEF Listing
<1>6. b \in Seq(S) /\ Len(b) = Len(a)
  <2>1. b \in [1..Len(a) -> S]
    BY <1>1, <1>2, <1>5
  <2> QED  BY <1>2, <2>1
<1>7. b \in Listing
  BY <1>2, <1>3, <1>4, <1>6 DEF Listing
<1> QED  BY <1>1, <1>3, <1>6, <1>7 DEF Complete

LEMMA ConfNext ==
  ASSUME ConfBounds, ConfInv, [Conf!Next]_(Conf!panelVars)  PROVE ConfInv'
<1>1. CASE Conf!Restart
  <2>1. PICK c : c = Conf!Normalize(disk)
    OBVIOUS
  <2>2. c \in Configs /\ c.hotkey \in KeyTexts
    BY <2>1, NormalIs DEF ConfInv, Configs
  <2>3. /\ config' = c /\ grabbed' = c.hotkey /\ disk' = disk /\ edits' = edits
        /\ typing' = FALSE /\ unsaved' = FALSE
    BY <1>1, <2>1 DEF Conf!Restart
  <2>4. Conf!Normalize(disk)' = c
    BY <2>1, <2>3 DEF Conf!Normalize, Conf!NormalRows, Conf!Filled, Conf!Kept, Conf!NormalFloat, Conf!NormalNumber
  <2> QED  BY <2>2, <2>3, <2>4 DEF ConfInv
<1>2. CASE Conf!Type
  <2>1. PICK k \in KeyTexts : config' = [config EXCEPT !.hotkey = k] /\ edits' = edits + 1
    BY <1>2 DEF Conf!Type, Conf!Edit
  <2>2. typing' = TRUE /\ grabbed' = grabbed /\ disk' = disk /\ unsaved' = unsaved
    BY <1>2 DEF Conf!Type
  <2>3. PICK n : n = Conf!Normalize(disk)
    OBVIOUS
  <2>4. Conf!Normalize(disk)' = n
    BY <2>2, <2>3 DEF Conf!Normalize, Conf!NormalRows, Conf!Filled, Conf!Kept, Conf!NormalFloat, Conf!NormalNumber
  <2>5. config' \in Configs /\ edits' \in Nat /\ edits' # 0
    BY <2>1 DEF ConfInv, Configs
  <2>6. n \in Configs
    BY <2>3, NormalIs DEF ConfInv
  <2>7. ~unsaved => [n EXCEPT !.hotkey = config'.hotkey] = config'
    BY <2>1, <2>3, <2>6 DEF ConfInv, Configs
  <2> QED  BY <2>2, <2>4, <2>5, <2>7 DEF ConfInv
<1>3. CASE Conf!Commit
  <2>1. config' = config /\ edits' = edits /\ typing /\ typing' = FALSE /\ grabbed' = config.hotkey
    BY <1>3 DEF Conf!Commit
  <2>2. disk' \in Stored /\ unsaved' \in BOOLEAN /\ (~unsaved' => disk' = config)
    BY <1>3, <2>1, NormalAgain DEF Conf!Commit, Conf!Outcome, Conf!Save, ConfInv
  <2>3. edits # 0 /\ config.hotkey \in KeyTexts
    BY <2>1 DEF ConfInv, Configs
  <2>4. ASSUME ~unsaved'  PROVE Conf!Normalize(disk)' = config'
    <3>1. Conf!Normalize(config) = config
      BY NormalAgain DEF ConfInv
    <3>2. Conf!Normalize(disk)' = Conf!Normalize(config)
      BY <2>2, <2>4 DEF Conf!Normalize, Conf!NormalRows, Conf!Filled, Conf!Kept, Conf!NormalFloat, Conf!NormalNumber
    <3> QED  BY <2>1, <3>1, <3>2
  <2> QED  BY <2>1, <2>2, <2>3, <2>4 DEF ConfInv
<1>4. ASSUME NEW c \in Configs, Conf!Edit(c), Conf!Save, UNCHANGED <<grabbed, typing>>  PROVE ConfInv'
  BY <1>4, EditSaved
<1>5. ASSUME Conf!SetWidth \/ Conf!SetSeconds, UNCHANGED <<grabbed, typing>>  PROVE ConfInv'
  <2>1. \A v \in Least..Most : [config EXCEPT !.width = v] \in Configs /\ [config EXCEPT !.seconds = v] \in Configs
    BY DEF ConfInv, Configs
  <2> QED  BY <1>4, <1>5, <2>1 DEF Conf!SetWidth, Conf!SetSeconds, Conf!Outcome
<1>6. ASSUME Conf!SetWindow, UNCHANGED <<grabbed, typing>>  PROVE ConfInv'
  <2>1. [config EXCEPT !.top = ~config.top] \in Configs /\ [config EXCEPT !.hide = ~config.hide] \in Configs
    BY DEF ConfInv, Configs
  <2>2. \/ Conf!Edit([config EXCEPT !.top = ~config.top]) /\ Conf!Save
        \/ Conf!Edit([config EXCEPT !.hide = ~config.hide]) /\ Conf!Save
    BY <1>6 DEF Conf!SetWindow, Conf!Outcome, Conf!TaskbarChanged
  <2> QED  BY <1>4, <1>6, <2>1, <2>2
<1>7. ASSUME Conf!ToggleRow, UNCHANGED <<grabbed, typing>>  PROVE ConfInv'
  <2>1. PICK i \in 1..Len(config.rows) :
          Conf!Edit([config EXCEPT !.rows[i].visible = ~config.rows[i].visible]) /\ Conf!Save
    BY <1>7 DEF Conf!ToggleRow, Conf!Outcome
  <2>2. PICK b : b = [config.rows EXCEPT ![i].visible = ~config.rows[i].visible]
    OBVIOUS
  <2>3. config.rows \in Complete
    BY DEF ConfInv, Configs
  <2>4. b \in Complete
    BY <2>2, <2>3, ToggledComplete
  <2>5. [config EXCEPT !.rows[i].visible = ~config.rows[i].visible] = [config EXCEPT !.rows = b]
    BY <2>2 DEF ConfInv, Configs
  <2>6. [config EXCEPT !.rows = b] \in Configs
    BY <2>4 DEF ConfInv, Configs
  <2> QED  BY <1>4, <1>7, <2>1, <2>5, <2>6
<1>8. ASSUME Conf!Settle, UNCHANGED <<grabbed, typing>>  PROVE ConfInv'
  <2>1. <<1, 1>> \in Positions
    BY DEF ConfBounds, Positions, Reach
  <2>2. [config EXCEPT !.position = <<1, 1>>] \in Configs
    BY <2>1 DEF ConfInv, Configs
  <2> QED  BY <1>4, <1>8, <2>2 DEF Conf!Settle
<1>9. CASE UNCHANGED Conf!panelVars
  BY <1>9 DEF ConfInv, Conf!panelVars, Conf!Normalize, Conf!NormalRows, Conf!Filled, Conf!Kept, Conf!NormalFloat, Conf!NormalNumber
<1> QED  BY <1>1, <1>2, <1>3, <1>5, <1>6, <1>7, <1>8, <1>9 DEF Conf!Next

LEMMA ConfGives ==
  ASSUME ConfBounds, ConfInv
  PROVE  Conf!Usable /\ Conf!OrderIsKept /\ Conf!EditsAreSaved
<1>1. Conf!Usable
  <2>1. config.rows \in Complete
    BY DEF ConfInv, Configs
  <2>2. Len(config.rows) = Len(RowOrder) /\ {row.id : row \in Conf!ToSet(config.rows)} = Conf!RowIds
    BY <2>1, CompleteLength
  <2>3. config.position \in {<<>>} \cup {<<x, y>> : x, y \in Least - 1..Most + 1}
    BY DEF ConfInv, Configs, Positions, Reach
  <2> QED  BY <2>2, <2>3 DEF Conf!Usable, ConfInv, Configs
<1>2. Conf!OrderIsKept
  <2>1. Conf!Normalize(config) = config
    BY NormalAgain DEF ConfInv
  <2>2. ASSUME edits = 0, NEW i \in 1..Len(disk.rows), NEW j \in 1..Len(disk.rows),
               disk.rows[i].id \in Conf!RowIds,
               disk.rows[j].id \in Conf!RowIds \ {disk.rows[i].id}, i < j,
               \A h \in 1..(i - 1) : disk.rows[h].id # disk.rows[i].id,
               \A h \in 1..(j - 1) : disk.rows[h].id # disk.rows[j].id
        PROVE  \E m, n \in 1..Len(config.rows) :
                 m < n /\ config.rows[m] = disk.rows[i] /\ config.rows[n].id = disk.rows[j].id
    <3>1. disk \in Stored /\ disk.rows \in Seq(Conf!RowConfigs) /\ config = Conf!Normalize(disk)
      BY <2>2 DEF ConfInv, Stored
    <3>2. config.rows = Conf!NormalRows(disk.rows)
      BY <3>1 DEF Conf!Normalize, Stored
    <3>3. First(disk.rows, i) /\ First(disk.rows, j)
      BY <2>2 DEF First
    <3>4. PICK m, n \in 1..Len(Conf!NormalRows(disk.rows)) :
            m < n /\ Conf!NormalRows(disk.rows)[m] = disk.rows[i] /\ Conf!NormalRows(disk.rows)[n] = disk.rows[j]
      BY <2>2, <3>1, <3>3, NormalRowsAre
    <3> QED  BY <3>2, <3>4
  <2> QED  BY <2>1, <2>2 DEF Conf!OrderIsKept
<1>3. Conf!EditsAreSaved
  BY DEF Conf!EditsAreSaved, ConfInv
<1> QED  BY <1>1, <1>2, <1>3

\* The configuration in use can always be laid out, has what the file said in its order, and
\* is in the file but for a hotkey that is being typed; and a wait of the panel's place is
\* for the places that were seen (normalize, SettingsOutcome, track_panel_position).
THEOREM PanelIsRemembered ==
  ASSUME ConfBounds, PlaceBounds
  PROVE  Conf!Spec /\ Place!Spec => []PanelRemembers
<1>1. Conf!Init => ConfInv
  BY ConfInit
<1>2. ConfInv /\ [Conf!Next]_(Conf!panelVars) => ConfInv'
  BY ConfNext
<1>3. Place!Init => PlaceInv
  BY PlaceInit
<1>4. PlaceInv /\ [Place!Next]_(Place!placeVars) => PlaceInv'
  BY PlaceNext
<1>5. ConfInv /\ PlaceInv => PanelRemembers
  BY ConfGives DEF PanelRemembers, PlaceInv
<1> QED  BY <1>1, <1>2, <1>3, <1>4, <1>5, PTL DEF Conf!Spec, Place!Spec

\* A load that follows one that went through writes no file, and the place of a panel that
\* nobody dragged is never overwritten (migrate_tray_config, track_panel_position).
THEOREM NothingMoves ==
  ASSUME DiskBounds, PlaceBounds
  PROVE  Disk!Spec /\ Place!Spec => NothingMovesByItself
<1>1. Disk!Spec => Disk!SecondLoadIsIdle
  BY SecondLoadStaysIdle
<1>2. Place!Spec => Place!StaysWhereLeft
  BY PanelStays, PTL
<1> QED  BY <1>1, <1>2 DEF NothingMovesByItself
=============================================================================
