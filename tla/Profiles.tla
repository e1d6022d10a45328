------------------------------ MODULE Profiles -------------------------------
(***************************************************************************)
(* The list of profiles: chosen, created, deleted and reset on its page,     *)
(* edited and reset on the tuning page, chosen in the tray, whose menu is    *)
(* brought up to date by frames and which names a profile by its place.      *)
(***************************************************************************)
EXTENDS Integers, Sequences, SequencesExt, FiniteSets

CONSTANTS
  Standard,   \* the name of the profile that cannot be deleted
  Names,      \* the others
  Contents,   \* what a profile may say
  Built,      \* what the built-in Standard says
  MaxEdits, MaxFaults  \* bounds: the user's changes, saves that fail

VARIABLES
  list,     \* config.profiles
  current,  \* config.current_profile
  disk,     \* profiles.json
  applied,  \* the profile that the daemon was asked for last
  menu,     \* the tray's profiles
  marked,   \* the place that the menu marks
  synced,   \* last_tray_profiles_count and last_tray_profile
  clicks,   \* TrayEvent::SwitchProfile, not yet handled
  drawing,  \* a frame has done its tray's part and now draws the pages
  edits, faults,
  draft,     \* history: changed and not saved
  unapplied, \* history: the current profile was changed and not sent to the daemon since
  renamed,   \* history: the tuning page has reset another profile than Standard
  crossed    \* history: the frame that took a click of the tray drew one on a page, too

listVars == <<list, current, disk, applied, menu, marked, synced, clicks, drawing, edits, faults,
              draft, unapplied, renamed, crossed>>
trayVars == <<menu, marked, synced, clicks>>

NamesOf(l) == [i \in 1..Len(l) |-> l[i].name]

\* current_profile_index: the first of that name, or 0.
IndexIn(names, n) ==
  LET at == {i \in 1..Len(names) : names[i] = n}
  IN  IF at = {} THEN 0 ELSE CHOOSE i \in at : \A j \in at : i <= j

Load(l, c) ==
  /\ list = l /\ current = c /\ disk = [list |-> l, current |-> c]
  /\ applied = l[IndexIn(NamesOf(l), c)]
  /\ menu = NamesOf(l) /\ marked = IndexIn(menu, c) /\ synced = <<Len(l), c>> /\ clicks = <<>>

Init ==
  /\ \E says \in Contents, c \in Names \cup {Standard} :
       Load(<<[name |-> Standard, says |-> Built]>> \o
              SetToSeq({[name |-> n, says |-> says] : n \in Names}), c)
  /\ drawing = FALSE /\ edits = 0 /\ faults = 0
  /\ draft = FALSE /\ unapplied = FALSE /\ renamed = FALSE /\ crossed = FALSE

-----------------------------------------------------------------------------
\* A frame draws the pages once, with one click at most.
EditOf ==
  /\ edits < MaxEdits /\ edits' = edits + 1
  /\ drawing /\ drawing' = FALSE
  /\ crossed' = (crossed \/ current # synced[2])

\* save_profiles, whose failure is let go.
SaveProfiles ==
  \/ disk' = [list |-> list', current |-> current'] /\ draft' = FALSE /\ UNCHANGED faults
  \/ faults < MaxFaults /\ faults' = faults + 1 /\ draft' = TRUE /\ UNCHANGED disk

ApplyProfile(p) == applied' = p
ApplyNothing == UNCHANGED applied

\* Choosing on the page of the profiles, also by Edit.
Switch ==
  /\ EditOf
  /\ \E i \in 1..Len(list) :
       /\ list[i].name # current /\ current' = list[i].name /\ UNCHANGED list
       /\ SaveProfiles /\ ApplyProfile(list[i]) /\ unapplied' = FALSE
  /\ UNCHANGED <<trayVars, renamed>>

\* Reset to Default of Standard, on the same page.
ResetStandard ==
  /\ EditOf
  /\ \E i \in 1..Len(list) :
       /\ list[i].name = Standard
       /\ list' = [list EXCEPT ![i] = [name |-> Standard, says |-> Built]] /\ UNCHANGED current
       /\ SaveProfiles
       /\ IF current = Standard THEN ApplyProfile(list'[i]) /\ unapplied' = FALSE
          ELSE ApplyNothing /\ UNCHANGED unapplied
  /\ UNCHANGED <<trayVars, renamed>>

\* Mutant of DeleteApplies: the hardware keeps the deleted profile.
DeleteAppliesNothing(name) == ApplyNothing /\ UNCHANGED unapplied

\* What Delete applies: Standard, in the place of the current profile.
DeleteApplies(name) ==
  IF name = current /\ IndexIn(NamesOf(list), Standard) # 0
  THEN ApplyProfile(list[IndexIn(NamesOf(list), Standard)]) /\ unapplied' = FALSE
  ELSE ApplyNothing /\ UNCHANGED unapplied

Delete ==
  /\ EditOf
  /\ \E i \in 1..Len(list) :
       /\ list[i].name # Standard
       /\ DeleteApplies(list[i].name)
       /\ current' = IF list[i].name = current THEN Standard ELSE current
       /\ list' = RemoveAt(list, i)
       /\ SaveProfiles
  /\ UNCHANGED <<trayVars, renamed>>

\* Mutant of MayCreate: a name is not looked for.
MayCreateAny(n) == TRUE

\* Create: a copy of the current profile under a name that none has.
MayCreate(n) == IndexIn(NamesOf(list), n) = 0

Create ==
  /\ EditOf
  /\ \E n \in Names \cup {Standard} :
       /\ MayCreate(n)
       /\ LET i == IndexIn(NamesOf(list), current)
              says == IF i = 0 THEN Built ELSE list[i].says
          IN  list' = Append(list, [name |-> n, says |-> says])
       /\ UNCHANGED current /\ SaveProfiles /\ ApplyNothing
  /\ UNCHANGED <<trayVars, unapplied, renamed>>

\* The tuning page: a control, its Save, its Reset, which has Profile::default replace any
\* profile but Standard.
Tune ==
  /\ EditOf
  /\ LET i == IndexIn(NamesOf(list), current) IN
     /\ i # 0
     /\ \/ /\ \E says \in Contents \ {list[i].says} : list' = [list EXCEPT ![i].says = says]
           /\ draft' = TRUE /\ unapplied' = TRUE /\ ApplyNothing /\ UNCHANGED <<disk, faults, renamed>>
        \/ /\ UNCHANGED <<list, renamed>> /\ current' = current /\ SaveProfiles /\ ApplyProfile(list[i]) /\ unapplied' = FALSE
        \/ /\ list' = [list EXCEPT ![i] = [name |-> Standard, says |-> Built]]
           /\ renamed' = (renamed \/ current # Standard)
           /\ draft' = TRUE /\ unapplied' = TRUE /\ ApplyNothing /\ UNCHANGED <<disk, faults>>
  /\ UNCHANGED <<trayVars, current>>

-----------------------------------------------------------------------------
(* The tray.                                                                *)

\* A profile is chosen in the menu; its entry is marked at once.
Click ==
  /\ edits < MaxEdits /\ edits' = edits + 1
  /\ \E i \in 1..Len(menu) : clicks' = Append(clicks, i) /\ marked' = i
  /\ UNCHANGED <<list, current, disk, applied, menu, synced, drawing, faults, draft, unapplied,
                 renamed, crossed>>

\* Mutant of MenuIsOld: the menu keeps the profiles of the start.
MenuIsNeverOld == FALSE

\* Only the number of profiles is compared.
MenuIsOld == Len(list) # synced[1]

\* handle_tray_events: the menu and its mark, and then one click.
HandleTray ==
  LET names == IF MenuIsOld THEN NamesOf(list) ELSE menu
      at == IndexIn(names, current)
  IN  /\ menu' = names /\ synced' = <<Len(list), current>>
      /\ marked' = IF (MenuIsOld \/ current # synced[2]) /\ at # 0 THEN at ELSE marked
      /\ IF clicks = <<>> THEN UNCHANGED <<clicks, current, applied, unapplied, draft>>
         ELSE /\ clicks' = Tail(clicks)
              /\ IF Head(clicks) <= Len(list)
                 THEN /\ current' = list[Head(clicks)].name /\ ApplyProfile(list[Head(clicks)])
                      /\ draft' = TRUE /\ unapplied' = FALSE
                 ELSE UNCHANGED <<current, applied, unapplied, draft>>
  /\ drawing' = TRUE
  /\ UNCHANGED <<list, disk, edits, faults, renamed, crossed>>

\* Started again: the profile that the file names is applied.
Restart ==
  /\ edits < MaxEdits /\ edits' = edits + 1
  /\ list' = disk.list /\ current' = disk.current /\ UNCHANGED disk
  /\ LET i == IndexIn(NamesOf(list'), current') IN
     applied' = IF i = 0 THEN applied ELSE list'[i]
  /\ menu' = NamesOf(list') /\ synced' = <<Len(list'), current'>> /\ clicks' = <<>> /\ drawing' = FALSE
  /\ marked' = IF IndexIn(menu', current') = 0 THEN 1 ELSE IndexIn(menu', current')
  /\ draft' = FALSE /\ unapplied' = FALSE /\ crossed' = FALSE
  /\ UNCHANGED <<faults, renamed>>

Next ==
  \/ Switch \/ ResetStandard \/ Delete \/ Create \/ Tune \/ Click \/ HandleTray \/ Restart

Spec == Init /\ [][Next]_listVars

-----------------------------------------------------------------------------
(* Properties.                                                              *)

\* Until the tuning page has renamed one, every name stands for one profile, Standard among
\* them, and the current profile is one of them.
NamesStand ==
  ~renamed =>
    /\ \A i, j \in 1..Len(list) : list[i].name = list[j].name => i = j
    /\ {Standard, current} \subseteq {list[i].name : i \in 1..Len(list)}

\* The profile that the page shows as the current one is the one that the daemon was asked
\* for, as it was when it was last sent.
CurrentIsApplied ==
  ~renamed =>
    /\ applied.name = current
    /\ ~unapplied => applied = list[IndexIn(NamesOf(list), current)]

\* Unless something was left unsaved, the next start has what this process has.
NextStartAgrees == ~draft => disk = [list |-> list, current |-> current]

\* When a frame draws the pages the tray offers the profiles that there are; and once it has
\* seen every change, it marks the current one (not after a frame that took a click of the
\* tray and was clicked itself: there last_tray_profile misses both).
TrayAgrees ==
  ~renamed =>
    /\ drawing => menu = NamesOf(list)
    /\ drawing /\ clicks = <<>> /\ current = synced[2] /\ ~crossed => menu[marked] = current
=============================================================================
