----------------------------- MODULE ConfigFiles -----------------------------
(***************************************************************************)
(* The configuration directory of the GUI: settings.json, tray.json with its *)
(* migration out of settings.json, profiles.json with its copy, panel.json,  *)
(* the desktop entry and the config.json of an old version.  A process loads *)
(* the directory twice, then saves what the user changes; it may be killed   *)
(* between any two steps, and any write may fail.                           *)
(***************************************************************************)
EXTENDS Integers, Sequences, FiniteSets

CONSTANTS
  Values,       \* values of the settings, of the profiles and of the panel, with 0, the default
  MaxChanges,   \* bound: changes by the user
  MaxCrashes,   \* bound: kills
  MaxFaults     \* bound: writes that fail

VARIABLES
  file,     \* the directory
  at,       \* where the process is: "down", or a step of the load, or "runs"
  ops,      \* the file operations that are left of the step
  mem,      \* AppConfig
  found,    \* the tray fields that the load has found
  passes,   \* loads that are left of the start
  bad,      \* an operation of the step has failed
  changes, crashes, faults,
  saving,   \* history: what the last change is saving
  kept,     \* history: the values that a start may find
  lost,     \* history: a load gave defaults for what the files still held
  based,    \* history: what profiles.json was when it was last saved
  settled   \* history: a load went through and nothing has been changed since

configVars == <<file, at, ops, mem, found, passes, bad, changes, crashes, faults,
                saving, kept, lost, based, settled>>
history == <<saving, kept, lost, based, settled>>
counters == <<changes, crashes, faults>>

\* The two tray fields: neither, the tray, both, a minimized start without a tray.
TrayChoices == {"off", "tray", "both", "minimized"}
Files == {"settings", "tray", "profiles", "profiles.bak", "panel", "desktop", "config",
          "backup", "tray.corrupt", "panel.corrupt"}
Absent == [is |-> "absent"]
Torn == [is |-> "torn"]
Good(v) == [is |-> "good", v |-> v]
Present(f) == file[f].is # "absent"
Readable(f) == file[f].is = "good"

Default == [doc |-> 0, tray |-> "off", prof |-> 0, panel |-> 0]
\* "none": settings.json has no tray fields.
Settings(d, keys) == Good([doc |-> d, keys |-> keys])

\* load_config_from_dir: a minimized start needs a tray.
WithTray(t) == IF t = "minimized" THEN "both" ELSE t

TypeOK ==
  /\ DOMAIN file = Files
  /\ \A f \in Files : file[f].is \in {"absent", "torn", "good"}
  /\ at \in {"down", "tray", "migrate", "reload", "read", "panel", "runs"}
  /\ mem \in [doc : Values, tray : TrayChoices, prof : Values, panel : Values]
  /\ found \in TrayChoices /\ passes \in 0..2 /\ {bad, lost, settled} \subseteq BOOLEAN
  /\ saving \subseteq DOMAIN Default /\ based \in {"absent", "torn", "good"}
  /\ changes \in 0..MaxChanges /\ crashes \in 0..MaxCrashes /\ faults \in 0..MaxFaults
  /\ kept \in [doc : SUBSET Values, tray : SUBSET TrayChoices, prof : SUBSET Values,
               panel : SUBSET Values]

-----------------------------------------------------------------------------
(* What a start finds that nothing disturbs.                                *)

FoundTray ==
  WithTray(IF Readable("tray") THEN file["tray"].v
           ELSE IF Readable("settings") /\ file["settings"].v.keys # "none"
             THEN file["settings"].v.keys
           ELSE IF Readable("config") THEN file["config"].v.tray ELSE "off")
FoundDoc ==
  IF Present("settings") THEN file["settings"].v.doc
  ELSE IF Readable("config") THEN file["config"].v.doc ELSE 0
FoundProf ==
  IF Present("profiles") THEN file["profiles"].v
  ELSE IF Readable("config") THEN file["config"].v.prof ELSE 0
FoundPanel == IF Readable("panel") THEN file["panel"].v ELSE 0

\* A directory of an old version, of one from before tray.json, of this one, or
\* empty; a tray.json and a panel.json may have been damaged by hand.
Init ==
  /\ \E settings \in {Absent} \cup {Settings(1, k) : k \in TrayChoices \cup {"none"}},
        byHand \in {<<Absent, Absent>>, <<Torn, Torn>>, <<Good("tray"), Good(1)>>},
        config \in {Absent, Good([doc |-> 1, tray |-> "tray", prof |-> 1])},
        profiles \in {Absent, Good(1)} :
       file = [f \in Files |-> CASE f = "settings" -> settings
                                 [] f = "tray" -> byHand[1]
                                 [] f = "panel" -> byHand[2]
                                 [] f = "config" -> config
                                 [] f = "profiles" -> profiles
                                 [] OTHER -> Absent]
  /\ at = "down" /\ ops = <<>> /\ mem = Default /\ found = "off" /\ passes = 0 /\ bad = FALSE
  /\ changes = 0 /\ crashes = 0 /\ faults = 0
  /\ kept = [doc |-> {FoundDoc}, tray |-> {FoundTray}, prof |-> {FoundProf}, panel |-> {FoundPanel}]
  /\ saving = {} /\ lost = FALSE /\ based = "absent" /\ settled = FALSE

-----------------------------------------------------------------------------
(* File operations: what is written to which files at once; when it fails,   *)
(* how many of those that follow are left out, and whether it is only logged. *)

Op(sets, skip) == [sets |-> sets, skip |-> skip, logged |-> FALSE]
One(f, c) == [g \in {f} |-> c]
Aside(f, g) == Op([h \in {f, g} |-> IF h = g THEN file[f] ELSE Absent], 0)

\* Mutant of WriteAtomic: written in place.
WriteInPlace(f, v, skip) == <<Op(One(f, Torn), skip + 1), Op(One(f, Good(v)), skip)>>

\* write_atomic: what is renamed into place is whole; no load looks at the
\* temporary file, and the next write truncates it.
WriteAtomic(f, v, skip) == <<Op(One(f, Good(v)), skip)>>

\* std::fs::write: the file is truncated, then filled.
Write(f, v, skip) == <<Op(One(f, Torn), skip + 1), Op(One(f, Good(v)), skip)>>

\* std::fs::copy does as much; what it copies may be torn itself.
CopyTo(f, g, skip) == <<Op(One(g, Torn), skip + 1), Op(One(g, file[f]), skip)>>

SaveTray(t, skip) == WriteAtomic("tray", t, skip)

\* save_settings_to_dir: the first failure ends it.
SaveSettings(m) ==
  WriteAtomic("settings", [doc |-> m.doc, keys |-> "none"], 3) \o SaveTray(m.tray, 2)
  \o Write("desktop", m.doc, 0)

\* Mutant of SaveProfiles: the copy is made after the write.
SaveProfilesFirst(m) ==
  Write("profiles", m.prof, 1) \o <<Op(One("profiles.bak", Good(m.prof)), 0)>>

\* save_profiles_to_disk: what is there is copied first.
SaveProfiles(m) ==
  (IF Present("profiles") THEN CopyTo("profiles", "profiles.bak", 2) ELSE <<>>)
  \o Write("profiles", m.prof, 0)

\* Mutant of Migration: settings.json is cleaned first.
MigrationCleansFirst ==
  LET s == file["settings"].v IN
  WriteAtomic("settings", [s EXCEPT !.keys = "none"], 1) \o SaveTray(s.keys, 0)

\* migrate_tray_config, for a settings.json with tray fields and no tray.json.
Migration ==
  LET s == file["settings"].v IN
  SaveTray(s.keys, 3)
  \o (IF Present("backup") THEN <<>>
      ELSE [i \in 1..2 |-> [CopyTo("settings", "backup", 0)[i] EXCEPT !.logged = TRUE]])
  \o WriteAtomic("settings", [s EXCEPT !.keys = "none"], 0)

-----------------------------------------------------------------------------
Goes(p, todo) == at' = p /\ ops' = todo /\ bad' = FALSE

\* WithTray of the tray fields, and the other values as they are.
Kept(m) == [part \in DOMAIN m |-> {IF part = "tray" THEN WithTray(m[part]) ELSE m[part]}]

\* The head of the operations is done; after the last of them, what was to be saved
\* is what a start finds.
Step ==
  /\ at # "down" /\ ops # <<>>
  /\ LET new == Head(ops).sets IN
     file' = [f \in Files |-> IF f \in DOMAIN new THEN new[f] ELSE file[f]]
  /\ ops' = Tail(ops)
  /\ kept' = IF ops' = <<>> /\ ~bad
             THEN [part \in DOMAIN mem |-> IF part \in saving THEN Kept(mem)[part] ELSE kept[part]]
             ELSE kept
  /\ UNCHANGED <<at, mem, found, passes, bad, counters, saving, lost, based, settled>>

\* The head of the operations fails.
Fails ==
  /\ at # "down" /\ ops # <<>> /\ faults < MaxFaults
  /\ faults' = faults + 1
  /\ ops' = SubSeq(ops, Head(ops).skip + 2, Len(ops))
  /\ bad' = (bad \/ ~Head(ops).logged)
  /\ UNCHANGED <<file, at, mem, found, passes, changes, crashes, history>>

\* The process ends, or is killed between any two steps.
Ended ==
  /\ at' = "down" /\ ops' = <<>> /\ mem' = Default /\ found' = "off" /\ passes' = 0 /\ bad' = FALSE
  /\ saving' = {}
  /\ UNCHANGED <<file, changes, faults, kept, lost, based, settled>>
Quit == at = "runs" /\ ops = <<>> /\ Ended /\ UNCHANGED crashes
Crash == at # "down" /\ crashes < MaxCrashes /\ crashes' = crashes + 1 /\ Ended

\* main loads the directory for its window, and AppState::new loads it again.
Start ==
  /\ at = "down" /\ at' = "tray" /\ passes' = 2
  /\ UNCHANGED <<file, ops, mem, found, bad, counters, history>>

\* A step of the load is over.
Ends(p) == at = p /\ ops = <<>>

\* A step failed that the second load does not make up for.
GivesUp == bad /\ (passes = 1 \/ Readable("config"))

\* load_tray_config: what cannot be parsed is moved aside.
LoadTray ==
  /\ Ends("tray")
  /\ found' = IF Readable("tray") THEN file["tray"].v ELSE "off"
  /\ Goes("migrate", IF file["tray"] = Torn THEN <<Aside("tray", "tray.corrupt")>> ELSE <<>>)
  /\ UNCHANGED <<file, mem, passes, counters, history>>

\* migrate_tray_config.
NeedsMigration ==
  ~Present("tray") /\ Readable("settings") /\ file["settings"].v.keys # "none"

Migrate ==
  /\ Ends("migrate")
  /\ Goes("reload", IF NeedsMigration THEN Migration ELSE <<>>)
  /\ found' = IF NeedsMigration THEN file["settings"].v.keys ELSE found
  /\ lost' = (lost \/ GivesUp)
  /\ UNCHANGED <<file, mem, passes, counters, saving, kept, based, settled>>

\* resolve_tray_config: what was migrated is read again; where there is no
\* tray.json, config.json is asked.
Reload ==
  /\ Ends("reload")
  /\ LET seen == IF bad THEN "off" ELSE found IN
     found' = IF seen = "off" /\ ~Present("tray") /\ Readable("config")
              THEN file["config"].v.tray ELSE seen
  /\ lost' = (lost \/ GivesUp)
  /\ Goes("read", <<>>)
  /\ UNCHANGED <<file, mem, passes, counters, saving, kept, based, settled>>

\* Mutant of Converts: an old config.json is converted at every start.
ConvertsAlways == Readable("config")

\* load_config_from_dir: the files of an old version are written in the new form.
Converts == Readable("config") /\ ~(Present("settings") /\ Present("profiles"))

\* The rest of load_config_from_dir; the next load, or the panel's, follows.
After == IF passes = 2 THEN "tray" ELSE "panel"

Read ==
  /\ Ends("read") /\ file["settings"] # Torn /\ file["profiles"] # Torn
  /\ LET m == [mem EXCEPT !.doc = FoundDoc, !.tray = WithTray(found), !.prof = FoundProf]
     IN  /\ mem' = IF passes = 1 THEN m ELSE mem
         /\ Goes(After, IF Converts THEN SaveSettings(m) \o SaveProfiles(m) ELSE <<>>)
         /\ based' = IF Converts THEN file["profiles"].is ELSE based
  /\ passes' = passes - 1
  /\ UNCHANGED <<file, found, counters, saving, kept, lost, settled>>

\* A document that cannot be parsed fails the whole load: the defaults stay.
ReadFails ==
  /\ Ends("read") /\ (file["settings"] = Torn \/ file["profiles"] = Torn)
  /\ Goes(After, <<>>) /\ passes' = passes - 1
  /\ lost' = (lost \/ passes = 1)
  /\ UNCHANGED <<file, mem, found, counters, saving, kept, based, settled>>

\* load_panel_config.
LoadPanel ==
  /\ Ends("panel")
  /\ mem' = [mem EXCEPT !.panel = FoundPanel]
  /\ Goes("runs", IF file["panel"] = Torn THEN <<Aside("panel", "panel.corrupt")>> ELSE <<>>)
  /\ settled' = (faults = 0)
  /\ UNCHANGED <<file, found, passes, counters, saving, kept, lost, based>>

-----------------------------------------------------------------------------
(* The user changes something, and it is saved at once.                     *)

Change(m, parts, todo) ==
  /\ Ends("runs") /\ changes < MaxChanges /\ m # mem
  /\ changes' = changes + 1 /\ mem' = m /\ saving' = parts /\ Goes("runs", todo)
  /\ kept' = [part \in DOMAIN mem |-> kept[part] \cup Kept(m)[part]]
  /\ UNCHANGED <<file, found, passes, crashes, faults, lost, settled>>

\* The settings page, with save_settings.
ChangeDoc(v) ==
  LET m == [mem EXCEPT !.doc = v] IN
  Change(m, {"doc", "tray"}, SaveSettings(m)) /\ UNCHANGED based

\* The two tray boxes, with save_tray_settings: ticking the minimized start ticks
\* the tray.
Boxes(t) ==
  CASE t = "off" -> {"both", "tray"} [] t = "tray" -> {"both", "off"}
    [] t = "both" -> {"tray", "minimized"} [] t = "minimized" -> {"off", "both"}

ChangeTray(t) ==
  /\ t \in Boxes(mem.tray)
  /\ Change([mem EXCEPT !.tray = t], {"tray"}, SaveTray(t, 0)) /\ UNCHANGED based

\* save_profiles.
ChangeProfile(v) ==
  LET m == [mem EXCEPT !.prof = v] IN
  Change(m, {"prof"}, SaveProfiles(m)) /\ based' = file["profiles"].is

\* save_panel_config.
ChangePanel(v) ==
  Change([mem EXCEPT !.panel = v], {"panel"}, WriteAtomic("panel", v, 0)) /\ UNCHANGED based

Next ==
  \/ Step \/ Fails \/ Quit \/ Crash \/ Start \/ LoadTray \/ Migrate \/ Reload \/ Read \/ ReadFails \/ LoadPanel
  \/ (\E v \in Values : ChangeDoc(v) \/ ChangeProfile(v) \/ ChangePanel(v))
  \/ \E t \in TrayChoices : ChangeTray(t)

Spec == Init /\ [][Next]_configVars

-----------------------------------------------------------------------------
(* Properties.                                                              *)

\* Wherever the process is killed, and whatever single write fails, the next start
\* finds what was last saved or what was being saved, unless a load has already
\* answered with the defaults (migrate_tray_config: "no failure can lose settings";
\* write_atomic: "a crash mid-write leaves either the old file or the new one").
ChoicesSurvive ==
  /\ file["settings"] # Torn
  /\ ~lost => /\ FoundDoc \in kept.doc /\ FoundTray \in kept.tray /\ FoundPanel \in kept.panel
              /\ file["profiles"] # Torn => FoundProf \in kept.prof

\* The running process has in memory what a start may find.
MemoryAgrees ==
  at = "runs" /\ ~lost => \A part \in DOMAIN mem : Kept(mem)[part] \subseteq kept[part]

\* A profiles.json that was cut off in the middle leaves a copy of the one before
\* (save_profiles_to_disk).
ProfilesHaveCopy ==
  file["profiles"] = Torn /\ based = "good" =>
    Readable("profiles.bak") /\ (~lost => file["profiles.bak"].v \in kept.prof)

\* A load that follows one that went through changes no file ("a successful run
\* followed by any number of further runs changes nothing").
SecondLoadIsIdle ==
  [][settled /\ at \notin {"runs", "down"} => UNCHANGED file]_configVars
=============================================================================
