----------------------------- MODULE ConfigProofs -----------------------------
(***************************************************************************)
(* What the user chose survives, for any values and any number of changes,   *)
(* kills and failed writes.  The operations that are left of a step are      *)
(* known by how many follow them, which neither doing nor failing one        *)
(* changes; so the invariant says, for each number of operations left, what  *)
(* the files hold.                                                          *)
(***************************************************************************)
EXTENDS PanelParts, FiniteSets, SequenceTheorems, TLAPS

DiskBounds ==
  /\ {0, 1} \subseteq Values
  /\ MaxRewrites \in Nat /\ MaxCrashes \in Nat /\ MaxBreaks \in Nat

-----------------------------------------------------------------------------
(* Types.                                                                   *)

Keys == Disk!TrayChoices \cup {"none"}
SettingsContents == {Disk!Absent} \cup {Disk!Settings(d, k) : d \in Values, k \in Keys}
TrayContents == {Disk!Absent, Disk!Torn} \cup {Disk!Good(t) : t \in Disk!TrayChoices}
Contents == {Disk!Absent, Disk!Torn} \cup {Disk!Good(v) : v \in Values}
Old == [doc : Values, tray : Disk!TrayChoices, prof : Values]
OldContents == {Disk!Absent} \cup {Disk!Good(m) : m \in Old}

Written == SettingsContents \cup TrayContents \cup Contents \cup OldContents

Memory == [doc : Values, tray : Disk!TrayChoices, prof : Values, panel : Values]

FilesOK ==
  /\ file \in [Disk!Files -> Written]
  /\ file["settings"] \in SettingsContents /\ file["tray"] \in TrayContents
  /\ file["profiles"] \in Contents /\ file["profiles.bak"] \in Contents /\ file["panel"] \in Contents
  /\ file["config"] \in OldContents

Operation == [sets : UNION {[F -> Written] : F \in SUBSET Disk!Files}, skip : 0..3, logged : BOOLEAN]

Types ==
  /\ FilesOK
  /\ at \in {"down", "tray", "migrate", "reload", "read", "panel", "runs"}
  /\ ops \in Seq(Operation) /\ mem \in Memory
  /\ found \in Disk!TrayChoices /\ passes \in 0..2 /\ broken \in BOOLEAN /\ lost \in BOOLEAN /\ settled \in BOOLEAN
  /\ saving \subseteq {"doc", "tray", "prof", "panel"} /\ based \in {"absent", "torn", "good"}
  /\ changes \in 0..MaxRewrites /\ crashes \in 0..MaxCrashes /\ faults \in 0..MaxBreaks
  /\ kept \in [doc : SUBSET Values, tray : SUBSET Disk!TrayChoices, prof : SUBSET Values, panel : SUBSET Values]

-----------------------------------------------------------------------------
(* The operations that are left.                                            *)

\* What one of them does, and what goes with it when it fails.
Does(o, f, c, skip) == o.sets = Disk!One(f, c) /\ o.skip = skip
Moves(o, f, g) == o.sets = [h \in {f, g} |-> IF h = g THEN Disk!Torn ELSE Disk!Absent]

\* A save of settings, the operation that k others follow.
SettingsOp(k, o, m) ==
  /\ k = 3 => Does(o, "settings", Disk!Settings(m.doc, "none"), 3)
  /\ k = 2 => Does(o, "tray", Disk!Good(m.tray), 2)
  /\ k = 1 => Does(o, "desktop", Disk!Torn, 1)
  /\ k = 0 => Does(o, "desktop", Disk!Good(m.doc), 0)
  /\ ~o.logged

\* A save of profiles, where c was there.
ProfilesOp(k, o, m, c) ==
  /\ k = 3 => Does(o, "profiles.bak", Disk!Torn, 3)
  /\ k = 2 => Does(o, "profiles.bak", c, 2)
  /\ k = 1 => Does(o, "profiles", Disk!Torn, 1)
  /\ k = 0 => Does(o, "profiles", Disk!Good(m.prof), 0)
  /\ ~o.logged

\* A conversion saves the settings first, and then the profiles.
Saves(m, c, n) ==
  /\ Len(ops) <= n + 4
  /\ \A i \in 1..Len(ops) :
       LET k == Len(ops) - i IN IF k < n THEN ProfilesOp(k, ops[i], m, c) ELSE SettingsOp(k - n, ops[i], m)

\* A migration, with or without a copy of settings.json.
MigrationOp(k, o, n) ==
  /\ k = n - 1 => Does(o, "tray", Disk!Good(found), 3) /\ ~o.logged
  /\ k = 0 => Does(o, "settings", Disk!Settings(file["settings"].v.doc, "none"), 0) /\ ~o.logged
  /\ k \in 1..(n - 2) => o.logged /\ DOMAIN o.sets = {"backup"} /\ o.skip <= 1 /\ (k = 1 => o.skip = 0)
Migrates(n) ==
  Len(ops) <= n /\ \A i \in 1..Len(ops) : MigrationOp(Len(ops) - i, ops[i], n)

\* What a save of profiles has done so far.
ProfilesSoFar(m, c, n) ==
  /\ c \in Contents /\ c.is = based /\ n = IF c = Disk!Absent THEN 2 ELSE 4
  /\ Len(ops) >= 2 => file["profiles"] = c
  /\ Len(ops) \in 1..2 /\ c.is = "good" => file["profiles.bak"] = c
  /\ ~lost /\ c.is = "good" => c.v \in kept.prof

-----------------------------------------------------------------------------
(* The invariant.                                                           *)

\* The tray's fields are where the load looks for them first.
Sound ==
  /\ file["tray"] # Disk!Torn
  /\ Disk!Readable("settings") /\ file["settings"].v.keys # "none" => Disk!Readable("tray")

\* What was converted stays so.
Idle == Sound /\ (Disk!Readable("config") => Disk!Present("settings") /\ Disk!Present("profiles"))

InTray == IF Disk!Readable("tray") THEN file["tray"].v ELSE "off"

\* The values that a start may find.
Chosen(m) == m.doc \in kept.doc /\ Disk!WithTray(m.tray) \in kept.tray /\ m.prof \in kept.prof

\* A load that has failed so far is of no consequence, or none has.
Firm == faults = 0 \/ (~lost /\ (passes = 1 \/ Disk!Readable("config")))

Phases ==
  /\ at \in {"tray", "migrate", "reload", "read"} => passes \in 1..2
  /\ at = "panel" => passes = 0
  /\ at \in {"down", "read"} => ops = <<>>
  /\ at # "runs" => saving = {}
  /\ broken => faults > 0

AtMigrate ==
  at = "migrate" =>
    /\ found = InTray
    /\ ops = <<>> /\ file["tray"] = Disk!Torn => broken
    /\ ops # <<>> => file["tray"] = Disk!Torn /\ Len(ops) = 1 /\ Moves(ops[1], "tray", "tray.corrupt") /\ ~ops[1].logged

AtReload ==
  at = "reload" =>
    /\ ops # <<>> => \E n \in {2, 4} :
         /\ Migrates(n) /\ Disk!Readable("settings") /\ found = file["settings"].v.keys
         /\ file["tray"] = IF Len(ops) = n THEN Disk!Absent ELSE Disk!Good(found)
    /\ ops = <<>> /\ Firm /\ ~broken => Sound /\ found = InTray

AtRead == at = "read" /\ Firm => Sound /\ Disk!WithTray(found) = Disk!FoundTray

Converting ==
  at \in {"tray", "panel"} /\ ops # <<>> =>
    /\ Disk!Readable("config")
    /\ \E m \in Old, c \in Contents, n \in {2, 4} :
         /\ Saves(m, c, n) /\ ProfilesSoFar(m, c, n)
         /\ ~lost => Chosen(m)
         /\ ~lost \/ faults = 0 => Sound
         /\ faults = 0 /\ Len(ops) < n + 4 => Disk!Present("settings")

AtPanel ==
  at = "panel" =>
    /\ ~lost \/ faults = 0 => Sound
    /\ ~lost => Chosen(mem)
    /\ faults = 0 /\ Disk!Readable("config") /\ ops = <<>> => Disk!Present("settings") /\ Disk!Present("profiles")

\* Torn profiles come after the settings.
SettingsFirst ==
  faults = 0 /\ Disk!Readable("config") /\ file["profiles"] = Disk!Torn => Disk!Present("settings")

Running ==
  at = "runs" =>
    /\ ~lost => Sound /\ Chosen(mem) /\ mem.panel \in kept.panel
    /\ faults = 0 => settled

Saving ==
  at = "runs" /\ ops # <<>> =>
    \/ /\ saving = {} /\ Len(ops) = 1 /\ Moves(ops[1], "panel", "panel.corrupt") /\ file["panel"] = Disk!Torn
    \/ /\ saving = {"doc", "tray"} /\ Saves(mem, Disk!Absent, 0)
       /\ ~broken /\ Len(ops) < 4 => file["settings"] = Disk!Settings(mem.doc, "none")
       /\ ~broken /\ Len(ops) < 3 => file["tray"] = Disk!Good(mem.tray)
    \/ saving = {"tray"} /\ Len(ops) = 1 /\ Does(ops[1], "tray", Disk!Good(mem.tray), 0) /\ ~ops[1].logged
    \/ saving = {"prof"} /\ \E c \in Contents, n \in {2, 4} :
         Len(ops) <= n /\ Saves(mem, c, n) /\ ProfilesSoFar(mem, c, n)
    \/ saving = {"panel"} /\ Len(ops) = 1 /\ Does(ops[1], "panel", Disk!Good(mem.panel), 0) /\ ~ops[1].logged

WhenSettled ==
  settled => Idle /\ (at \notin {"runs", "down"} => ops = <<>>)

Found ==
  /\ Disk!FoundDoc \in kept.doc /\ Disk!FoundTray \in kept.tray /\ Disk!FoundPanel \in kept.panel
  /\ file["profiles"] # Disk!Torn => Disk!FoundProf \in kept.prof

ConfigInv ==
  /\ Types /\ Phases /\ AtMigrate /\ AtReload /\ AtRead /\ Converting /\ AtPanel /\ SettingsFirst
  /\ Running /\ Saving /\ WhenSettled /\ (~lost => Found) /\ Disk!ProfilesHaveCopy

-----------------------------------------------------------------------------
(* Contents.                                                                *)

LEMMA ContentsAre ==
  /\ \A c \in SettingsContents : c.is \in {"absent", "good"} /\ c # Disk!Torn
       /\ (c.is = "good" => c.v.doc \in Values /\ c.v.keys \in Keys)
       /\ (c.is = "absent" => c = Disk!Absent)
  /\ \A c \in TrayContents : c.is \in {"absent", "torn", "good"} /\ (c.is = "good" => c.v \in Disk!TrayChoices)
       /\ (c.is = "torn" <=> c = Disk!Torn) /\ (c.is = "absent" <=> c = Disk!Absent)
  /\ \A c \in Contents : c.is \in {"absent", "torn", "good"} /\ (c.is = "good" => c.v \in Values)
       /\ (c.is = "torn" <=> c = Disk!Torn) /\ (c.is = "absent" <=> c = Disk!Absent)
  /\ \A c \in OldContents : c.is \in {"absent", "good"} /\ (c.is = "good" => c.v \in Old)
  /\ \A c \in Written : c.is \in {"absent", "torn", "good"}
BY DEF SettingsContents, TrayContents, Contents, OldContents, Written, Disk!Absent, Disk!Torn, Disk!Good, Disk!Settings, Keys, Old

LEMMA GoodIs ==
  /\ \A v : Disk!Good(v).is = "good" /\ Disk!Good(v).v = v /\ Disk!Good(v) # Disk!Torn /\ Disk!Good(v) # Disk!Absent
  /\ Disk!Torn.is = "torn" /\ Disk!Absent.is = "absent" /\ Disk!Torn # Disk!Absent
  /\ \A d, k : Disk!Settings(d, k).is = "good" /\ Disk!Settings(d, k).v.doc = d /\ Disk!Settings(d, k).v.keys = k
BY DEF Disk!Good, Disk!Torn, Disk!Absent, Disk!Settings

LEMMA WithTrayIs == \A t \in Disk!TrayChoices : Disk!WithTray(t) \in Disk!TrayChoices /\ Disk!WithTray(Disk!WithTray(t)) = Disk!WithTray(t)
BY DEF Disk!WithTray, Disk!TrayChoices

LEMMA MemoryIs ==
  ASSUME NEW m \in Memory
  PROVE  /\ DOMAIN m = {"doc", "tray", "prof", "panel"}
         /\ m.doc \in Values /\ m.tray \in Disk!TrayChoices /\ m.prof \in Values /\ m.panel \in Values
         /\ Disk!Kept(m)["doc"] = {m.doc} /\ Disk!Kept(m)["tray"] = {Disk!WithTray(m.tray)}
         /\ Disk!Kept(m)["prof"] = {m.prof} /\ Disk!Kept(m)["panel"] = {m.panel}
BY DEF Memory, Disk!Kept

\* Four sets by name.
LEMMA KeptIs ==
  ASSUME NEW f, DOMAIN f = {"doc", "tray", "prof", "panel"}, f = [part \in DOMAIN f |-> f[part]],
         f["doc"] \subseteq Values, f["tray"] \subseteq Disk!TrayChoices, f["prof"] \subseteq Values, f["panel"] \subseteq Values
  PROVE  f \in [doc : SUBSET Values, tray : SUBSET Disk!TrayChoices, prof : SUBSET Values, panel : SUBSET Values]
OBVIOUS

\* The four parts after the last operation.
LEMMA KeptStep ==
  ASSUME Types, Disk!Step
  PROVE  /\ kept' \in [doc : SUBSET Values, tray : SUBSET Disk!TrayChoices, prof : SUBSET Values, panel : SUBSET Values]
         /\ kept'.doc = IF ops' = <<>> /\ ~broken /\ "doc" \in saving THEN {mem.doc} ELSE kept.doc
         /\ kept'.tray = IF ops' = <<>> /\ ~broken /\ "tray" \in saving THEN {Disk!WithTray(mem.tray)} ELSE kept.tray
         /\ kept'.prof = IF ops' = <<>> /\ ~broken /\ "prof" \in saving THEN {mem.prof} ELSE kept.prof
         /\ kept'.panel = IF ops' = <<>> /\ ~broken /\ "panel" \in saving THEN {mem.panel} ELSE kept.panel
<1> DEFINE D == {"doc", "tray", "prof", "panel"}
<1>1. mem \in Memory /\ kept \in [doc : SUBSET Values, tray : SUBSET Disk!TrayChoices, prof : SUBSET Values, panel : SUBSET Values]
  BY DEF Types
<1>2. DOMAIN mem = D
  BY <1>1, MemoryIs
<1>3. CASE ops' = <<>> /\ ~broken
  <2>1. kept' = [part \in D |-> IF part \in saving THEN Disk!Kept(mem)[part] ELSE kept[part]]
    BY <1>2, <1>3 DEF Disk!Step
  <2>2. /\ kept'["doc"] = IF "doc" \in saving THEN {mem.doc} ELSE kept.doc
        /\ kept'["tray"] = IF "tray" \in saving THEN {Disk!WithTray(mem.tray)} ELSE kept.tray
        /\ kept'["prof"] = IF "prof" \in saving THEN {mem.prof} ELSE kept.prof
        /\ kept'["panel"] = IF "panel" \in saving THEN {mem.panel} ELSE kept.panel
        /\ DOMAIN kept' = D /\ kept' = [part \in D |-> kept'[part]]
    BY <1>1, <2>1, MemoryIs
  <2>3. /\ kept'["doc"] \subseteq Values /\ kept'["tray"] \subseteq Disk!TrayChoices
        /\ kept'["prof"] \subseteq Values /\ kept'["panel"] \subseteq Values
    BY <1>1, <2>2, MemoryIs, WithTrayIs
  <2>4. PICK f : f = kept'
    OBVIOUS
  <2>5. f \in [doc : SUBSET Values, tray : SUBSET Disk!TrayChoices, prof : SUBSET Values, panel : SUBSET Values]
    BY <2>2, <2>3, <2>4, KeptIs
  <2> QED  BY <1>3, <2>2, <2>4, <2>5
<1>4. CASE ~(ops' = <<>> /\ ~broken)
  BY <1>1, <1>4 DEF Disk!Step
<1> QED  BY <1>3, <1>4

-----------------------------------------------------------------------------
(* The operations.                                                          *)

\* The first d operations are gone.
Drop(d) ==
  /\ ops' \in Seq(Operation) /\ Len(ops') = Len(ops) - d
  /\ \A i \in 1..Len(ops') : i + d \in 1..Len(ops) /\ ops'[i] = ops[i + d]

LEMMA OpsAre ==
  ASSUME ops \in Seq(Operation), ops # <<>>
  PROVE  /\ Len(ops) \in Nat \ {0} /\ 1 \in 1..Len(ops) /\ Head(ops) = ops[1] /\ ops[1] \in Operation
         /\ ops[1].skip \in 0..3 /\ ops[1].logged \in BOOLEAN
<1>1. Len(ops) \in Nat \ {0} /\ 1 \in 1..Len(ops) /\ Head(ops) = ops[1] /\ ops[1] \in Operation
  OBVIOUS
<1> QED  BY <1>1 DEF Operation

LEMMA StepDrops ==
  ASSUME Types, Disk!Step  PROVE Drop(1) /\ ops # <<>>
<1>1. ops # <<>> /\ ops \in Seq(Operation) /\ ops' = Tail(ops)
  BY DEF Types, Disk!Step
<1>2. ops' \in Seq(Operation) /\ Len(ops') = Len(ops) - 1 /\ \A i \in 1..Len(ops') : ops'[i] = ops[i + 1]
  BY <1>1, HeadTailProperties
<1>3. Len(ops) \in Nat
  BY <1>1
<1> QED  BY <1>1, <1>2, <1>3 DEF Drop

LEMMA FailsDrops ==
  ASSUME Types, Disk!Fails
  PROVE  /\ ops # <<>>
         /\ IF Len(ops) > ops[1].skip + 1 THEN Drop(ops[1].skip + 1) ELSE ops' = <<>>
<1>1. ops # <<>> /\ ops \in Seq(Operation) /\ ops' = SubSeq(ops, ops[1].skip + 2, Len(ops))
  BY OpsAre DEF Types, Disk!Fails
<1>2. ops[1].skip \in 0..3 /\ Len(ops) \in Nat
  BY <1>1, OpsAre
<1>3. PICK s \in 0..3 : s = ops[1].skip
  BY <1>2
<1>4. CASE Len(ops) > s + 1
  <2>1. \A i \in (s + 2)..Len(ops) : ops[i] \in Operation
    BY <1>1, <1>2, <1>3
  <2>2. /\ SubSeq(ops, s + 2, Len(ops)) \in Seq(Operation)
        /\ Len(SubSeq(ops, s + 2, Len(ops))) = Len(ops) - (s + 2) + 1
        /\ \A i \in 1..(Len(ops) - (s + 2) + 1) : SubSeq(ops, s + 2, Len(ops))[i] = ops[s + 2 + i - 1]
    BY <1>2, <1>4, <2>1, SubSeqProperties
  <2>3. ops' = SubSeq(ops, s + 2, Len(ops))
    BY <1>1, <1>3
  <2> DEFINE l == Len(ops)
  <2>4. Len(ops') = l - (s + 1) /\ \A i \in 1..(l - (s + 1)) : ops'[i] = ops[s + 2 + i - 1]
    BY <1>2, <2>2, <2>3
  <2>5. ASSUME NEW i \in 1..Len(ops')  PROVE i + (s + 1) \in 1..l /\ ops'[i] = ops[i + (s + 1)]
    <3>1. i \in 1..(l - (s + 1)) /\ s + 2 + i - 1 = i + (s + 1) /\ l \in Nat
      BY <1>2, <2>4, <2>5
    <3>2. i + (s + 1) \in 1..l
      BY <3>1
    <3> QED  BY <2>4, <3>1, <3>2
  <2> QED  BY <1>1, <1>3, <1>4, <2>2, <2>3, <2>4, <2>5 DEF Drop
<1>5. CASE ~(Len(ops) > s + 1)
  BY <1>1, <1>2, <1>3, <1>5, SubSeqEmpty
<1> QED  BY <1>1, <1>3, <1>4, <1>5

\* What is left is known as before.
LEMMA SavesDrop ==
  ASSUME ops \in Seq(Operation), NEW d \in 1..4, Drop(d), NEW m, NEW c, NEW n \in Nat, Saves(m, c, n)
  PROVE  Saves(m, c, n)'
<1>1. Len(ops') = Len(ops) - d /\ Len(ops) \in Nat /\ Len(ops') \in Nat
  BY DEF Drop
<1>2. ASSUME NEW i \in 1..Len(ops')
      PROVE  LET k == Len(ops') - i IN
             IF k < n THEN ProfilesOp(k, ops'[i], m, c) ELSE SettingsOp(k - n, ops'[i], m)
  <2>1. i + d \in 1..Len(ops) /\ ops'[i] = ops[i + d] /\ Len(ops') - i = Len(ops) - (i + d)
    BY <1>1 DEF Drop
  <2> QED  BY <2>1 DEF Saves
<1>3. Len(ops') <= n + 4
  BY <1>1 DEF Saves
<1> QED  BY <1>2, <1>3 DEF Saves

LEMMA MigratesDrop ==
  ASSUME ops \in Seq(Operation), NEW d \in 1..4, Drop(d), NEW n \in Nat, Migrates(n), found' = found,
         file'["settings"].v.doc = file["settings"].v.doc
  PROVE  Migrates(n)'
<1>1. Len(ops') = Len(ops) - d /\ Len(ops) \in Nat /\ Len(ops') \in Nat
  BY DEF Drop
<1>2. ASSUME NEW i \in 1..Len(ops'), NEW o, o = ops'[i], NEW k, k = Len(ops') - i
      PROVE  MigrationOp(k, o, n)'
  <2>1. i + d \in 1..Len(ops) /\ o = ops[i + d] /\ k = Len(ops) - (i + d)
    BY <1>1, <1>2 DEF Drop
  <2>2. MigrationOp(k, o, n)
    BY <2>1 DEF Migrates
  <2> QED  BY <2>2 DEF MigrationOp
<1>3. Len(ops') <= n
  BY <1>1 DEF Migrates
<1> QED  BY <1>2, <1>3 DEF Migrates

-----------------------------------------------------------------------------
(* The files.                                                               *)

Only(f, c) == \A g \in Disk!Files : file'[g] = IF g = f THEN c ELSE file[g]

LEMMA Done ==
  ASSUME Types, Disk!Step, NEW f \in Disk!Files, NEW c, NEW s, Does(ops[1], f, c, s)
  PROVE  Only(f, c) /\ file' = [g \in Disk!Files |-> file'[g]]
<1>1. Head(ops) = ops[1]
  BY OpsAre DEF Types, Disk!Step
<1>2. ops[1].sets = [g \in {f} |-> c]
  BY DEF Does, Disk!One
<1>3. file' = [g \in Disk!Files |-> IF g \in {f} THEN ops[1].sets[g] ELSE file[g]]
  BY <1>1, <1>2 DEF Disk!Step
<1> QED  BY <1>2, <1>3 DEF Only

LEMMA Moved ==
  ASSUME Types, Disk!Step, NEW f \in Disk!Files, NEW g \in Disk!Files, f # g, Moves(ops[1], f, g)
  PROVE  /\ file'[f] = Disk!Absent /\ file'[g] = Disk!Torn /\ \A h \in Disk!Files \ {f, g} : file'[h] = file[h]
         /\ file' = [h \in Disk!Files |-> file'[h]]
<1>1. Head(ops) = ops[1]
  BY OpsAre DEF Types, Disk!Step
<1>2. ops[1].sets = [h \in {f, g} |-> IF h = g THEN Disk!Torn ELSE Disk!Absent]
  BY DEF Moves
<1>3. file' = [h \in Disk!Files |-> IF h \in {f, g} THEN ops[1].sets[h] ELSE file[h]]
  BY <1>1, <1>2 DEF Disk!Step
<1> QED  BY <1>2, <1>3

LEMMA InAny ==
  /\ SettingsContents \subseteq Written /\ TrayContents \subseteq Written /\ Contents \subseteq Written
  /\ Disk!Absent \in Written /\ Disk!Torn \in Written /\ Disk!Absent \in SettingsContents
  /\ Disk!Absent \in TrayContents /\ Disk!Torn \in TrayContents /\ Disk!Absent \in Contents /\ Disk!Torn \in Contents
  /\ \A v \in Values : Disk!Good(v) \in Contents
  /\ \A t \in Disk!TrayChoices : Disk!Good(t) \in TrayContents
  /\ \A d \in Values, k \in Keys : Disk!Settings(d, k) \in SettingsContents
BY DEF Written, SettingsContents, TrayContents, Contents

\* A file that none of the four parts is in.
Beside == {"desktop", "backup", "tray.corrupt", "panel.corrupt"}

LEMMA FilesSet ==
  ASSUME FilesOK, NEW f \in Disk!Files \ {"config"}, NEW c \in Written, Only(f, c), file' = [g \in Disk!Files |-> file'[g]],
         f = "settings" => c \in SettingsContents, f = "tray" => c \in TrayContents,
         f \in {"profiles", "profiles.bak", "panel"} => c \in Contents
  PROVE  FilesOK'
<1>1. \A g \in Disk!Files : file'[g] \in Written
  BY DEF FilesOK, Only
<1>2. file' \in [Disk!Files -> Written]
  BY <1>1
<1>3. {"settings", "tray", "profiles", "profiles.bak", "panel", "config"} \subseteq Disk!Files
  BY DEF Disk!Files
<1> QED  BY <1>2, <1>3 DEF FilesOK, Only

LEMMA FilesMoved ==
  ASSUME FilesOK, NEW f \in {"tray", "panel"}, NEW g \in Beside, file'[f] = Disk!Absent, file'[g] = Disk!Torn,
         \A h \in Disk!Files \ {f, g} : file'[h] = file[h], file' = [h \in Disk!Files |-> file'[h]]
  PROVE  FilesOK'
<1>1. \A h \in Disk!Files : file'[h] \in Written
  BY InAny DEF FilesOK
<1>2. file' \in [Disk!Files -> Written]
  BY <1>1
<1>3. {"settings", "tray", "profiles", "profiles.bak", "panel", "config"} \subseteq Disk!Files \ {g}
  BY DEF Disk!Files, Beside
<1> QED  BY <1>2, <1>3, InAny DEF FilesOK

-----------------------------------------------------------------------------
(* What a start finds, by the files it looks at.                            *)

Same(F) == \A f \in F : file'[f] = file[f]

LEMMA ByDoc == Same({"settings", "config"}) => Disk!FoundDoc' = Disk!FoundDoc
BY DEF Same, Disk!FoundDoc, Disk!Present, Disk!Readable

LEMMA ByTray ==
  Same({"settings", "config", "tray"}) => Disk!FoundTray' = Disk!FoundTray /\ (Sound' <=> Sound) /\ InTray' = InTray
BY DEF Same, Disk!FoundTray, Disk!Present, Disk!Readable, Sound, InTray

LEMMA ByPanel == Same({"panel"}) => Disk!FoundPanel' = Disk!FoundPanel
BY DEF Same, Disk!FoundPanel, Disk!Readable

LEMMA ByProf == Same({"profiles", "config"}) => Disk!FoundProf' = Disk!FoundProf
BY DEF Same, Disk!FoundProf, Disk!Present, Disk!Readable

LEMMA ByIdle == Same({"settings", "config", "tray", "profiles"}) => (Idle' <=> Idle)
BY ByTray DEF Same, Idle, Disk!Present, Disk!Readable

\* When none of the parts changes, nor what may be found of them.
LEMMA FoundKept ==
  ASSUME Found, Same({"settings", "config", "tray", "panel", "profiles"}),
         kept.doc \subseteq kept'.doc, kept.tray \subseteq kept'.tray,
         kept.prof \subseteq kept'.prof, kept.panel \subseteq kept'.panel
  PROVE  Found'
<1>1. /\ Same({"settings", "config"}) /\ Same({"settings", "config", "tray"})
      /\ Same({"panel"}) /\ Same({"profiles", "config"}) /\ file'["profiles"] = file["profiles"]
  BY DEF Same
<1> QED  BY <1>1, ByDoc, ByTray, ByPanel, ByProf DEF Found

\* Sound, and what was converted, last.
LEMMA FilesAre ==
  ASSUME FilesOK
  PROVE  /\ file["settings"] # Disk!Torn /\ (Disk!Present("settings") <=> Disk!Readable("settings"))
         /\ Disk!Readable("settings") => file["settings"].v.doc \in Values /\ file["settings"].v.keys \in Keys
         /\ ~Disk!Present("settings") <=> file["settings"] = Disk!Absent
         /\ Disk!Readable("tray") => file["tray"].v \in Disk!TrayChoices
         /\ ~Disk!Present("tray") <=> file["tray"] = Disk!Absent
         /\ ~Disk!Readable("tray") <=> file["tray"] \in {Disk!Absent, Disk!Torn}
         /\ Disk!Readable("profiles") => file["profiles"].v \in Values
         /\ Disk!Readable("panel") => file["panel"].v \in Values
         /\ Disk!Readable("config") => file["config"].v \in Old
BY ContentsAre, GoodIs DEF FilesOK, Disk!Present, Disk!Readable

LEMMA FoundTypes ==
  ASSUME DiskBounds, FilesOK
  PROVE  /\ Disk!FoundDoc \in Values /\ Disk!FoundTray \in Disk!TrayChoices /\ Disk!FoundPanel \in Values
         /\ file["profiles"] # Disk!Torn => Disk!FoundProf \in Values
         /\ InTray \in Disk!TrayChoices
<1>1. 0 \in Values /\ "off" \in Disk!TrayChoices
  BY DEF DiskBounds, Disk!TrayChoices
<1>2. Disk!Readable("config") => file["config"].v.doc \in Values /\ file["config"].v.tray \in Disk!TrayChoices
                            /\ file["config"].v.prof \in Values
  BY FilesAre DEF Old
<1>3. Disk!FoundDoc \in Values /\ Disk!FoundPanel \in Values
  BY <1>1, <1>2, FilesAre DEF Disk!FoundDoc, Disk!FoundPanel
<1>4. InTray \in Disk!TrayChoices /\ Disk!FoundTray \in Disk!TrayChoices
  <2>1. \A k \in Keys : k # "none" => k \in Disk!TrayChoices
    BY DEF Keys
  <2> QED  BY <1>1, <1>2, <2>1, FilesAre, WithTrayIs DEF Disk!FoundTray, InTray
<1>5. ASSUME file["profiles"] # Disk!Torn  PROVE Disk!FoundProf \in Values
  <2>1. Disk!Present("profiles") => file["profiles"].v \in Values
    BY <1>5, ContentsAre, GoodIs DEF FilesOK, Disk!Present
  <2> QED  BY <1>1, <1>2, <2>1 DEF Disk!FoundProf
<1> QED  BY <1>3, <1>4, <1>5

-----------------------------------------------------------------------------
(* An operation is done.                                                    *)

LEMMA StepTypes ==
  ASSUME Types, Disk!Step, FilesOK'  PROVE Types'
BY StepDrops, KeptStep DEF Types, Disk!Step, Disk!counters, Drop

LEMMA StepPhases ==
  ASSUME Types, Phases, Disk!Step  PROVE Phases'
BY StepDrops DEF Phases, Disk!Step, Disk!counters

\* The four parts outside a save.
LEMMA StepKeeps ==
  ASSUME Types, Phases, Disk!Step, saving = {}
  PROVE  /\ kept'.doc = kept.doc /\ kept'.tray = kept.tray /\ kept'.prof = kept.prof /\ kept'.panel = kept.panel
         /\ \A m : Chosen(m)' <=> Chosen(m)
<1>1. kept'.doc = kept.doc /\ kept'.tray = kept.tray /\ kept'.prof = kept.prof /\ kept'.panel = kept.panel
  BY KeptStep
<1> QED  BY <1>1 DEF Chosen

\* A tray.json that cannot be read is moved aside.
LEMMA StepMigrate ==
  ASSUME ConfigInv, Disk!Step, at = "migrate"  PROVE ConfigInv'
<1> USE DEF ConfigInv
<1>1. /\ ops # <<>> /\ file["tray"] = Disk!Torn /\ Len(ops) = 1 /\ Moves(ops[1], "tray", "tray.corrupt")
      /\ saving = {} /\ ~settled /\ found = InTray
  BY StepDrops DEF AtMigrate, Phases, WhenSettled
<1>2. /\ at' = at /\ UNCHANGED <<mem, found, passes, broken, faults, saving, lost, based, settled>>
  BY DEF Disk!Step, Disk!counters
<1>3. /\ file'["tray"] = Disk!Absent /\ file'["tray.corrupt"] = Disk!Torn
      /\ \A h \in Disk!Files \ {"tray", "tray.corrupt"} : file'[h] = file[h]
      /\ file' = [h \in Disk!Files |-> file'[h]]
  BY <1>1, Moved DEF Disk!Files
<1>4. FilesOK'
  BY <1>3, FilesMoved DEF Types, Beside
<1>5. Types' /\ Phases'
  BY <1>4, StepTypes, StepPhases
<1>6. Same({"settings", "config", "profiles", "profiles.bak", "panel"})
  BY <1>3 DEF Same, Disk!Files
<1>7. Disk!FoundTray' = Disk!FoundTray /\ InTray' = "off" /\ InTray = "off"
  BY <1>1, <1>3, <1>6, GoodIs DEF Disk!FoundTray, InTray, Disk!Readable, Disk!Present, Same
<1>8. ops' = <<>>
  BY <1>1, StepDrops DEF Drop
<1>9. ~lost' => Found'
  <2>1. Same({"settings", "config"}) /\ Same({"panel"}) /\ Same({"profiles", "config"})
    BY <1>6 DEF Same
  <2> QED  BY <1>1, <1>2, <1>6, <1>7, <2>1, ByDoc, ByPanel, ByProf, StepKeeps DEF Found, Same
<1>10. AtMigrate'
  BY <1>1, <1>2, <1>3, <1>7, <1>8, GoodIs DEF AtMigrate
<1>11. SettingsFirst' /\ Disk!ProfilesHaveCopy'
  BY <1>1, <1>2, <1>6, StepKeeps DEF SettingsFirst, Disk!ProfilesHaveCopy, Same, Disk!Present, Disk!Readable
<1>12. AtReload' /\ AtRead' /\ Converting' /\ AtPanel' /\ Running' /\ Saving' /\ WhenSettled'
  BY <1>1, <1>2 DEF AtReload, AtRead, Converting, AtPanel, Running, Saving, WhenSettled
<1> QED  BY <1>5, <1>9, <1>10, <1>11, <1>12

\* One of the operations of a migration is done.
LEMMA StepReload ==
  ASSUME ConfigInv, Disk!Step, at = "reload"  PROVE ConfigInv'
<1> USE DEF ConfigInv
<1>1. ops # <<>> /\ saving = {} /\ ~settled /\ Drop(1) /\ ops \in Seq(Operation) /\ FilesOK
  BY StepDrops DEF Phases, WhenSettled, Types
<1>2. /\ at' = at /\ UNCHANGED <<mem, found, passes, broken, faults, saving, lost, based, settled>>
  BY DEF Disk!Step, Disk!counters
<1>3. PICK n \in {2, 4} :
        /\ Migrates(n) /\ Disk!Readable("settings") /\ found = file["settings"].v.keys
        /\ file["tray"] = IF Len(ops) = n THEN Disk!Absent ELSE Disk!Good(found)
  BY <1>1 DEF AtReload
<1>4. Len(ops) \in 1..n /\ 1 \in 1..Len(ops) /\ MigrationOp(Len(ops) - 1, ops[1], n) /\ ops[1] \in Operation
  BY <1>1, <1>3, OpsAre DEF Migrates
<1>5. Len(ops') = Len(ops) - 1
  BY <1>1 DEF Drop
<1>6. found \in Disk!TrayChoices /\ found # "none" /\ file["settings"].v.doc \in Values
  <2>1. found \in Disk!TrayChoices
    BY DEF Types
  <2> QED  BY <1>1, <1>3, <2>1, FilesAre DEF Disk!TrayChoices
<1>7. Disk!FoundTray = Disk!WithTray(found)
  BY <1>3, <1>6, GoodIs DEF Disk!FoundTray, Disk!Readable
<1>8. SUFFICES /\ FilesOK' /\ Same({"config", "profiles", "profiles.bak", "panel"})
               /\ Disk!FoundDoc' = Disk!FoundDoc /\ Disk!FoundTray' = Disk!FoundTray /\ (Disk!Present("settings") => Disk!Present("settings")')
               /\ AtReload'
  <2>1. Types' /\ Phases'
    BY <1>8, StepTypes, StepPhases
  <2>2. ~lost' => Found'
    <3>1. Same({"panel"}) /\ Same({"profiles", "config"})
      BY <1>8 DEF Same
    <3> QED  BY <1>1, <1>2, <1>8, <3>1, ByPanel, ByProf, StepKeeps DEF Found, Same
  <2>3. SettingsFirst' /\ Disk!ProfilesHaveCopy'
    BY <1>1, <1>2, <1>8, StepKeeps DEF SettingsFirst, Disk!ProfilesHaveCopy, Same, Disk!Present, Disk!Readable
  <2>4. AtMigrate' /\ AtRead' /\ Converting' /\ AtPanel' /\ Running' /\ Saving' /\ WhenSettled'
    BY <1>1, <1>2 DEF AtMigrate, AtRead, Converting, AtPanel, Running, Saving, WhenSettled
  <2> QED  BY <1>8, <2>1, <2>2, <2>3, <2>4
<1>9. Same({"settings"}) => Migrates(n)'
  <2>1. n \in Nat /\ 1 \in 1..4
    OBVIOUS
  <2>2. Same({"settings"}) => file'["settings"].v.doc = file["settings"].v.doc
    BY DEF Same
  <2> QED  BY <1>1, <1>2, <1>3, <2>1, <2>2, MigratesDrop
<1>10. CASE Len(ops) = n
  <2>1. Only("tray", Disk!Good(found)) /\ file' = [g \in Disk!Files |-> file'[g]]
    <3>1. Does(ops[1], "tray", Disk!Good(found), 3)
      BY <1>4, <1>10 DEF MigrationOp
    <3> QED  BY <3>1, Done DEF Disk!Files
  <2>2. FilesOK'
    BY <1>1, <1>6, <2>1, FilesSet, InAny DEF Disk!Files
  <2>3. file'["tray"] = Disk!Good(found) /\ Same({"settings", "config", "profiles", "profiles.bak", "panel"})
    BY <2>1 DEF Only, Same, Disk!Files
  <2>4. Disk!FoundDoc' = Disk!FoundDoc /\ Disk!FoundTray' = Disk!WithTray(found)
    <3>1. Same({"settings", "config"})
      BY <2>3 DEF Same
    <3> QED  BY <2>3, <3>1, ByDoc, GoodIs DEF Disk!FoundTray, Disk!Readable
  <2>5. ops' # <<>> /\ Len(ops') # n
    BY <1>4, <1>5, <1>10
  <2>6. AtReload'
    BY <1>2, <1>3, <1>9, <2>3, <2>5 DEF AtReload, Same, Disk!Readable
  <2> QED  BY <1>7, <2>2, <2>3, <2>4, <2>6 DEF Same, Disk!Present
<1>11. CASE Len(ops) # n /\ Len(ops) # 1
  <2>1. DOMAIN ops[1].sets = {"backup"} /\ ops[1].sets["backup"] \in Written /\ Head(ops) = ops[1]
    <3>1. DOMAIN ops[1].sets = {"backup"}
      <4> DEFINE l == Len(ops)
      <4>0. l \in 1..n /\ l # n /\ l # 1 /\ n \in {2, 4}
        BY <1>4, <1>11
      <4> HIDE DEF l
      <4>1. l - 1 \in 1..(n - 2)
        BY <4>0
      <4> USE DEF l
      <4> QED  BY <1>4, <4>1 DEF MigrationOp
    <3> QED  BY <1>1, <1>4, <3>1, OpsAre DEF Operation
  <2>2. Only("backup", ops[1].sets["backup"]) /\ file' = [g \in Disk!Files |-> file'[g]]
    BY <2>1 DEF Only, Disk!Step
  <2>3. FilesOK'
    BY <1>1, <2>1, <2>2, FilesSet DEF Disk!Files
  <2>4. Same({"settings", "tray", "config", "profiles", "profiles.bak", "panel"})
    BY <2>2 DEF Only, Same, Disk!Files
  <2>5. Disk!FoundDoc' = Disk!FoundDoc /\ Disk!FoundTray' = Disk!FoundTray
    <3>1. Same({"settings", "config"}) /\ Same({"settings", "config", "tray"})
      BY <2>4 DEF Same
    <3> QED  BY <3>1, ByDoc, ByTray
  <2>6. ops' # <<>> /\ Len(ops') # n
    BY <1>4, <1>5, <1>11
  <2>7. AtReload'
    BY <1>2, <1>3, <1>9, <1>11, <2>4, <2>6 DEF AtReload, Same, Disk!Readable
  <2> QED  BY <2>3, <2>4, <2>5, <2>7 DEF Same, Disk!Present
<1>12. CASE Len(ops) # n /\ Len(ops) = 1
  <2> DEFINE new == Disk!Settings(file["settings"].v.doc, "none")
  <2>1. Only("settings", new) /\ file' = [g \in Disk!Files |-> file'[g]]
    <3>1. Does(ops[1], "settings", new, 0)
      BY <1>4, <1>12 DEF MigrationOp
    <3> QED  BY <3>1, Done DEF Disk!Files
  <2>2. new \in SettingsContents
    BY <1>6, InAny DEF Keys
  <2>3. FilesOK'
    BY <1>1, <2>1, <2>2, FilesSet, InAny DEF Disk!Files
  <2>4. file'["settings"] = new /\ Same({"tray", "config", "profiles", "profiles.bak", "panel"})
    BY <2>1 DEF Only, Same, Disk!Files
  <2>5. file'["tray"] = Disk!Good(found)
    BY <1>3, <1>12, <2>4 DEF Same
  <2>6. Disk!Present("settings")' /\ Disk!FoundDoc' = Disk!FoundDoc /\ Disk!FoundTray' = Disk!WithTray(found)
    BY <1>3, <2>4, <2>5, GoodIs DEF Disk!FoundTray, Disk!FoundDoc, Disk!Readable, Disk!Present
  <2>7. Sound' /\ InTray' = found
    BY <2>4, <2>5, GoodIs DEF Sound, InTray, Disk!Readable
  <2>8. ops' = <<>>
    BY <1>1, <1>5, <1>12 DEF Drop
  <2>9. AtReload'
    BY <1>2, <2>7, <2>8 DEF AtReload
  <2> QED  BY <1>7, <2>3, <2>4, <2>6, <2>9 DEF Same
<1> QED  BY <1>10, <1>11, <1>12

\* One of the operations of a save of profiles is done.
LEMMA StepProfiles ==
  ASSUME Types, Disk!Step, NEW m, m.prof \in Values, NEW c \in Contents, NEW n \in {2, 4},
         Saves(m, c, n), Len(ops) <= n, ProfilesSoFar(m, c, n)
  PROVE  /\ FilesOK' /\ Same({"settings", "tray", "config", "panel"})
         /\ Saves(m, c, n)' /\ (ops' # <<>> => ProfilesSoFar(m, c, n)') /\ Disk!ProfilesHaveCopy'
         /\ ops' = <<>> => file'["profiles"] = Disk!Good(m.prof)
         /\ Len(ops) > 2 => file'["profiles"] = file["profiles"]
         /\ Len(ops) = 2 => file'["profiles"] = Disk!Torn
<1>1. /\ ops # <<>> /\ Drop(1) /\ ops \in Seq(Operation) /\ FilesOK /\ Len(ops) \in 1..n /\ 1 \in 1..Len(ops)
      /\ UNCHANGED <<lost, based>>
  <2>1. ops # <<>> /\ Drop(1) /\ ops \in Seq(Operation) /\ FilesOK /\ UNCHANGED <<lost, based>>
    BY StepDrops DEF Types, Disk!Step
  <2>2. Len(ops) \in Nat \ {0}
    BY <2>1
  <2> QED  BY <2>1, <2>2
<1>2. PICK l \in 1..n : l = Len(ops)
  BY <1>1
<1>3. Len(ops') = l - 1 /\ (ops' = <<>> <=> l = 1)
  BY <1>1, <1>2 DEF Drop
<1>4. ProfilesOp(l - 1, ops[1], m, c)
  <2>1. 1 \in 1..Len(ops) /\ Len(ops) - 1 = l - 1 /\ l - 1 < n
    BY <1>1, <1>2
  <2> QED  BY <2>1 DEF Saves
<1>5. Saves(m, c, n)'
  <2>1. n \in Nat /\ 1 \in 1..4
    OBVIOUS
  <2> QED  BY <1>1, <2>1, SavesDrop
<1>6. l # 1 => kept'.prof = kept.prof
  BY <1>3, KeptStep
<1>7. c.is = based
  BY DEF ProfilesSoFar
<1>8. CASE l = 4
  <2>1. Only("profiles.bak", Disk!Torn) /\ file' = [g \in Disk!Files |-> file'[g]]
    <3>1. Does(ops[1], "profiles.bak", Disk!Torn, 3)
      BY <1>4, <1>8 DEF ProfilesOp
    <3> QED  BY <3>1, Done DEF Disk!Files
  <2>2. FilesOK'
    BY <1>1, <2>1, FilesSet, InAny DEF Disk!Files
  <2>3. Same({"settings", "tray", "config", "panel"}) /\ file'["profiles"] = c /\ file["profiles"] = c
    BY <1>2, <1>8, <2>1 DEF Only, Same, Disk!Files, ProfilesSoFar
  <2>4. ProfilesSoFar(m, c, n)'
    BY <1>1, <1>3, <1>6, <1>8, <2>3 DEF ProfilesSoFar
  <2>5. Disk!ProfilesHaveCopy'
    BY <1>1, <1>7, <2>3, GoodIs DEF Disk!ProfilesHaveCopy
  <2> QED  BY <1>2, <1>3, <1>5, <1>8, <2>2, <2>3, <2>4, <2>5
<1>9. CASE l = 3
  <2>1. Only("profiles.bak", c) /\ file' = [g \in Disk!Files |-> file'[g]]
    <3>1. Does(ops[1], "profiles.bak", c, 2)
      BY <1>4, <1>9 DEF ProfilesOp
    <3> QED  BY <3>1, Done DEF Disk!Files
  <2>2. FilesOK'
    BY <1>1, <2>1, FilesSet, InAny DEF Disk!Files
  <2>3. Same({"settings", "tray", "config", "panel"}) /\ file'["profiles"] = c /\ file["profiles"] = c
        /\ file'["profiles.bak"] = c
    BY <1>2, <1>9, <2>1 DEF Only, Same, Disk!Files, ProfilesSoFar
  <2>4. ProfilesSoFar(m, c, n)'
    BY <1>1, <1>3, <1>6, <1>9, <2>3 DEF ProfilesSoFar
  <2>5. Disk!ProfilesHaveCopy'
    BY <1>1, <1>7, <2>3, GoodIs DEF Disk!ProfilesHaveCopy
  <2> QED  BY <1>2, <1>3, <1>5, <1>9, <2>2, <2>3, <2>4, <2>5
<1>10. CASE l = 2
  <2>1. Only("profiles", Disk!Torn) /\ file' = [g \in Disk!Files |-> file'[g]]
    <3>1. Does(ops[1], "profiles", Disk!Torn, 1)
      BY <1>4, <1>10 DEF ProfilesOp
    <3> QED  BY <3>1, Done DEF Disk!Files
  <2>2. FilesOK'
    BY <1>1, <2>1, FilesSet, InAny DEF Disk!Files
  <2>3. Same({"settings", "tray", "config", "panel"}) /\ file'["profiles"] = Disk!Torn
        /\ file'["profiles.bak"] = file["profiles.bak"]
    BY <2>1 DEF Only, Same, Disk!Files
  <2>4. ProfilesSoFar(m, c, n)'
    BY <1>1, <1>2, <1>3, <1>6, <1>10, <2>3 DEF ProfilesSoFar
  <2>5. Disk!ProfilesHaveCopy'
    <3>1. based' = "good" => file'["profiles.bak"] = c /\ c.is = "good" /\ (~lost' => c.v \in kept'.prof)
      BY <1>1, <1>3, <1>10, <2>4 DEF ProfilesSoFar
    <3> QED  BY <3>1 DEF Disk!ProfilesHaveCopy, Disk!Readable
  <2> QED  BY <1>2, <1>3, <1>5, <1>10, <2>2, <2>3, <2>4, <2>5
<1>11. CASE l = 1
  <2>1. Only("profiles", Disk!Good(m.prof)) /\ file' = [g \in Disk!Files |-> file'[g]]
    <3>1. Does(ops[1], "profiles", Disk!Good(m.prof), 0)
      BY <1>4, <1>11 DEF ProfilesOp
    <3> QED  BY <3>1, Done DEF Disk!Files
  <2>2. FilesOK'
    BY <1>1, <2>1, FilesSet, InAny DEF Disk!Files
  <2>3. Same({"settings", "tray", "config", "panel"}) /\ file'["profiles"] = Disk!Good(m.prof)
    BY <2>1 DEF Only, Same, Disk!Files
  <2>4. Disk!ProfilesHaveCopy'
    BY <2>3, GoodIs DEF Disk!ProfilesHaveCopy
  <2> QED  BY <1>2, <1>3, <1>5, <1>11, <2>2, <2>3, <2>4
<1> QED  BY <1>8, <1>9, <1>10, <1>11

\* One of the operations of a save of settings is done.
LEMMA StepSettings ==
  ASSUME Types, Disk!Step, NEW m, m.doc \in Values, m.tray \in Disk!TrayChoices, NEW c, NEW n \in {0, 2, 4},
         Saves(m, c, n), Len(ops) > n
  PROVE  /\ FilesOK' /\ Same({"config", "profiles", "profiles.bak", "panel"})
         /\ Saves(m, c, n)' /\ Len(ops') = Len(ops) - 1 /\ Len(ops) \in (n + 1)..(n + 4)
         /\ file'["settings"] = IF Len(ops) = n + 4 THEN Disk!Settings(m.doc, "none") ELSE file["settings"]
         /\ file'["tray"] = IF Len(ops) = n + 3 THEN Disk!Good(m.tray) ELSE file["tray"]
<1>1. ops # <<>> /\ Drop(1) /\ ops \in Seq(Operation) /\ FilesOK
  BY StepDrops DEF Types, Disk!Step
<1>2. PICK l \in (n + 1)..(n + 4) : l = Len(ops)
  <2>1. Len(ops) \in Nat \ {0} /\ Len(ops) <= n + 4
    BY <1>1 DEF Saves
  <2> QED  BY <2>1
<1>3. Len(ops') = l - 1
  BY <1>1, <1>2 DEF Drop
<1>4. SettingsOp(l - 1 - n, ops[1], m)
  <2>1. 1 \in 1..Len(ops) /\ Len(ops) - 1 = l - 1 /\ ~(l - 1 < n)
    BY <1>2
  <2> QED  BY <2>1 DEF Saves
<1>5. Saves(m, c, n)'
  <2>1. n \in Nat /\ 1 \in 1..4
    OBVIOUS
  <2> QED  BY <1>1, <2>1, SavesDrop
<1>6. CASE l = n + 4
  <2>1. Only("settings", Disk!Settings(m.doc, "none")) /\ file' = [g \in Disk!Files |-> file'[g]]
    <3>1. l - 1 - n = 3
      BY <1>6
    <3>2. Does(ops[1], "settings", Disk!Settings(m.doc, "none"), 3)
      BY <1>4, <3>1 DEF SettingsOp
    <3> QED  BY <3>2, Done DEF Disk!Files
  <2>2. Disk!Settings(m.doc, "none") \in SettingsContents
    BY InAny DEF Keys
  <2>3. FilesOK'
    BY <1>1, <2>1, <2>2, FilesSet, InAny DEF Disk!Files
  <2> QED  BY <1>2, <1>3, <1>5, <1>6, <2>1, <2>3 DEF Only, Same, Disk!Files
<1>7. CASE l = n + 3
  <2>1. Only("tray", Disk!Good(m.tray)) /\ file' = [g \in Disk!Files |-> file'[g]]
    <3>1. l - 1 - n = 2
      BY <1>7
    <3>2. Does(ops[1], "tray", Disk!Good(m.tray), 2)
      BY <1>4, <3>1 DEF SettingsOp
    <3> QED  BY <3>2, Done DEF Disk!Files
  <2>2. FilesOK'
    BY <1>1, <2>1, FilesSet, InAny DEF Disk!Files
  <2> QED  BY <1>2, <1>3, <1>5, <1>7, <2>1, <2>2 DEF Only, Same, Disk!Files
<1>8. CASE l \in {n + 1, n + 2}
  <2>1. PICK s \in Written : Only("desktop", s) /\ file' = [g \in Disk!Files |-> file'[g]]
    <3>1. CASE l = n + 2
      <4>1. l - 1 - n = 1
        BY <3>1
      <4>2. Does(ops[1], "desktop", Disk!Torn, 1)
        BY <1>4, <4>1 DEF SettingsOp
      <4>3. Only("desktop", Disk!Torn) /\ file' = [g \in Disk!Files |-> file'[g]]
        BY <4>2, Done DEF Disk!Files
      <4> QED  BY <4>3, InAny
    <3>2. CASE l = n + 1
      <4>1. l - 1 - n = 0
        BY <3>2
      <4>2. Does(ops[1], "desktop", Disk!Good(m.doc), 0)
        BY <1>4, <4>1 DEF SettingsOp
      <4>3. Only("desktop", Disk!Good(m.doc)) /\ file' = [g \in Disk!Files |-> file'[g]]
        BY <4>2, Done DEF Disk!Files
      <4> QED  BY <4>3, InAny
    <3> QED  BY <1>8, <3>1, <3>2
  <2>2. FilesOK'
    BY <1>1, <2>1, FilesSet DEF Disk!Files
  <2> QED  BY <1>2, <1>3, <1>5, <1>8, <2>1, <2>2 DEF Only, Same, Disk!Files
<1> QED  BY <1>2, <1>6, <1>7, <1>8

\* One of the operations of a conversion is done.
LEMMA StepConvert ==
  ASSUME ConfigInv, Disk!Step, at \in {"tray", "panel"}  PROVE ConfigInv'
<1> USE DEF ConfigInv
<1>1. /\ ops # <<>> /\ saving = {} /\ ~settled /\ Drop(1) /\ ops \in Seq(Operation) /\ FilesOK
      /\ Len(ops) \in Nat \ {0} /\ Len(ops') = Len(ops) - 1
  <2>1. ops # <<>> /\ saving = {} /\ ~settled /\ Drop(1) /\ ops \in Seq(Operation) /\ FilesOK
    BY StepDrops DEF Phases, WhenSettled, Types
  <2> QED  BY <2>1, OpsAre DEF Drop
<1>2. /\ at' = at /\ UNCHANGED <<mem, found, passes, broken, faults, saving, lost, based, settled>>
  BY DEF Disk!Step, Disk!counters
<1>3. Disk!Readable("config")
  BY <1>1 DEF Converting
<1>4. PICK m \in Old, c \in Contents, n \in {2, 4} :
         /\ Saves(m, c, n) /\ ProfilesSoFar(m, c, n)
         /\ ~lost => Chosen(m)
         /\ ~lost \/ faults = 0 => Sound
         /\ faults = 0 /\ Len(ops) < n + 4 => Disk!Present("settings")
  BY <1>1 DEF Converting
<1>5. m.doc \in Values /\ m.tray \in Disk!TrayChoices /\ m.prof \in Values
  BY DEF Old
<1>6. Chosen(m)' <=> Chosen(m)
  BY <1>1, StepKeeps
<1>7. Chosen(mem)' <=> Chosen(mem)
  <2>1. \A x : Chosen(x)' <=> Chosen(x)
    BY <1>1, StepKeeps
  <2> QED  BY <1>2, <2>1
<1>8. SUFFICES /\ FilesOK' /\ Same({"config", "panel"})
               /\ Saves(m, c, n)' /\ (ops' # <<>> => ProfilesSoFar(m, c, n)') /\ Disk!ProfilesHaveCopy'
               /\ ~lost \/ faults = 0 => Sound'
               /\ ~lost => Disk!FoundDoc' \in kept.doc /\ Disk!FoundTray' \in kept.tray
               /\ ~lost /\ file'["profiles"] # Disk!Torn => Disk!FoundProf' \in kept.prof
               /\ faults = 0 => Disk!Present("settings")' /\ (ops' = <<>> => Disk!Present("profiles")')
  <2>1. Types' /\ Phases'
    BY <1>8, StepTypes, StepPhases
  <2>2. ~lost' => Found'
    <3>1. Same({"panel"})
      BY <1>8 DEF Same
    <3> QED  BY <1>1, <1>2, <1>8, <3>1, ByPanel, StepKeeps DEF Found
  <2>3. Disk!Readable("config")'
    BY <1>3, <1>8 DEF Disk!Readable, Same
  <2>4. Converting'
    BY <1>2, <1>4, <1>6, <1>8, <2>3 DEF Converting
  <2>5. AtPanel'
    BY <1>2, <1>7, <1>8 DEF AtPanel
  <2>6. SettingsFirst'
    BY <1>2, <1>8 DEF SettingsFirst
  <2>7. AtMigrate' /\ AtReload' /\ AtRead' /\ Running' /\ Saving' /\ WhenSettled'
    BY <1>1, <1>2 DEF AtMigrate, AtReload, AtRead, Running, Saving, WhenSettled
  <2> QED  BY <1>8, <2>1, <2>2, <2>4, <2>5, <2>6, <2>7
<1>9. CASE Len(ops) <= n
  <2>1. /\ FilesOK' /\ Same({"settings", "tray", "config", "panel"})
        /\ Saves(m, c, n)' /\ (ops' # <<>> => ProfilesSoFar(m, c, n)') /\ Disk!ProfilesHaveCopy'
        /\ ops' = <<>> => file'["profiles"] = Disk!Good(m.prof)
        /\ Len(ops) > 2 => file'["profiles"] = file["profiles"]
        /\ Len(ops) = 2 => file'["profiles"] = Disk!Torn
    BY <1>4, <1>5, <1>9, StepProfiles
  <2>2. Disk!FoundDoc' = Disk!FoundDoc /\ Disk!FoundTray' = Disk!FoundTray /\ (Sound' <=> Sound) /\ (Disk!Present("settings")' <=> Disk!Present("settings"))
    <3>1. Same({"settings", "config"}) /\ Same({"settings", "config", "tray"})
      BY <2>1 DEF Same
    <3> QED  BY <3>1, ByDoc, ByTray DEF Same, Disk!Present
  <2>3. ~lost /\ file'["profiles"] # Disk!Torn => Disk!FoundProf' \in kept.prof
    <3>1. CASE ops' = <<>>
      BY <1>4, <2>1, <3>1, GoodIs DEF Disk!FoundProf, Disk!Present, Chosen
    <3>2. CASE ops' # <<>> /\ file'["profiles"] # Disk!Torn
      <4>1. Len(ops) > 2
        <5>1. Len(ops) # 2 /\ Len(ops) # 1
          BY <1>1, <2>1, <3>2 DEF Drop
        <5> QED  BY <1>1, <5>1
      <4>2. Same({"profiles", "config"})
        BY <2>1, <4>1 DEF Same
      <4> QED  BY <2>1, <4>1, <4>2, ByProf DEF Found
    <3> QED  BY <3>1, <3>2
  <2>4. faults = 0 => Disk!Present("settings")' /\ (ops' = <<>> => Disk!Present("profiles")')
    <3>1. Len(ops) < n + 4
      BY <1>1, <1>9
    <3> QED  BY <1>4, <2>1, <2>2, <3>1, GoodIs DEF Disk!Present
  <2>5. Same({"config", "panel"})
    BY <2>1 DEF Same
  <2> QED  BY <1>4, <2>1, <2>2, <2>3, <2>4, <2>5 DEF Found
<1>10. CASE Len(ops) > n
  <2>1. /\ FilesOK' /\ Same({"config", "profiles", "profiles.bak", "panel"})
        /\ Saves(m, c, n)' /\ Len(ops) \in (n + 1)..(n + 4)
        /\ file'["settings"] = IF Len(ops) = n + 4 THEN Disk!Settings(m.doc, "none") ELSE file["settings"]
        /\ file'["tray"] = IF Len(ops) = n + 3 THEN Disk!Good(m.tray) ELSE file["tray"]
    <3>1. n \in {0, 2, 4}
      OBVIOUS
    <3> QED  BY <1>4, <1>5, <1>10, <3>1, StepSettings
  <2>2. ops' # <<>> /\ Len(ops) > 2 /\ Len(ops') >= 2
    BY <1>1, <1>10
  <2>3. ProfilesSoFar(m, c, n)' /\ Disk!ProfilesHaveCopy'
    <3>1. file'["profiles"] = file["profiles"] /\ file'["profiles.bak"] = file["profiles.bak"]
      BY <2>1 DEF Same
    <3>2. kept'.prof = kept.prof
      BY <1>1, StepKeeps
    <3>3. Disk!ProfilesHaveCopy'
      BY <1>2, <3>1, <3>2 DEF Disk!ProfilesHaveCopy, Disk!Readable
    <3>4. file["profiles"] = c
      BY <1>4, <2>2 DEF ProfilesSoFar
    <3>5. ProfilesSoFar(m, c, n)'
      <4>1. Len(ops') \in 1..2 => n = 2
        <5>1. PICK l \in Nat : l = Len(ops)
          BY <1>1
        <5>2. Len(ops') = l - 1 /\ l > n /\ n \in {2, 4}
          BY <1>1, <1>10, <5>1
        <5>3. l - 1 \in 1..2 => n = 2
          BY <5>2
        <5> QED  BY <5>2, <5>3
      <4>2. Len(ops') \in 1..2 => c.is # "good"
        BY <1>4, <4>1, GoodIs DEF ProfilesSoFar
      <4> QED  BY <1>2, <1>4, <2>2, <3>1, <3>2, <3>4, <4>2 DEF ProfilesSoFar
    <3> QED  BY <3>3, <3>5
  <2>4. ~lost /\ file'["profiles"] # Disk!Torn => Disk!FoundProf' \in kept.prof
    <3>1. Same({"profiles", "config"}) /\ file'["profiles"] = file["profiles"]
      BY <2>1 DEF Same
    <3> QED  BY <3>1, ByProf DEF Found
  <2>5. ~lost \/ faults = 0 => Sound'
    BY <1>4, <2>1, GoodIs DEF Sound, Disk!Readable
  <2>6. ~lost => Disk!FoundDoc' \in kept.doc
    <3>1. CASE Len(ops) = n + 4
      BY <1>4, <2>1, <3>1, GoodIs DEF Disk!FoundDoc, Disk!Present, Chosen
    <3>2. CASE Len(ops) # n + 4
      <4>1. Same({"settings", "config"})
        BY <2>1, <3>2 DEF Same
      <4> QED  BY <4>1, ByDoc DEF Found
    <3> QED  BY <3>1, <3>2
  <2>7. ~lost => Disk!FoundTray' \in kept.tray
    <3>1. CASE Len(ops) = n + 3
      BY <1>4, <2>1, <3>1, GoodIs DEF Disk!FoundTray, Disk!Readable, Chosen
    <3>2. CASE Len(ops) = n + 4
      <4>1. /\ file'["settings"].is = "good" /\ file'["settings"].v.keys = "none"
            /\ file'["tray"] = file["tray"] /\ file'["config"] = file["config"]
        <5>1. n + 4 # n + 3
          OBVIOUS
        <5> QED  BY <2>1, <3>2, <5>1, GoodIs DEF Same
      <4>2. ~lost => Disk!FoundTray' = Disk!FoundTray
        BY <1>4, <4>1 DEF Disk!FoundTray, Sound, Disk!Readable
      <4> QED  BY <4>2 DEF Found
    <3>3. CASE Len(ops) # n + 4 /\ Len(ops) # n + 3
      <4>1. Same({"settings", "config", "tray"})
        BY <2>1, <3>3 DEF Same
      <4> QED  BY <4>1, ByTray DEF Found
    <3> QED  BY <3>1, <3>2, <3>3
  <2>8. faults = 0 => Disk!Present("settings")'
    <3>1. Len(ops) # n + 4 => Len(ops) < n + 4
      BY <2>1
    <3> QED  BY <1>4, <2>1, <3>1, GoodIs DEF Disk!Present
  <2>9. Same({"config", "panel"})
    BY <2>1 DEF Same
  <2> QED  BY <2>1, <2>2, <2>3, <2>4, <2>5, <2>6, <2>7, <2>8, <2>9
<1> QED  BY <1>1, <1>9, <1>10

\* The operations of a save of what the user changed, or of a panel.json moved aside.
LEMMA StepRuns ==
  ASSUME ConfigInv, Disk!Step, at = "runs"  PROVE ConfigInv'
<1> USE DEF ConfigInv
<1>1. /\ ops # <<>> /\ Drop(1) /\ ops \in Seq(Operation) /\ FilesOK /\ mem \in Memory
      /\ Len(ops) \in Nat \ {0} /\ Len(ops') = Len(ops) - 1 /\ (ops' = <<>> <=> Len(ops) = 1)
  <2>1. ops # <<>> /\ Drop(1) /\ ops \in Seq(Operation) /\ FilesOK /\ mem \in Memory
    BY StepDrops DEF Types
  <2> QED  BY <2>1, OpsAre DEF Drop
<1>2. /\ at' = at /\ UNCHANGED <<mem, found, passes, broken, faults, saving, lost, based, settled>>
  BY DEF Disk!Step, Disk!counters
<1>3. /\ mem.doc \in Values /\ mem.tray \in Disk!TrayChoices /\ mem.prof \in Values /\ mem.panel \in Values
  BY <1>1, MemoryIs
<1>4. /\ kept'.doc = IF ops' = <<>> /\ ~broken /\ "doc" \in saving THEN {mem.doc} ELSE kept.doc
      /\ kept'.tray = IF ops' = <<>> /\ ~broken /\ "tray" \in saving THEN {Disk!WithTray(mem.tray)} ELSE kept.tray
      /\ kept'.prof = IF ops' = <<>> /\ ~broken /\ "prof" \in saving THEN {mem.prof} ELSE kept.prof
      /\ kept'.panel = IF ops' = <<>> /\ ~broken /\ "panel" \in saving THEN {mem.panel} ELSE kept.panel
  BY KeptStep
<1>5. ~lost => /\ Sound /\ Found
               /\ mem.doc \in kept'.doc /\ Disk!WithTray(mem.tray) \in kept'.tray
               /\ mem.prof \in kept'.prof /\ mem.panel \in kept'.panel
  BY <1>4 DEF Running, Chosen
<1>6. SUFFICES /\ FilesOK' /\ Disk!ProfilesHaveCopy' /\ Saving'
               /\ ~lost => Sound' /\ Found'
               /\ settled => Idle'
  <2>1. Types' /\ Phases'
    BY <1>6, StepTypes, StepPhases
  <2>2. Running'
    BY <1>2, <1>5, <1>6 DEF Running, Chosen
  <2>3. SettingsFirst'
    BY <1>2, <1>6 DEF SettingsFirst, Running, Idle
  <2>4. WhenSettled'
    BY <1>2, <1>6 DEF WhenSettled
  <2>5. AtMigrate' /\ AtReload' /\ AtRead' /\ Converting' /\ AtPanel'
    BY <1>2 DEF AtMigrate, AtReload, AtRead, Converting, AtPanel
  <2> QED  BY <1>2, <1>6, <2>1, <2>2, <2>3, <2>4, <2>5
<1>7. CASE /\ saving = {} /\ Len(ops) = 1 /\ Moves(ops[1], "panel", "panel.corrupt") /\ file["panel"] = Disk!Torn
  <2>1. /\ file'["panel"] = Disk!Absent /\ file'["panel.corrupt"] = Disk!Torn
        /\ \A h \in Disk!Files \ {"panel", "panel.corrupt"} : file'[h] = file[h]
        /\ file' = [h \in Disk!Files |-> file'[h]]
    BY <1>7, Moved DEF Disk!Files
  <2>2. FilesOK'
    BY <1>1, <2>1, FilesMoved DEF Beside
  <2>3. Same({"settings", "tray", "config", "profiles", "profiles.bak"})
    BY <2>1 DEF Same, Disk!Files
  <2>4. /\ Disk!FoundDoc' = Disk!FoundDoc /\ Disk!FoundTray' = Disk!FoundTray /\ (Sound' <=> Sound) /\ Disk!FoundProf' = Disk!FoundProf
        /\ (Idle' <=> Idle) /\ file'["profiles"] = file["profiles"] /\ file'["profiles.bak"] = file["profiles.bak"]
    <3>1. /\ Same({"settings", "config"}) /\ Same({"settings", "config", "tray"}) /\ Same({"profiles", "config"})
          /\ Same({"settings", "config", "tray", "profiles"})
      BY <2>3 DEF Same
    <3> QED  BY <2>3, <3>1, ByDoc, ByTray, ByProf, ByIdle DEF Same
  <2>5. Disk!FoundPanel' = Disk!FoundPanel
    BY <1>7, <2>1, GoodIs DEF Disk!FoundPanel, Disk!Readable
  <2>6. kept'.doc = kept.doc /\ kept'.tray = kept.tray /\ kept'.prof = kept.prof /\ kept'.panel = kept.panel
    BY <1>4, <1>7
  <2>7. Disk!ProfilesHaveCopy'
    BY <1>2, <2>4, <2>6 DEF Disk!ProfilesHaveCopy, Disk!Readable
  <2>8. Saving'
    BY <1>1, <1>7 DEF Saving
  <2> QED  BY <1>5, <2>2, <2>4, <2>5, <2>6, <2>7, <2>8 DEF Found, WhenSettled
<1>8. CASE /\ saving = {"doc", "tray"} /\ Saves(mem, Disk!Absent, 0)
           /\ ~broken /\ Len(ops) < 4 => file["settings"] = Disk!Settings(mem.doc, "none")
           /\ ~broken /\ Len(ops) < 3 => file["tray"] = Disk!Good(mem.tray)
  <2>1. /\ FilesOK' /\ Same({"config", "profiles", "profiles.bak", "panel"})
        /\ Saves(mem, Disk!Absent, 0)' /\ Len(ops) \in 1..4
        /\ file'["settings"] = IF Len(ops) = 4 THEN Disk!Settings(mem.doc, "none") ELSE file["settings"]
        /\ file'["tray"] = IF Len(ops) = 3 THEN Disk!Good(mem.tray) ELSE file["tray"]
    <3>1. Len(ops) > 0 /\ 0 \in {0, 2, 4} /\ 0 + 1 = 1 /\ 0 + 4 = 4 /\ 0 + 3 = 3
      BY <1>1
    <3> QED  BY <1>2, <1>3, <1>8, <3>1, StepSettings
  <2>2. /\ file'["config"] = file["config"] /\ file'["profiles"] = file["profiles"]
        /\ file'["profiles.bak"] = file["profiles.bak"] /\ file'["panel"] = file["panel"]
    BY <2>1 DEF Same
  <2>3. kept'.prof = kept.prof /\ kept'.panel = kept.panel
    BY <1>4, <1>8
  <2>4. Disk!FoundProf' = Disk!FoundProf /\ Disk!FoundPanel' = Disk!FoundPanel
    BY <2>2 DEF Disk!FoundProf, Disk!FoundPanel, Disk!Present, Disk!Readable
  <2>5. Disk!ProfilesHaveCopy'
    BY <1>2, <2>2, <2>3 DEF Disk!ProfilesHaveCopy, Disk!Readable
  <2>6. Sound => Sound'
    BY <2>1, GoodIs DEF Sound, Disk!Readable
  <2>7. Disk!Present("settings") => Disk!Present("settings")'
    BY <2>1, GoodIs DEF Disk!Present
  <2>8. settled => Idle'
    BY <2>2, <2>6, <2>7 DEF WhenSettled, Idle, Disk!Present, Disk!Readable
  <2>9. Saving'
    <3>1. /\ ~broken /\ Len(ops') < 4 => file'["settings"] = Disk!Settings(mem.doc, "none")
          /\ ~broken /\ Len(ops') < 3 => file'["tray"] = Disk!Good(mem.tray)
      BY <1>1, <1>8, <2>1
    <3> QED  BY <1>2, <1>8, <2>1, <3>1 DEF Saving
  <2>10. ~lost => Disk!FoundDoc' \in kept'.doc
    <3>1. CASE Len(ops) = 4
      BY <1>5, <2>1, <3>1, GoodIs DEF Disk!FoundDoc, Disk!Present
    <3>2. CASE Len(ops) # 4
      <4>1. Disk!FoundDoc' = Disk!FoundDoc
        BY <2>1, <2>2, <3>2 DEF Disk!FoundDoc, Disk!Present, Disk!Readable
      <4>2. CASE ops' = <<>> /\ ~broken
        <5>1. file'["settings"] = Disk!Settings(mem.doc, "none")
          <6>1. Len(ops) = 1
            BY <1>1, <4>2
          <6>2. Len(ops) < 4
            BY <6>1
          <6> QED  BY <1>8, <2>1, <3>2, <4>2, <6>2
        <5> QED  BY <1>5, <5>1, GoodIs DEF Disk!FoundDoc, Disk!Present
      <4>3. CASE ~(ops' = <<>> /\ ~broken)
        BY <1>4, <1>5, <4>1, <4>3 DEF Found
      <4> QED  BY <4>2, <4>3
    <3> QED  BY <3>1, <3>2
  <2>11. ~lost => Disk!FoundTray' \in kept'.tray
    <3>1. CASE Len(ops) = 3
      BY <1>5, <2>1, <3>1, GoodIs DEF Disk!FoundTray, Disk!Readable
    <3>2. CASE Len(ops) = 4
      <4>1. file'["settings"].is = "good" /\ file'["settings"].v.keys = "none" /\ file'["tray"] = file["tray"]
        BY <2>1, <3>2, GoodIs
      <4>2. ~lost => Disk!FoundTray' = Disk!FoundTray
        BY <1>5, <2>2, <4>1 DEF Disk!FoundTray, Sound, Disk!Readable
      <4>3. ops' # <<>>
        BY <1>1, <3>2
      <4> QED  BY <1>4, <1>5, <4>2, <4>3 DEF Found
    <3>3. CASE Len(ops) \in 1..2
      <4>1. Disk!FoundTray' = Disk!FoundTray
        BY <2>1, <2>2, <3>3 DEF Disk!FoundTray, Disk!Present, Disk!Readable
      <4>2. CASE ops' = <<>> /\ ~broken
        <5>1. file'["tray"] = Disk!Good(mem.tray)
          <6>1. Len(ops) = 1
            BY <1>1, <4>2
          <6>2. Len(ops) < 3 /\ Len(ops) # 3
            BY <6>1
          <6> QED  BY <1>8, <2>1, <4>2, <6>2
        <5> QED  BY <1>5, <5>1, GoodIs DEF Disk!FoundTray, Disk!Readable
      <4>3. CASE ~(ops' = <<>> /\ ~broken)
        BY <1>4, <1>5, <4>1, <4>3 DEF Found
      <4> QED  BY <4>2, <4>3
    <3> QED  BY <2>1, <3>1, <3>2, <3>3
  <2> QED  BY <1>5, <2>1, <2>2, <2>3, <2>4, <2>5, <2>6, <2>8, <2>9, <2>10, <2>11 DEF Found
<1>9. CASE saving = {"tray"} /\ Len(ops) = 1 /\ Does(ops[1], "tray", Disk!Good(mem.tray), 0) /\ ~ops[1].logged
  <2>1. Only("tray", Disk!Good(mem.tray)) /\ file' = [g \in Disk!Files |-> file'[g]]
    BY <1>9, Done DEF Disk!Files
  <2>2. FilesOK'
    BY <1>1, <1>3, <2>1, FilesSet, InAny DEF Disk!Files
  <2>3. file'["tray"] = Disk!Good(mem.tray) /\ Same({"settings", "config", "profiles", "profiles.bak", "panel"})
    BY <2>1 DEF Only, Same, Disk!Files
  <2>4. /\ Disk!FoundDoc' = Disk!FoundDoc /\ Disk!FoundProf' = Disk!FoundProf /\ Disk!FoundPanel' = Disk!FoundPanel
        /\ Disk!FoundTray' = Disk!WithTray(mem.tray) /\ Sound'
        /\ file'["profiles"] = file["profiles"] /\ file'["profiles.bak"] = file["profiles.bak"]
    <3>1. /\ Same({"settings", "config"}) /\ Same({"panel"}) /\ Same({"profiles", "config"})
      BY <2>3 DEF Same
    <3> QED  BY <2>3, <3>1, ByDoc, ByPanel, ByProf, GoodIs DEF Same, Disk!FoundTray, Disk!Readable, Sound
  <2>5. kept'.doc = kept.doc /\ kept'.prof = kept.prof /\ kept'.panel = kept.panel
    BY <1>4, <1>9
  <2>6. Disk!ProfilesHaveCopy'
    BY <1>2, <2>4, <2>5 DEF Disk!ProfilesHaveCopy, Disk!Readable
  <2>7. Saving'
    BY <1>1, <1>9 DEF Saving
  <2>8. settled => Idle'
    BY <2>3, <2>4 DEF WhenSettled, Idle, Disk!Present, Disk!Readable, Same
  <2> QED  BY <1>5, <2>2, <2>4, <2>5, <2>6, <2>7, <2>8 DEF Found
<1>10. CASE saving = {"prof"} /\ \E c \in Contents, n \in {2, 4} :
              Len(ops) <= n /\ Saves(mem, c, n) /\ ProfilesSoFar(mem, c, n)
  <2>1. PICK c \in Contents, n \in {2, 4} : Len(ops) <= n /\ Saves(mem, c, n) /\ ProfilesSoFar(mem, c, n)
    BY <1>10
  <2>2. /\ FilesOK' /\ Same({"settings", "tray", "config", "panel"})
        /\ Saves(mem, c, n)' /\ (ops' # <<>> => ProfilesSoFar(mem, c, n)') /\ Disk!ProfilesHaveCopy'
        /\ ops' = <<>> => file'["profiles"] = Disk!Good(mem.prof)
        /\ Len(ops) > 2 => file'["profiles"] = file["profiles"]
        /\ Len(ops) = 2 => file'["profiles"] = Disk!Torn
    BY <1>2, <1>3, <2>1, StepProfiles
  <2>3. /\ Disk!FoundDoc' = Disk!FoundDoc /\ Disk!FoundTray' = Disk!FoundTray /\ (Sound' <=> Sound) /\ Disk!FoundPanel' = Disk!FoundPanel
    <3>1. Same({"settings", "config"}) /\ Same({"settings", "config", "tray"}) /\ Same({"panel"})
      BY <2>2 DEF Same
    <3> QED  BY <3>1, ByDoc, ByTray, ByPanel
  <2>4. kept'.doc = kept.doc /\ kept'.tray = kept.tray /\ kept'.panel = kept.panel
    BY <1>4, <1>10
  <2>5. Len(ops) = 1 \/ Len(ops) = 2 \/ Len(ops) > 2
    BY <1>1
  <2>6. ~lost /\ file'["profiles"] # Disk!Torn => Disk!FoundProf' \in kept'.prof
    <3>1. CASE Len(ops) = 1
      <4>1. file'["profiles"] = Disk!Good(mem.prof)
        BY <1>1, <2>2, <3>1
      <4> QED  BY <1>5, <4>1, GoodIs DEF Disk!FoundProf, Disk!Present
    <3>2. CASE Len(ops) > 2 /\ file'["profiles"] # Disk!Torn
      <4>1. Same({"profiles", "config"}) /\ file'["profiles"] = file["profiles"]
        BY <2>2, <3>2 DEF Same
      <4>2. ops' # <<>>
        BY <1>1, <3>2
      <4> QED  BY <1>4, <1>5, <4>1, <4>2, ByProf DEF Found
    <3> QED  BY <2>2, <2>5, <3>1, <3>2
  <2>7. Disk!Present("profiles") => Disk!Present("profiles")'
    <3>1. CASE Len(ops) = 1
      BY <1>1, <2>2, <3>1, GoodIs DEF Disk!Present
    <3>2. CASE Len(ops) = 2
      BY <2>2, <3>2, GoodIs DEF Disk!Present
    <3>3. CASE Len(ops) > 2
      BY <2>2, <3>3 DEF Disk!Present
    <3> QED  BY <2>5, <3>1, <3>2, <3>3
  <2>8. settled => Idle'
    BY <2>2, <2>3, <2>7 DEF WhenSettled, Idle, Same, Disk!Present, Disk!Readable
  <2>9. Saving'
    <3>1. Len(ops') <= n
      BY <1>1, <2>1
    <3> QED  BY <1>2, <1>10, <2>2, <3>1 DEF Saving
  <2> QED  BY <1>5, <2>2, <2>3, <2>4, <2>6, <2>8, <2>9 DEF Found
<1>11. CASE saving = {"panel"} /\ Len(ops) = 1 /\ Does(ops[1], "panel", Disk!Good(mem.panel), 0) /\ ~ops[1].logged
  <2>1. Only("panel", Disk!Good(mem.panel)) /\ file' = [g \in Disk!Files |-> file'[g]]
    BY <1>11, Done DEF Disk!Files
  <2>2. FilesOK'
    BY <1>1, <1>3, <2>1, FilesSet, InAny DEF Disk!Files
  <2>3. file'["panel"] = Disk!Good(mem.panel) /\ Same({"settings", "config", "profiles", "profiles.bak", "tray"})
    BY <2>1 DEF Only, Same, Disk!Files
  <2>4. /\ Disk!FoundDoc' = Disk!FoundDoc /\ Disk!FoundTray' = Disk!FoundTray /\ (Sound' <=> Sound) /\ Disk!FoundProf' = Disk!FoundProf
        /\ (Idle' <=> Idle) /\ file'["profiles"] = file["profiles"] /\ file'["profiles.bak"] = file["profiles.bak"]
    <3>1. /\ Same({"settings", "config"}) /\ Same({"settings", "config", "tray"}) /\ Same({"profiles", "config"})
          /\ Same({"settings", "config", "tray", "profiles"})
      BY <2>3 DEF Same
    <3> QED  BY <2>3, <3>1, ByDoc, ByTray, ByProf, ByIdle DEF Same
  <2>5. Disk!FoundPanel' = mem.panel
    BY <2>3, GoodIs DEF Disk!FoundPanel, Disk!Readable
  <2>6. kept'.doc = kept.doc /\ kept'.tray = kept.tray /\ kept'.prof = kept.prof
    BY <1>4, <1>11
  <2>7. Disk!ProfilesHaveCopy'
    BY <1>2, <2>4, <2>6 DEF Disk!ProfilesHaveCopy, Disk!Readable
  <2>8. Saving'
    BY <1>1, <1>11 DEF Saving
  <2> QED  BY <1>5, <2>2, <2>4, <2>5, <2>6, <2>7, <2>8 DEF Found, WhenSettled
<1> QED  BY <1>1, <1>7, <1>8, <1>9, <1>10, <1>11 DEF Saving

LEMMA StepKeepsInv ==
  ASSUME ConfigInv, Disk!Step  PROVE ConfigInv'
<1>1. at \in {"tray", "migrate", "reload", "panel", "runs"}
  BY StepDrops DEF ConfigInv, Types, Phases, Disk!Step
<1> QED  BY <1>1, StepMigrate, StepReload, StepConvert, StepRuns

-----------------------------------------------------------------------------
(* An operation fails.                                                      *)

LEMMA OneFails ==
  ASSUME Types, Disk!Fails, Len(ops) = 1  PROVE ops' = <<>> /\ (~ops[1].logged => broken')
<1>1. ops[1].skip \in 0..3 /\ Head(ops) = ops[1]
  BY FailsDrops, OpsAre DEF Types
<1>2. ~(Len(ops) > ops[1].skip + 1)
  BY <1>1
<1> QED  BY <1>1, <1>2, FailsDrops DEF Disk!Fails

\* The rest of a save of settings, or of one of profiles, is left out.
LEMMA SavesFail ==
  ASSUME Types, Disk!Fails, NEW m, NEW c, NEW n \in {0, 2, 4}, Saves(m, c, n)
  PROVE  /\ Len(ops) <= n \/ n = 0 => ops' = <<>>
         /\ Len(ops) > n /\ n # 0 => Saves(m, c, n)' /\ Len(ops') = n /\ ops' # <<>>
<1>1. ops # <<>> /\ ops \in Seq(Operation) /\ ops[1].skip \in 0..3 /\ Len(ops) \in Nat \ {0} /\ 1 \in 1..Len(ops)
  <2>1. ops # <<>> /\ ops \in Seq(Operation)
    BY FailsDrops DEF Types
  <2> QED  BY <2>1, OpsAre
<1>2. PICK l \in 1..(n + 4) : l = Len(ops)
  BY <1>1 DEF Saves
<1>3. IF l - 1 < n THEN ProfilesOp(l - 1, ops[1], m, c) ELSE SettingsOp(l - 1 - n, ops[1], m)
  BY <1>1, <1>2 DEF Saves
<1>4. CASE l <= n
  <2>1. ProfilesOp(l - 1, ops[1], m, c) /\ l \in 1..4
    BY <1>3, <1>4
  <2>2. ops[1].skip = l - 1
    <3>1. l = 1 \/ l = 2 \/ l = 3 \/ l = 4
      BY <2>1
    <3> QED  BY <2>1, <3>1 DEF ProfilesOp, Does
  <2>3. ~(Len(ops) > ops[1].skip + 1)
    BY <1>2, <2>2
  <2> QED  BY <1>2, <1>4, <2>3, FailsDrops
<1>5. CASE l > n
  <2>1. SettingsOp(l - 1 - n, ops[1], m) /\ l - 1 - n \in 0..3
    BY <1>3, <1>5
  <2>2. ops[1].skip = l - 1 - n
    <3>1. l - 1 - n = 0 \/ l - 1 - n = 1 \/ l - 1 - n = 2 \/ l - 1 - n = 3
      BY <2>1
    <3> QED  BY <2>1, <3>1 DEF SettingsOp, Does
  <2>3. CASE n = 0
    <3>1. ~(Len(ops) > ops[1].skip + 1)
      BY <1>2, <2>2, <2>3
    <3> QED  BY <1>2, <1>5, <2>3, <3>1, FailsDrops
  <2>4. CASE n # 0
    <3>1. Len(ops) > ops[1].skip + 1 /\ ops[1].skip + 1 = l - n
      BY <1>2, <2>2, <2>4
    <3>2. Drop(l - n)
      BY <3>1, FailsDrops
    <3>3. l - n \in 1..4 /\ n \in Nat
      BY <1>2, <1>5
    <3>4. Saves(m, c, n)'
      BY <1>1, <3>2, <3>3, SavesDrop
    <3>5. Len(ops') = n /\ ops' # <<>>
      BY <1>2, <2>4, <3>2 DEF Drop
    <3> QED  BY <1>2, <1>5, <3>4, <3>5
  <2> QED  BY <2>3, <2>4
<1> QED  BY <1>4, <1>5

LEMMA FailsKeepsInv ==
  ASSUME DiskBounds, ConfigInv, Disk!Fails  PROVE ConfigInv'
<1> USE DEF ConfigInv
<1>1. /\ ops # <<>> /\ ops \in Seq(Operation) /\ Len(ops) \in Nat \ {0} /\ 1 \in 1..Len(ops) /\ Head(ops) = ops[1]
      /\ ops[1].skip \in 0..3 /\ ops[1].logged \in BOOLEAN
  <2>1. ops # <<>> /\ ops \in Seq(Operation)
    BY FailsDrops DEF Types
  <2> QED  BY <2>1, OpsAre
<1>2. UNCHANGED <<file, at, mem, found, passes, changes, crashes, saving, kept, lost, based, settled>>
  BY DEF Disk!Fails, Disk!history
<1>3. faults' \in 1..MaxBreaks /\ faults' # 0 /\ broken' = (broken \/ ~ops[1].logged)
  BY <1>1 DEF Disk!Fails, Types, DiskBounds
<1>4. ops' \in Seq(Operation)
  <2>1. CASE Len(ops) > ops[1].skip + 1
    BY <2>1, FailsDrops DEF Drop
  <2>2. CASE ~(Len(ops) > ops[1].skip + 1)
    <3>1. ops' = <<>> /\ <<>> \in Seq(Operation)
      BY <2>2, FailsDrops
    <3> QED  BY <3>1
  <2> QED  BY <2>1, <2>2
<1>5. Types'
  BY <1>2, <1>3, <1>4 DEF Types, FilesOK
<1>6. Phases'
  BY <1>1, <1>2, <1>3 DEF Phases
<1>7. AtMigrate'
  <2>1. at = "migrate" => ops' = <<>> /\ broken'
    BY <1>1, OneFails DEF AtMigrate
  <2> QED  BY <1>2, <2>1 DEF AtMigrate, InTray, Disk!Readable
<1>8. AtReload'
  <2> SUFFICES ASSUME at = "reload"  PROVE AtReload'
    BY <1>2 DEF AtReload
  <2>1. PICK n \in {2, 4} :
          /\ Migrates(n) /\ Disk!Readable("settings") /\ found = file["settings"].v.keys
          /\ file["tray"] = IF Len(ops) = n THEN Disk!Absent ELSE Disk!Good(found)
    BY <1>1 DEF AtReload
  <2>2. PICK l \in 1..n : l = Len(ops)
    BY <1>1, <2>1 DEF Migrates
  <2>3. MigrationOp(l - 1, ops[1], n)
    BY <1>1, <2>1, <2>2 DEF Migrates
  <2>4. CASE l = n
    <3>1. ops[1].skip = 3 /\ ~ops[1].logged
      BY <2>3, <2>4 DEF MigrationOp, Does
    <3>2. ~(Len(ops) > ops[1].skip + 1)
      BY <2>2, <3>1
    <3> QED  BY <1>3, <3>1, <3>2, FailsDrops DEF AtReload
  <2>5. CASE l = 1
    <3>1. ~ops[1].logged /\ ops' = <<>>
      BY <2>2, <2>3, <2>5, OneFails DEF MigrationOp
    <3> QED  BY <1>3, <3>1 DEF AtReload
  <2>6. CASE l # n /\ l # 1
    <3>1. l - 1 \in 1..(n - 2) /\ (l - 1 = 1 <=> l = 2)
      BY <2>6
    <3>2. ops[1].skip <= 1 /\ (l = 2 => ops[1].skip = 0)
      BY <2>3, <3>1 DEF MigrationOp
    <3>3. PICK d \in 1..4 : d = ops[1].skip + 1
      BY <1>1
    <3>4. l > d /\ Drop(d)
      <4>1. Len(ops) > ops[1].skip + 1
        BY <1>1, <2>2, <2>6, <3>2
      <4> QED  BY <2>2, <3>3, <4>1, FailsDrops
    <3>5. Migrates(n)'
      <4>1. n \in Nat
        OBVIOUS
      <4> QED  BY <1>1, <1>2, <2>1, <3>4, <4>1, MigratesDrop
    <3>6. ops' # <<>> /\ Len(ops') # n
      BY <2>2, <3>4 DEF Drop
    <3>7. file["tray"] = Disk!Good(found)
      BY <2>1, <2>2, <2>6
    <3> QED  BY <1>2, <2>1, <3>5, <3>6, <3>7 DEF AtReload, Disk!Readable
  <2> QED  BY <2>4, <2>5, <2>6
<1>9. AtRead' /\ AtPanel' /\ SettingsFirst' /\ Running'
  <2>1. /\ (Sound' <=> Sound) /\ (Chosen(mem)' <=> Chosen(mem)) /\ at # "read"
    BY <1>1, <1>2 DEF Sound, Chosen, Phases, Disk!Readable
  <2> QED  BY <1>2, <1>3, <2>1 DEF AtRead, AtPanel, SettingsFirst, Running
<1>10. Converting'
  <2> SUFFICES ASSUME at \in {"tray", "panel"}, ops' # <<>>  PROVE Converting'
    BY <1>2 DEF Converting
  <2>1. PICK m \in Old, c \in Contents, n \in {2, 4} :
         /\ Saves(m, c, n) /\ ProfilesSoFar(m, c, n)
         /\ ~lost => Chosen(m)
         /\ ~lost \/ faults = 0 => Sound
    BY <1>1 DEF Converting
  <2>2. Len(ops) > n /\ Saves(m, c, n)' /\ Len(ops') = n
    <3>1. n \in {0, 2, 4} /\ n # 0
      OBVIOUS
    <3>2. ~(Len(ops) <= n)
      BY <2>1, <3>1, SavesFail
    <3>3. Len(ops) > n
      BY <1>1, <3>2
    <3> QED  BY <2>1, <3>1, <3>3, SavesFail
  <2>3. ProfilesSoFar(m, c, n)'
    <3>1. Len(ops) >= 2 /\ (Len(ops') \in 1..2 => n = 2)
      BY <1>1, <2>2
    <3>2. n = 2 => c.is # "good"
      BY <2>1, GoodIs DEF ProfilesSoFar
    <3> QED  BY <1>2, <2>1, <3>1, <3>2 DEF ProfilesSoFar
  <2>4. /\ Disk!Readable("config")' /\ (~lost' => Chosen(m)') /\ (~lost' => Sound')
    BY <1>1, <1>2, <2>1 DEF Converting, Disk!Readable, Chosen, Sound
  <2> QED  BY <1>2, <1>3, <2>2, <2>3, <2>4 DEF Converting
<1>11. Saving'
  <2> SUFFICES ASSUME at = "runs"  PROVE ops' = <<>>
    BY <1>2 DEF Saving
  <2>1. CASE Len(ops) = 1
    BY <2>1, OneFails
  <2>2. CASE Saves(mem, Disk!Absent, 0)
    BY <2>2, SavesFail
  <2>3. ASSUME NEW c \in Contents, NEW n \in {2, 4}, Len(ops) <= n, Saves(mem, c, n)
        PROVE  ops' = <<>>
    <3>1. n \in {0, 2, 4}
      OBVIOUS
    <3> QED  BY <2>3, <3>1, SavesFail
  <2> QED  BY <1>1, <2>1, <2>2, <2>3 DEF Saving
<1>12. WhenSettled'
  <2>1. Idle' <=> Idle
    BY <1>2 DEF Idle, Sound, Disk!Present, Disk!Readable
  <2> QED  BY <1>1, <1>2, <2>1 DEF WhenSettled
<1>13. (~lost' => Found') /\ Disk!ProfilesHaveCopy'
  BY <1>2 DEF Found, Disk!FoundDoc, Disk!FoundTray, Disk!FoundPanel, Disk!FoundProf, Disk!ProfilesHaveCopy, Disk!Readable, Disk!Present
<1> QED  BY <1>5, <1>6, <1>7, <1>8, <1>9, <1>10, <1>11, <1>12, <1>13

-----------------------------------------------------------------------------
(* What is to be done.                                                      *)

LEMMA OpIs ==
  ASSUME NEW f \in Disk!Files, NEW c \in Written, NEW skip \in 0..3
  PROVE  LET o == Disk!Op(Disk!One(f, c), skip) IN o \in Operation /\ Does(o, f, c, skip) /\ ~o.logged
<1>1. Disk!One(f, c) \in [{f} -> Written] /\ {f} \in SUBSET Disk!Files
  BY DEF Disk!One
<1>2. Disk!One(f, c) \in UNION {[F -> Written] : F \in SUBSET Disk!Files}
  BY <1>1
<1> QED  BY <1>2 DEF Disk!Op, Does, Operation

LEMMA AsideIs ==
  ASSUME FilesOK, NEW f \in Disk!Files, NEW g \in Disk!Files, f # g, file[f] = Disk!Torn
  PROVE  Disk!Aside(f, g) \in Operation /\ Moves(Disk!Aside(f, g), f, g) /\ ~Disk!Aside(f, g).logged
<1> DEFINE sets == [h \in {f, g} |-> IF h = g THEN file[f] ELSE Disk!Absent]
<1>1. sets \in [{f, g} -> Written] /\ {f, g} \in SUBSET Disk!Files
  BY InAny
<1>2. sets \in UNION {[F -> Written] : F \in SUBSET Disk!Files}
  BY <1>1
<1>3. sets = [h \in {f, g} |-> IF h = g THEN Disk!Torn ELSE Disk!Absent]
  OBVIOUS
<1> QED  BY <1>2, <1>3 DEF Disk!Aside, Disk!Op, Moves, Operation

LEMMA Joined ==
  ASSUME NEW S, NEW s \in Seq(S), NEW t \in Seq(S), NEW l \in Nat, NEW k \in Nat, l = Len(s), k = Len(t)
  PROVE  /\ s \o t \in Seq(S) /\ Len(s \o t) = l + k
         /\ \A i \in 1..l : (s \o t)[i] = s[i]
         /\ \A i \in 1..k : (s \o t)[i + l] = t[i]
BY ConcatProperties

LEMMA Listed ==
  ASSUME NEW S, NEW s \in Seq(S)
  PROVE  /\ Len(s) = 2 => s = <<s[1], s[2]>>
         /\ Len(s) = 3 => s = <<s[1], s[2], s[3]>>
         /\ Len(s) = 4 => s = <<s[1], s[2], s[3], s[4]>>
OBVIOUS

LEMMA OneOne ==
  ASSUME NEW a, NEW b
  PROVE  <<a>> \o <<b>> = <<a, b>>
<1>1. PICK S : S = {a, b}
  OBVIOUS
<1>2. <<a>> \in Seq(S) /\ <<b>> \in Seq(S)
  BY <1>1
<1>3. PICK s : s = <<a>> \o <<b>>
  OBVIOUS
<1>4. Len(<<a>>) = 1 /\ Len(<<b>>) = 1 /\ 1 + 1 = 2 /\ {1, 1} \subseteq Nat
  OBVIOUS
<1>5. /\ s \in Seq(S) /\ Len(s) = 1 + 1
      /\ \A i \in 1..1 : s[i] = <<a>>[i]
      /\ \A i \in 1..1 : s[i + 1] = <<b>>[i]
  BY <1>2, <1>3, <1>4, Joined
<1>6. Len(s) = 2 /\ s[1] = a /\ s[1 + 1] = b
  BY <1>5
<1>7. s[1] = a /\ s[2] = b
  BY <1>4, <1>6
<1>8. s = <<s[1], s[2]>>
  BY <1>5, <1>6, Listed
<1> QED  BY <1>3, <1>7, <1>8

LEMMA TwoTwo ==
  ASSUME NEW a, NEW b, NEW c, NEW d
  PROVE  <<a, b>> \o <<c, d>> = <<a, b, c, d>>
<1>1. PICK S : S = {a, b, c, d}
  OBVIOUS
<1>2. <<a, b>> \in Seq(S) /\ <<c, d>> \in Seq(S)
  BY <1>1
<1>3. PICK s : s = <<a, b>> \o <<c, d>>
  OBVIOUS
<1>4. Len(<<a, b>>) = 2 /\ Len(<<c, d>>) = 2 /\ 1 + 2 = 3 /\ 2 + 2 = 4 /\ {2, 2} \subseteq Nat
  OBVIOUS
<1>5. /\ s \in Seq(S) /\ Len(s) = 2 + 2
      /\ \A i \in 1..2 : s[i] = <<a, b>>[i]
      /\ \A i \in 1..2 : s[i + 2] = <<c, d>>[i]
  BY <1>2, <1>3, <1>4, Joined
<1>6. Len(s) = 4 /\ s[1] = a /\ s[2] = b /\ s[1 + 2] = c /\ s[2 + 2] = d
  BY <1>5
<1>7. s[1] = a /\ s[2] = b /\ s[3] = c /\ s[4] = d
  BY <1>4, <1>6
<1>8. s = <<s[1], s[2], s[3], s[4]>>
  BY <1>5, <1>6, Listed
<1> QED  BY <1>3, <1>7, <1>8

LEMMA OneTwo ==
  ASSUME NEW a, NEW b, NEW c
  PROVE  <<a>> \o <<b, c>> = <<a, b, c>>
<1>1. PICK S : S = {a, b, c}
  OBVIOUS
<1>2. <<a>> \in Seq(S) /\ <<b, c>> \in Seq(S)
  BY <1>1
<1>3. PICK s : s = <<a>> \o <<b, c>>
  OBVIOUS
<1>4. Len(<<a>>) = 1 /\ Len(<<b, c>>) = 2 /\ 1 + 1 = 2 /\ 2 + 1 = 3 /\ {1, 2} \subseteq Nat
  OBVIOUS
<1>5. /\ s \in Seq(S) /\ Len(s) = 1 + 2
      /\ \A i \in 1..1 : s[i] = <<a>>[i]
      /\ \A i \in 1..2 : s[i + 1] = <<b, c>>[i]
  BY <1>2, <1>3, <1>4, Joined
<1>6. Len(s) = 3 /\ s[1] = a /\ s[1 + 1] = b /\ s[2 + 1] = c
  BY <1>5
<1>7. s[1] = a /\ s[2] = b /\ s[3] = c
  BY <1>4, <1>6
<1>8. s = <<s[1], s[2], s[3]>>
  BY <1>5, <1>6, Listed
<1> QED  BY <1>3, <1>7, <1>8

LEMMA ThreeOne ==
  ASSUME NEW a, NEW b, NEW c, NEW d
  PROVE  <<a, b, c>> \o <<d>> = <<a, b, c, d>>
<1>1. PICK S : S = {a, b, c, d}
  OBVIOUS
<1>2. <<a, b, c>> \in Seq(S) /\ <<d>> \in Seq(S)
  BY <1>1
<1>3. PICK s : s = <<a, b, c>> \o <<d>>
  OBVIOUS
<1>4. Len(<<a, b, c>>) = 3 /\ Len(<<d>>) = 1 /\ 1 + 3 = 4 /\ {3, 1} \subseteq Nat
  OBVIOUS
<1>5. /\ s \in Seq(S) /\ Len(s) = 3 + 1
      /\ \A i \in 1..3 : s[i] = <<a, b, c>>[i]
      /\ \A i \in 1..1 : s[i + 3] = <<d>>[i]
  BY <1>2, <1>3, <1>4, Joined
<1>6. Len(s) = 4 /\ s[1] = a /\ s[2] = b /\ s[3] = c /\ s[1 + 3] = d
  BY <1>5
<1>7. s[1] = a /\ s[2] = b /\ s[3] = c /\ s[4] = d
  BY <1>4, <1>6
<1>8. s = <<s[1], s[2], s[3], s[4]>>
  BY <1>5, <1>6, Listed
<1> QED  BY <1>3, <1>7, <1>8

LEMMA PairIs ==
  ASSUME NEW f, f = [i \in 1..2 |-> f[i]]  PROVE f = <<f[1], f[2]>>
OBVIOUS

-----------------------------------------------------------------------------
(* The process ends, starts and loads.                                      *)

LEMMA Stays ==
  ASSUME UNCHANGED file
  PROVE  /\ (FilesOK' <=> FilesOK) /\ (Sound' <=> Sound) /\ (Idle' <=> Idle) /\ InTray' = InTray
         /\ Disk!FoundDoc' = Disk!FoundDoc /\ Disk!FoundTray' = Disk!FoundTray /\ Disk!FoundProf' = Disk!FoundProf /\ Disk!FoundPanel' = Disk!FoundPanel
         /\ \A f : (Disk!Readable(f)' <=> Disk!Readable(f)) /\ (Disk!Present(f)' <=> Disk!Present(f))
BY DEF FilesOK, Sound, Idle, InTray, Disk!FoundDoc, Disk!FoundTray, Disk!FoundProf, Disk!FoundPanel, Disk!Readable, Disk!Present

\* What the files hold may be found as before.
LEMMA FoundStays ==
  ASSUME ConfigInv, UNCHANGED <<file, kept, based>>, lost => lost'
  PROVE  (~lost' => Found') /\ Disk!ProfilesHaveCopy'
BY Stays DEF ConfigInv, Found, Disk!ProfilesHaveCopy

LEMMA EndedKeepsInv ==
  ASSUME DiskBounds, ConfigInv, Disk!Quit \/ Disk!Crash  PROVE ConfigInv'
<1> USE DEF ConfigInv
<1>1. Disk!Ended /\ crashes' \in 0..MaxCrashes
  BY DEF Disk!Quit, Disk!Crash, Types, DiskBounds
<1>2. Disk!Default \in Memory /\ "off" \in Disk!TrayChoices
  BY DEF Disk!Default, Memory, DiskBounds, Disk!TrayChoices
<1>3. Types'
  <2>1. ops' = <<>> /\ <<>> \in Seq(Operation) /\ mem' \in Memory /\ found' \in Disk!TrayChoices /\ FilesOK'
    BY <1>1, <1>2, Stays DEF Types, Disk!Ended
  <2>2. ops' \in Seq(Operation)
    BY <2>1
  <2>4. passes' \in 0..2
    BY <1>1 DEF Disk!Ended
  <2>5. broken' \in BOOLEAN
    BY <1>1 DEF Disk!Ended
  <2>3. at' \in {"down", "tray", "migrate", "reload", "read", "panel", "runs"} /\ saving' \subseteq {"doc", "tray", "prof", "panel"}
    BY <1>1 DEF Disk!Ended
  <2> QED  BY <1>1, <2>1, <2>2, <2>3, <2>4, <2>5 DEF Types, Disk!Ended
<1>4. (~lost' => Found') /\ Disk!ProfilesHaveCopy'
  BY <1>1, FoundStays DEF Disk!Ended
<1>5. SettingsFirst' /\ WhenSettled'
  BY <1>1, Stays DEF Disk!Ended, SettingsFirst, WhenSettled
<1>6. Phases' /\ AtMigrate' /\ AtReload' /\ AtRead' /\ Converting' /\ AtPanel' /\ Running' /\ Saving'
  BY <1>1 DEF Disk!Ended, Phases, AtMigrate, AtReload, AtRead, Converting, AtPanel, Running, Saving
<1> QED  BY <1>3, <1>4, <1>5, <1>6

LEMMA StartKeepsInv ==
  ASSUME ConfigInv, Disk!Start  PROVE ConfigInv'
<1> USE DEF ConfigInv
<1>1. /\ at = "down" /\ at' = "tray" /\ passes' = 2 /\ ops = <<>> /\ saving = {}
      /\ UNCHANGED <<file, ops, mem, found, broken, changes, crashes, faults, saving, kept, lost, based, settled>>
  BY DEF Disk!Start, Disk!counters, Disk!history, Phases
<1>2. Types'
  BY <1>1, Stays DEF Types
<1>3. (~lost' => Found') /\ Disk!ProfilesHaveCopy'
  BY <1>1, FoundStays
<1>4. SettingsFirst' /\ WhenSettled'
  BY <1>1, Stays DEF SettingsFirst, WhenSettled
<1>5. Phases' /\ AtMigrate' /\ AtReload' /\ AtRead' /\ Converting' /\ AtPanel' /\ Running' /\ Saving'
  BY <1>1 DEF Phases, AtMigrate, AtReload, AtRead, Converting, AtPanel, Running, Saving
<1> QED  BY <1>2, <1>3, <1>4, <1>5

LEMMA LoadTrayKeepsInv ==
  ASSUME ConfigInv, Disk!LoadTray  PROVE ConfigInv'
<1> USE DEF ConfigInv
<1>1. /\ at = "tray" /\ at' = "migrate" /\ found' = InTray /\ broken' = FALSE /\ saving = {} /\ passes \in 1..2 /\ FilesOK
      /\ UNCHANGED <<file, mem, passes, changes, crashes, faults, saving, kept, lost, based, settled>>
  BY DEF Disk!LoadTray, Disk!Goes, Disk!Ends, Disk!counters, Disk!history, Phases, InTray, Types
<1>2. ops' = IF file["tray"] = Disk!Torn THEN <<Disk!Aside("tray", "tray.corrupt")>> ELSE <<>>
  BY DEF Disk!LoadTray, Disk!Goes
<1>3. /\ ops' \in Seq(Operation)
      /\ file["tray"] # Disk!Torn => ops' = <<>>
      /\ file["tray"] = Disk!Torn => Len(ops') = 1 /\ Moves(ops'[1], "tray", "tray.corrupt") /\ ~ops'[1].logged
                                 /\ ops' # <<>>
  <2>1. CASE file["tray"] = Disk!Torn
    <3>1. PICK o : o = Disk!Aside("tray", "tray.corrupt")
      OBVIOUS
    <3>2. o \in Operation /\ Moves(o, "tray", "tray.corrupt") /\ ~o.logged
      BY <1>1, <2>1, <3>1, AsideIs DEF Disk!Files
    <3>3. ops' = <<o>>
      BY <1>2, <2>1, <3>1
    <3> QED  BY <2>1, <3>2, <3>3
  <2>2. CASE file["tray"] # Disk!Torn
    BY <1>2, <2>2
  <2> QED  BY <2>1, <2>2
<1>4. found' \in Disk!TrayChoices
  BY <1>1, FilesAre DEF InTray, Disk!TrayChoices
<1>5. Types'
  BY <1>1, <1>3, <1>4, Stays DEF Types
<1>6. (~lost' => Found') /\ Disk!ProfilesHaveCopy'
  BY <1>1, FoundStays
<1>7. SettingsFirst'
  BY <1>1, Stays DEF SettingsFirst
<1>8. WhenSettled'
  BY <1>1, <1>3, Stays DEF WhenSettled, Idle, Sound
<1>9. AtMigrate'
  BY <1>1, <1>3, Stays DEF AtMigrate
<1>10. Phases' /\ AtReload' /\ AtRead' /\ Converting' /\ AtPanel' /\ Running' /\ Saving'
  BY <1>1 DEF Phases, AtReload, AtRead, Converting, AtPanel, Running, Saving
<1> QED  BY <1>5, <1>6, <1>7, <1>8, <1>9, <1>10

\* A migration writes tray.json, the copy and settings.json, in this order.
LEMMA MigrationIs ==
  ASSUME FilesOK, Disk!Readable("settings"), file["settings"].v.keys \in Disk!TrayChoices
  PROVE  \E n \in {2, 4} :
           /\ Disk!Migration \in Seq(Operation) /\ Len(Disk!Migration) = n
           /\ \A i \in 1..n :
                LET o == Disk!Migration[i] IN
                /\ i = 1 => Does(o, "tray", Disk!Good(file["settings"].v.keys), 3) /\ ~o.logged
                /\ i = n => Does(o, "settings", Disk!Settings(file["settings"].v.doc, "none"), 0) /\ ~o.logged
                /\ n - i \in 1..(n - 2) => o.logged /\ DOMAIN o.sets = {"backup"} /\ o.skip <= 1 /\ (n - i = 1 => o.skip = 0)
<1> DEFINE s == file["settings"].v
           t == Disk!Op(Disk!One("tray", Disk!Good(s.keys)), 3)
           e == Disk!Op(Disk!One("settings", Disk!Good([s EXCEPT !.keys = "none"])), 0)
           c == Disk!CopyTo("settings", "backup", 0)
           copy == [i \in 1..2 |-> [c[i] EXCEPT !.logged = TRUE]]
<1>1. s \in [doc : Values, keys : Keys]
  BY GoodIs DEF FilesOK, SettingsContents, Disk!Settings, Disk!Good, Disk!Readable, Disk!Absent
<1>2. Disk!Good([s EXCEPT !.keys = "none"]) = Disk!Settings(s.doc, "none")
  BY <1>1 DEF Disk!Settings
<1>3. t \in Operation /\ Does(t, "tray", Disk!Good(s.keys), 3) /\ ~t.logged
  BY InAny, OpIs DEF Disk!Files
<1>4. e \in Operation /\ Does(e, "settings", Disk!Settings(s.doc, "none"), 0) /\ ~e.logged
  <2>1. Disk!Settings(s.doc, "none") \in Written
    BY <1>1, InAny DEF Keys
  <2> QED  BY <1>2, <2>1, OpIs DEF Disk!Files
<1>5. CASE Disk!Present("backup")
  <2>1. Disk!Migration = <<t, e>>
    <3>1. Disk!Migration = <<t>> \o <<>> \o <<e>>
      BY <1>5 DEF Disk!Migration, Disk!SaveTray, Disk!WriteAtomic
    <3> HIDE DEF t, e
    <3>2. <<t>> \in Seq({t})
      OBVIOUS
    <3>3. <<t>> \o <<>> = <<t>> /\ <<t>> \o <<e>> = <<t, e>>
      BY <3>2, ConcatEmptySeq, OneOne
    <3> QED  BY <3>1, <3>3
  <2>2. PICK M : M = Disk!Migration
    OBVIOUS
  <2>3. M \in Seq(Operation) /\ Len(M) = 2 /\ M[1] = t /\ M[2] = e
    BY <1>3, <1>4, <2>1, <2>2
  <2> HIDE DEF t, e, s
  <2>4. \A i \in 1..2 :
           LET o == M[i] IN
           /\ i = 1 => Does(o, "tray", Disk!Good(s.keys), 3) /\ ~o.logged
           /\ i = 2 => Does(o, "settings", Disk!Settings(s.doc, "none"), 0) /\ ~o.logged
           /\ 2 - i \in 1..(2 - 2) => o.logged /\ DOMAIN o.sets = {"backup"} /\ o.skip <= 1 /\ (2 - i = 1 => o.skip = 0)
    BY <1>3, <1>4, <2>3
  <2> QED  BY <2>2, <2>3, <2>4 DEF s
<1>6. CASE ~Disk!Present("backup")
  <2>1. c = <<Disk!Op(Disk!One("backup", Disk!Torn), 1), Disk!Op(Disk!One("backup", file["settings"]), 0)>>
    BY DEF Disk!CopyTo
  <2> DEFINE a == [Disk!Op(Disk!One("backup", Disk!Torn), 1) EXCEPT !.logged = TRUE]
             b == [Disk!Op(Disk!One("backup", file["settings"]), 0) EXCEPT !.logged = TRUE]
  <2>2. copy = <<a, b>>
    <3> HIDE DEF c
    <3>1. c[1] = Disk!Op(Disk!One("backup", Disk!Torn), 1) /\ c[2] = Disk!Op(Disk!One("backup", file["settings"]), 0)
      BY <2>1
    <3>2. PICK x, y : x = c[1] /\ y = c[2]
      OBVIOUS
    <3>3. copy[1] = [x EXCEPT !.logged = TRUE] /\ copy[2] = [y EXCEPT !.logged = TRUE]
      BY <3>2
    <3>4. a = [x EXCEPT !.logged = TRUE] /\ b = [y EXCEPT !.logged = TRUE]
      BY <3>1, <3>2
    <3>5. PICK f : f = copy /\ f = [i \in 1..2 |-> f[i]]
      OBVIOUS
    <3>6. f = <<f[1], f[2]>>
      BY <3>5, PairIs
    <3> HIDE DEF a, b, copy
    <3> QED  BY <3>5, <3>6, <3>3, <3>4
  <2>3. Disk!Migration = <<t, a, b, e>>
    <3>1. Disk!Migration = <<t>> \o copy \o <<e>>
      BY <1>6 DEF Disk!Migration, Disk!SaveTray, Disk!WriteAtomic
    <3> HIDE DEF t, e, copy, a, b
    <3>2. <<t>> \o <<a, b>> = <<t, a, b>> /\ <<t, a, b>> \o <<e>> = <<t, a, b, e>>
      BY OneTwo, ThreeOne
    <3> QED  BY <2>2, <3>1, <3>2
  <2>4. a \in Operation /\ a.logged /\ DOMAIN a.sets = {"backup"} /\ a.skip = 1
    <3>1. PICK o \in Operation : o = Disk!Op(Disk!One("backup", Disk!Torn), 1) /\ Does(o, "backup", Disk!Torn, 1)
      BY InAny, OpIs DEF Disk!Files
    <3> QED  BY <3>1 DEF Operation, Does, Disk!One
  <2>5. b \in Operation /\ b.logged /\ DOMAIN b.sets = {"backup"} /\ b.skip = 0
    <3>1. PICK o \in Operation : o = Disk!Op(Disk!One("backup", file["settings"]), 0) /\ Does(o, "backup", file["settings"], 0)
      <4>1. file["settings"] \in Written
        BY InAny DEF FilesOK
      <4> QED  BY <4>1, OpIs DEF Disk!Files
    <3> QED  BY <3>1 DEF Operation, Does, Disk!One
  <2> HIDE DEF t, e, s, a, b
  <2>6. PICK M : M = Disk!Migration
    OBVIOUS
  <2>7. M \in Seq(Operation) /\ Len(M) = 4 /\ M[1] = t /\ M[2] = a /\ M[3] = b /\ M[4] = e
    BY <1>3, <1>4, <2>3, <2>4, <2>5, <2>6
  <2>8. \A i \in 1..4 :
           LET o == M[i] IN
           /\ i = 1 => Does(o, "tray", Disk!Good(s.keys), 3) /\ ~o.logged
           /\ i = 4 => Does(o, "settings", Disk!Settings(s.doc, "none"), 0) /\ ~o.logged
           /\ 4 - i \in 1..(4 - 2) => o.logged /\ DOMAIN o.sets = {"backup"} /\ o.skip <= 1 /\ (4 - i = 1 => o.skip = 0)
    <3>1. ASSUME NEW i \in 1..4  PROVE i = 1 \/ i = 2 \/ i = 3 \/ i = 4
      OBVIOUS
    <3> QED  BY <1>3, <1>4, <2>4, <2>5, <2>7, <3>1
  <2> QED  BY <2>6, <2>7, <2>8 DEF s
<1> QED  BY <1>5, <1>6

LEMMA MigrateKeepsInv ==
  ASSUME ConfigInv, Disk!Migrate  PROVE ConfigInv'
<1> USE DEF ConfigInv
<1>1. /\ at = "migrate" /\ at' = "reload" /\ broken' = FALSE /\ saving = {} /\ passes \in 1..2 /\ FilesOK /\ ops = <<>>
      /\ UNCHANGED <<file, mem, passes, changes, crashes, faults, saving, kept, based, settled>>
  BY DEF Disk!Migrate, Disk!Goes, Disk!Ends, Disk!counters, Phases, Types
<1>2. /\ ops' = IF Disk!NeedsMigration THEN Disk!Migration ELSE <<>>
      /\ found' = IF Disk!NeedsMigration THEN file["settings"].v.keys ELSE found
      /\ lost' = (lost \/ Disk!GivesUp)
  BY DEF Disk!Migrate, Disk!Goes
<1>3. found = InTray /\ (file["tray"] = Disk!Torn => broken) /\ found \in Disk!TrayChoices
  BY <1>1 DEF AtMigrate, Types
<1>4. lost => lost'
  BY <1>2
<1>5. lost' \in BOOLEAN
  BY <1>2 DEF Types
<1>6. (~lost' => Found') /\ Disk!ProfilesHaveCopy'
  BY <1>1, <1>4, FoundStays
<1>7. SettingsFirst'
  BY <1>1, Stays DEF SettingsFirst
<1>8. Phases' /\ AtMigrate' /\ AtRead' /\ Converting' /\ AtPanel' /\ Running' /\ Saving'
  BY <1>1 DEF Phases, AtMigrate, AtRead, Converting, AtPanel, Running, Saving
<1>9. CASE Disk!NeedsMigration
  <2>1. /\ ~Disk!Present("tray") /\ Disk!Readable("settings") /\ file["settings"].v.keys # "none"
    BY <1>9 DEF Disk!NeedsMigration
  <2>2. file["settings"].v.keys \in Disk!TrayChoices /\ file["tray"] = Disk!Absent
    BY <1>1, <2>1, FilesAre DEF Keys
  <2>3. PICK n \in {2, 4} :
           /\ Disk!Migration \in Seq(Operation) /\ Len(Disk!Migration) = n
           /\ \A i \in 1..n :
                LET o == Disk!Migration[i] IN
                /\ i = 1 => Does(o, "tray", Disk!Good(file["settings"].v.keys), 3) /\ ~o.logged
                /\ i = n => Does(o, "settings", Disk!Settings(file["settings"].v.doc, "none"), 0) /\ ~o.logged
                /\ n - i \in 1..(n - 2) => o.logged /\ DOMAIN o.sets = {"backup"} /\ o.skip <= 1 /\ (n - i = 1 => o.skip = 0)
    BY <1>1, <2>1, <2>2, MigrationIs
  <2>4. ops' = Disk!Migration /\ found' = file["settings"].v.keys
    BY <1>2, <1>9
  <2>5. Types'
    BY <1>1, <1>5, <2>2, <2>3, <2>4, Stays DEF Types
  <2>6. Migrates(n)'
    <3>1. Len(ops') = n /\ n \in Nat
      BY <2>3, <2>4
    <3>2. ASSUME NEW i \in 1..n, NEW o, o = ops'[i], NEW k, k = n - i
          PROVE  MigrationOp(k, o, n)'
      <4>1. (k = n - 1 => i = 1) /\ (k = 0 => i = n)
        BY <3>2
      <4>2. file'["settings"] = file["settings"]
        BY <1>1
      <4> QED  BY <2>3, <2>4, <3>2, <4>1, <4>2 DEF MigrationOp
    <3> QED  BY <3>1, <3>2 DEF Migrates
  <2>7. AtReload'
    <3>1. ops' # <<>> /\ Len(ops') = n
      BY <2>3, <2>4
    <3> QED  BY <1>1, <2>1, <2>2, <2>4, <2>6, <3>1, Stays DEF AtReload
  <2>8. WhenSettled'
    <3>1. ~settled
      BY <1>1, <2>1 DEF WhenSettled, Idle, Sound, Disk!Present, Disk!Readable
    <3> QED  BY <1>1, <3>1 DEF WhenSettled
  <2> QED  BY <1>6, <1>7, <1>8, <2>5, <2>7, <2>8
<1>10. CASE ~Disk!NeedsMigration
  <2>1. ops' = <<>> /\ found' = found /\ <<>> \in Seq(Operation)
    BY <1>2, <1>10
  <2>2. Types'
    BY <1>1, <1>5, <2>1, Stays DEF Types
  <2>3. Firm' => ~broken
    <3>1. broken => faults > 0
      BY DEF Phases
    <3>2. faults' = faults /\ faults \in Nat /\ passes' = passes /\ (Disk!Readable("config")' <=> Disk!Readable("config"))
      BY <1>1, Stays DEF Types
    <3>3. broken => faults' # 0
      BY <3>1, <3>2
    <3>4. ~lost' => ~lost /\ ~(broken /\ (passes = 1 \/ Disk!Readable("config")))
      BY <1>2 DEF Disk!GivesUp
    <3>5. Firm' => faults' = 0 \/ (~lost' /\ (passes = 1 \/ Disk!Readable("config")))
      BY <3>2 DEF Firm
    <3> QED  BY <3>2, <3>3, <3>4, <3>5 DEF Firm
  <2>4. Firm' => Sound
    BY <1>1, <1>3, <1>10, <2>3, FilesAre DEF Sound, Disk!NeedsMigration
  <2>5. AtReload'
    BY <1>1, <1>3, <2>1, <2>4, Stays DEF AtReload
  <2>6. WhenSettled'
    BY <1>1, <2>1, Stays DEF WhenSettled
  <2> QED  BY <1>6, <1>7, <1>8, <2>2, <2>5, <2>6
<1> QED  BY <1>9, <1>10

LEMMA ReloadKeepsInv ==
  ASSUME ConfigInv, Disk!Reload  PROVE ConfigInv'
<1> USE DEF ConfigInv
<1> DEFINE seen == IF broken THEN "off" ELSE found
<1>1. /\ at = "reload" /\ at' = "read" /\ broken' = FALSE /\ saving = {} /\ passes \in 1..2 /\ FilesOK /\ ops = <<>>
      /\ ops' = <<>>
      /\ UNCHANGED <<file, mem, passes, changes, crashes, faults, saving, kept, based, settled>>
  BY DEF Disk!Reload, Disk!Goes, Disk!Ends, Disk!counters, Phases, Types
<1>2. /\ found' = IF seen = "off" /\ ~Disk!Present("tray") /\ Disk!Readable("config") THEN file["config"].v.tray ELSE seen
      /\ lost' = (lost \/ Disk!GivesUp)
  BY DEF Disk!Reload
<1>3. (lost => lost') /\ lost' \in BOOLEAN
  BY <1>2 DEF Types
<1>4. found' \in Disk!TrayChoices
  <2>1. Disk!Readable("config") => file["config"].v.tray \in Disk!TrayChoices
    BY <1>1, FilesAre DEF Old
  <2>2. found \in Disk!TrayChoices /\ "off" \in Disk!TrayChoices
    BY DEF Types, Disk!TrayChoices
  <2> QED  BY <1>2, <2>1, <2>2
<1>5. Types'
  <2>1. ops' \in Seq(Operation)
    BY <1>1 DEF Types
  <2> QED  BY <1>1, <1>3, <1>4, <2>1, Stays DEF Types
<1>6. (~lost' => Found') /\ Disk!ProfilesHaveCopy'
  BY <1>1, <1>3, FoundStays
<1>7. SettingsFirst' /\ WhenSettled'
  BY <1>1, Stays DEF SettingsFirst, WhenSettled
<1>8. Phases' /\ AtMigrate' /\ AtReload' /\ Converting' /\ AtPanel' /\ Running' /\ Saving'
  BY <1>1 DEF Phases, AtMigrate, AtReload, Converting, AtPanel, Running, Saving
<1>9. Firm' => Firm /\ ~broken
  <2>1. broken => faults > 0
    BY DEF Phases
  <2>2. faults' = faults /\ faults \in Nat /\ passes' = passes /\ (Disk!Readable("config")' <=> Disk!Readable("config"))
    BY <1>1, Stays DEF Types
  <2>3. broken => faults' # 0
    BY <2>1, <2>2
  <2>4. ~lost' => ~lost /\ ~(broken /\ (passes = 1 \/ Disk!Readable("config")))
    BY <1>2 DEF Disk!GivesUp
  <2>5. Firm' => faults' = 0 \/ (~lost' /\ (passes = 1 \/ Disk!Readable("config")))
    BY <2>2 DEF Firm
  <2> QED  BY <2>2, <2>3, <2>4, <2>5 DEF Firm
<1>10. ASSUME Firm'  PROVE Sound /\ Disk!WithTray(found') = Disk!FoundTray
  <2>1. Sound /\ found = InTray /\ seen = found
    BY <1>1, <1>9, <1>10 DEF AtReload
  <2>2. CASE Disk!Readable("tray")
    <3>1. Disk!Present("tray")
      BY <2>2 DEF Disk!Readable, Disk!Present
    <3> QED  BY <1>2, <2>1, <2>2, <3>1 DEF InTray, Disk!FoundTray
  <2>3. CASE ~Disk!Readable("tray")
    <3>1. ~Disk!Present("tray")
      BY <1>1, <2>1, <2>3, FilesAre DEF Sound
    <3>2. ~(Disk!Readable("settings") /\ file["settings"].v.keys # "none")
      BY <2>1, <2>3 DEF Sound
    <3>3. found = "off"
      BY <2>1, <2>3 DEF InTray
    <3>4. found' = IF Disk!Readable("config") THEN file["config"].v.tray ELSE "off"
      BY <1>2, <2>1, <3>1, <3>3
    <3> QED  BY <2>1, <2>3, <3>2, <3>4 DEF Disk!FoundTray
  <2> QED  BY <2>2, <2>3
<1>11. AtRead'
  BY <1>1, <1>10, Stays DEF AtRead
<1> QED  BY <1>5, <1>6, <1>7, <1>8, <1>11

\* A save of settings writes settings.json, tray.json and the desktop entry.
LEMMA SettingsSave ==
  ASSUME NEW m, m.doc \in Values, m.tray \in Disk!TrayChoices
  PROVE  /\ Disk!SaveSettings(m) \in Seq(Operation) /\ Len(Disk!SaveSettings(m)) = 4
         /\ \A i \in 1..4 : SettingsOp(4 - i, Disk!SaveSettings(m)[i], m)
<1> DEFINE a == Disk!Op(Disk!One("settings", Disk!Good([doc |-> m.doc, keys |-> "none"])), 3)
           b == Disk!Op(Disk!One("tray", Disk!Good(m.tray)), 2)
           c == Disk!Op(Disk!One("desktop", Disk!Torn), 0 + 1)
           d == Disk!Op(Disk!One("desktop", Disk!Good(m.doc)), 0)
<1>1. a \in Operation /\ Does(a, "settings", Disk!Settings(m.doc, "none"), 3) /\ ~a.logged
  <2>1. Disk!Good([doc |-> m.doc, keys |-> "none"]) = Disk!Settings(m.doc, "none") /\ Disk!Settings(m.doc, "none") \in Written
    BY InAny DEF Disk!Settings, Keys
  <2> QED  BY <2>1, OpIs DEF Disk!Files
<1>2. b \in Operation /\ Does(b, "tray", Disk!Good(m.tray), 2) /\ ~b.logged
  BY InAny, OpIs DEF Disk!Files
<1>3. c \in Operation /\ Does(c, "desktop", Disk!Torn, 1) /\ ~c.logged
  BY InAny, OpIs DEF Disk!Files
<1>4. d \in Operation /\ Does(d, "desktop", Disk!Good(m.doc), 0) /\ ~d.logged
  BY InAny, OpIs DEF Disk!Files
<1>5. Disk!SaveSettings(m) = <<a>> \o <<b>> \o <<c, d>>
  BY DEF Disk!SaveSettings, Disk!SaveTray, Disk!WriteAtomic, Disk!Write
<1> HIDE DEF a, b, c, d
<1>6. Disk!SaveSettings(m) = <<a, b, c, d>>
  <2>1. <<a>> \o <<b>> = <<a, b>>
    BY OneOne
  <2>2. <<a, b>> \o <<c, d>> = <<a, b, c, d>>
    BY TwoTwo
  <2> QED  BY <1>5, <2>1, <2>2
<1>7. PICK S : S = Disk!SaveSettings(m)
  OBVIOUS
<1>8. S \in Seq(Operation) /\ Len(S) = 4 /\ S[1] = a /\ S[2] = b /\ S[3] = c /\ S[4] = d
  BY <1>1, <1>2, <1>3, <1>4, <1>6, <1>7
<1>9. ASSUME NEW i \in 1..4  PROVE SettingsOp(4 - i, S[i], m)
  <2>1. i = 1 \/ i = 2 \/ i = 3 \/ i = 4
    OBVIOUS
  <2> QED  BY <1>1, <1>2, <1>3, <1>4, <1>8, <2>1 DEF SettingsOp
<1> QED  BY <1>7, <1>8, <1>9

\* A save of profiles copies what is there, and then writes.
LEMMA ProfilesSave ==
  ASSUME FilesOK, NEW m, m.prof \in Values
  PROVE  LET c == file["profiles"]
             n == IF c = Disk!Absent THEN 2 ELSE 4
         IN  /\ Disk!SaveProfiles(m) \in Seq(Operation) /\ Len(Disk!SaveProfiles(m)) = n
             /\ \A i \in 1..n : ProfilesOp(n - i, Disk!SaveProfiles(m)[i], m, c)
<1> DEFINE a == Disk!Op(Disk!One("profiles.bak", Disk!Torn), 2 + 1)
           b == Disk!Op(Disk!One("profiles.bak", file["profiles"]), 2)
           c == Disk!Op(Disk!One("profiles", Disk!Torn), 0 + 1)
           d == Disk!Op(Disk!One("profiles", Disk!Good(m.prof)), 0)
<1>1. a \in Operation /\ Does(a, "profiles.bak", Disk!Torn, 3) /\ ~a.logged
  BY InAny, OpIs DEF Disk!Files
<1>2. b \in Operation /\ Does(b, "profiles.bak", file["profiles"], 2) /\ ~b.logged
  <2>1. file["profiles"] \in Written
    BY InAny DEF FilesOK
  <2> QED  BY <2>1, OpIs DEF Disk!Files
<1>3. c \in Operation /\ Does(c, "profiles", Disk!Torn, 1) /\ ~c.logged
  BY InAny, OpIs DEF Disk!Files
<1>4. d \in Operation /\ Does(d, "profiles", Disk!Good(m.prof), 0) /\ ~d.logged
  BY InAny, OpIs DEF Disk!Files
<1>5. PICK S : S = Disk!SaveProfiles(m)
  OBVIOUS
<1>6. Disk!Present("profiles") <=> file["profiles"] # Disk!Absent
  BY ContentsAre, GoodIs DEF FilesOK, Disk!Present
<1>7. S = (IF Disk!Present("profiles") THEN <<a, b>> ELSE <<>>) \o <<c, d>>
  BY <1>5 DEF Disk!SaveProfiles, Disk!CopyTo, Disk!Write
<1> HIDE DEF a, b, c, d
<1>8. CASE file["profiles"] = Disk!Absent
  <2>1. S = <<c, d>>
    <3>1. <<c, d>> \in Seq({c, d})
      OBVIOUS
    <3> QED  BY <1>6, <1>7, <1>8, <3>1, ConcatEmptySeq
  <2>2. S \in Seq(Operation) /\ Len(S) = 2 /\ S[1] = c /\ S[2] = d
    BY <1>3, <1>4, <2>1
  <2>3. ASSUME NEW i \in 1..2  PROVE ProfilesOp(2 - i, S[i], m, file["profiles"])
    <3>1. i = 1 \/ i = 2
      OBVIOUS
    <3> QED  BY <1>3, <1>4, <2>2, <3>1 DEF ProfilesOp
  <2> QED  BY <1>5, <1>8, <2>2, <2>3
<1>9. CASE file["profiles"] # Disk!Absent
  <2>1. S = <<a, b, c, d>>
    BY <1>6, <1>7, <1>9, TwoTwo
  <2>2. S \in Seq(Operation) /\ Len(S) = 4 /\ S[1] = a /\ S[2] = b /\ S[3] = c /\ S[4] = d
    BY <1>1, <1>2, <1>3, <1>4, <2>1
  <2>3. ASSUME NEW i \in 1..4  PROVE ProfilesOp(4 - i, S[i], m, file["profiles"])
    <3>1. i = 1 \/ i = 2 \/ i = 3 \/ i = 4
      OBVIOUS
    <3> QED  BY <1>1, <1>2, <1>3, <1>4, <2>2, <3>1 DEF ProfilesOp
  <2> QED  BY <1>5, <1>9, <2>2, <2>3
<1> QED  BY <1>8, <1>9

\* A conversion is one after the other.
LEMMA ConversionSaves ==
  ASSUME FilesOK, NEW m, m.doc \in Values, m.tray \in Disk!TrayChoices, m.prof \in Values,
         NEW c, c = file["profiles"], NEW n \in {2, 4}, n = IF c = Disk!Absent THEN 2 ELSE 4,
         ops' = Disk!SaveSettings(m) \o Disk!SaveProfiles(m)
  PROVE  /\ ops' \in Seq(Operation) /\ Len(ops') = n + 4 /\ ops' # <<>>
         /\ Saves(m, c, n)'
<1>1. PICK s \in Seq(Operation) : s = Disk!SaveSettings(m) /\ Len(s) = 4 /\ \A i \in 1..4 : SettingsOp(4 - i, s[i], m)
  BY SettingsSave
<1>2. PICK t \in Seq(Operation) : t = Disk!SaveProfiles(m) /\ Len(t) = n /\ \A i \in 1..n : ProfilesOp(n - i, t[i], m, c)
  BY ProfilesSave
<1>3. /\ ops' \in Seq(Operation) /\ Len(ops') = 4 + n
      /\ \A i \in 1..4 : ops'[i] = s[i]
      /\ \A i \in 1..n : ops'[i + 4] = t[i]
  <2>1. ops' = s \o t /\ 4 \in Nat /\ n \in Nat
    BY <1>1, <1>2
  <2>2. 4 = Len(s) /\ n = Len(t)
    BY <1>1, <1>2
  <2>3. /\ s \o t \in Seq(Operation) /\ Len(s \o t) = 4 + n
        /\ \A i \in 1..4 : (s \o t)[i] = s[i]
        /\ \A i \in 1..n : (s \o t)[i + 4] = t[i]
    <3>1. /\ s \o t \in Seq(Operation) /\ Len(s \o t) = Len(s) + Len(t)
          /\ \A i \in 1..(Len(s) + Len(t)) : (s \o t)[i] = IF i <= Len(s) THEN s[i] ELSE t[i - Len(s)]
      BY ConcatProperties
    <3>2. /\ s \o t \in Seq(Operation) /\ Len(s \o t) = 4 + n
          /\ \A i \in 1..(4 + n) : (s \o t)[i] = IF i <= 4 THEN s[i] ELSE t[i - 4]
      BY <2>2, <3>1
    <3>3. ASSUME NEW i \in 1..n  PROVE (s \o t)[i + 4] = t[i]
      <4>1. i + 4 \in 1..(4 + n) /\ ~(i + 4 <= 4) /\ (i + 4) - 4 = i
        OBVIOUS
      <4> QED  BY <3>2, <4>1
    <3> QED  BY <3>2, <3>3
  <2> QED  BY <2>1, <2>3
<1>4. ASSUME NEW i \in 1..(n + 4), NEW k, k = n + 4 - i, NEW o, o = ops'[i]
      PROVE  IF k < n THEN ProfilesOp(k, o, m, c) ELSE SettingsOp(k - n, o, m)
  <2>1. CASE i \in 1..4
    <3>1. ~(k < n) /\ k - n = 4 - i
      BY <1>4, <2>1
    <3> QED  BY <1>1, <1>3, <1>4, <2>1, <3>1
  <2>2. CASE i \notin 1..4
    <3>1. k < n /\ i - 4 \in 1..n /\ n - (i - 4) = k /\ (i - 4) + 4 = i
      <4>1. n \in Nat /\ i \in 5..(n + 4)
        BY <2>2
      <4>2. n + 4 - i < n /\ i - 4 \in 1..n /\ n - (i - 4) = n + 4 - i /\ (i - 4) + 4 = i
        BY <4>1
      <4> QED  BY <1>4, <4>2
    <3>2. o = t[i - 4]
      BY <1>3, <1>4, <3>1
    <3> QED  BY <1>2, <3>1, <3>2
  <2> QED  BY <2>1, <2>2
<1>5. Len(ops') = n + 4 /\ ops' # <<>>
  BY <1>3
<1>6. Len(ops') <= n + 4
  BY <1>5
<1>7. ASSUME NEW i \in 1..Len(ops')
      PROVE  LET k == Len(ops') - i IN
             IF k < n THEN ProfilesOp(k, ops'[i], m, c) ELSE SettingsOp(k - n, ops'[i], m)
  BY <1>4, <1>5
<1>8. Saves(m, c, n)'
  BY <1>6, <1>7 DEF Saves
<1> QED  BY <1>3, <1>5, <1>8

LEMMA ReadKeepsInv ==
  ASSUME DiskBounds, ConfigInv, Disk!Read  PROVE ConfigInv'
<1> USE DEF ConfigInv
<1>0. PICK m, c : m = [mem EXCEPT !.doc = Disk!FoundDoc, !.tray = Disk!WithTray(found), !.prof = Disk!FoundProf] /\ c = file["profiles"]
  OBVIOUS
<1>1. /\ at = "read" /\ at' = Disk!After /\ broken' = FALSE /\ saving = {} /\ passes \in 1..2 /\ FilesOK
      /\ file["profiles"] # Disk!Torn /\ passes' = passes - 1
      /\ UNCHANGED <<file, found, changes, crashes, faults, saving, kept, lost, settled>>
  BY DEF Disk!Read, Disk!Goes, Disk!Ends, Disk!counters, Phases, Types
<1>2. /\ mem' = IF passes = 1 THEN m ELSE mem
      /\ ops' = IF Disk!Converts THEN Disk!SaveSettings(m) \o Disk!SaveProfiles(m) ELSE <<>>
      /\ based' = IF Disk!Converts THEN c.is ELSE based
  BY <1>0 DEF Disk!Read, Disk!Goes
<1>3. mem \in Memory /\ Disk!FoundDoc \in Values /\ Disk!WithTray(found) \in Disk!TrayChoices /\ Disk!FoundProf \in Values
  BY <1>1, FoundTypes, WithTrayIs DEF Types
<1>4. /\ m \in Memory /\ m.doc = Disk!FoundDoc /\ m.tray = Disk!WithTray(found) /\ m.prof = Disk!FoundProf /\ m.panel = mem.panel
  BY <1>0, <1>3 DEF Memory
<1>5. mem' \in Memory
  BY <1>2, <1>3, <1>4
<1>6. c \in Contents /\ c.is \in {"absent", "torn", "good"} /\ (c # Disk!Absent => c.is = "good" /\ Disk!FoundProf = c.v)
  <2>1. c \in Contents /\ c # Disk!Torn
    BY <1>0, <1>1 DEF FilesOK
  <2>2. c # Disk!Absent => Disk!Present("profiles") /\ c.is = "good"
    BY <1>0, <2>1, ContentsAre, GoodIs DEF Disk!Present
  <2> QED  BY <1>0, <2>1, <2>2, ContentsAre DEF Disk!FoundProf
<1>7. at' = (IF passes = 2 THEN "tray" ELSE "panel") /\ at' \in {"tray", "panel"}
  BY <1>1 DEF Disk!After
<1>8. PICK n \in {2, 4} : n = IF c = Disk!Absent THEN 2 ELSE 4
  OBVIOUS
<1>9. Disk!Converts => ops' \in Seq(Operation) /\ Len(ops') = n + 4 /\ ops' # <<>> /\ Saves(m, c, n)'
  BY <1>0, <1>1, <1>2, <1>3, <1>4, <1>8, ConversionSaves
<1>10. ~Disk!Converts => ops' = <<>> /\ <<>> \in Seq(Operation)
  BY <1>2
<1>11. based' \in {"absent", "torn", "good"}
  BY <1>2, <1>6 DEF Types
<1>12. Types'
  <2>1. /\ ops' \in Seq(Operation) /\ FilesOK' /\ mem' \in Memory
    BY <1>1, <1>5, <1>9, <1>10, Stays
  <2>2. passes' \in 0..2 /\ at' \in {"down", "tray", "migrate", "reload", "read", "panel", "runs"}
    BY <1>1, <1>7
  <2>3. broken' \in BOOLEAN
    BY <1>1
  <2> QED  BY <1>1, <1>11, <2>1, <2>2, <2>3 DEF Types
<1>13. Phases'
  BY <1>1, <1>7 DEF Phases
<1>14. ~lost' => Found'
  BY <1>1, Stays DEF Found
<1>15. Disk!ProfilesHaveCopy'
  BY <1>1 DEF Disk!ProfilesHaveCopy
<1>16. Firm => Sound /\ Disk!WithTray(found) = Disk!FoundTray
  BY <1>1 DEF AtRead
<1>17. ~lost /\ Firm => Disk!FoundDoc \in kept.doc /\ Disk!WithTray(Disk!WithTray(found)) \in kept.tray /\ Disk!FoundProf \in kept.prof
  <2>1. Disk!WithTray(Disk!WithTray(found)) = Disk!WithTray(found)
    BY WithTrayIs DEF Types
  <2> QED  BY <1>1, <1>16, <2>1 DEF Found
<1>18. (~lost /\ (passes = 1 \/ Disk!Readable("config"))) \/ faults = 0 => Firm
  BY DEF Firm
<1>19. Converting'
  <2> SUFFICES ASSUME Disk!Converts  PROVE Converting'
    BY <1>10 DEF Converting
  <2>1. Disk!Readable("config") /\ Disk!Readable("config")'
    BY <1>1, Stays DEF Disk!Converts
  <2>2. PICK w \in Old : w.doc = m.doc /\ w.tray = m.tray /\ w.prof = m.prof
    <3>1. PICK w : w = [doc |-> m.doc, tray |-> m.tray, prof |-> m.prof]
      OBVIOUS
    <3> QED  BY <1>3, <1>4, <3>1 DEF Old
  <2>3. Saves(w, c, n)'
    <3>1. \A k, o : /\ ProfilesOp(k, o, w, c) <=> ProfilesOp(k, o, m, c)
                    /\ SettingsOp(k, o, w) <=> SettingsOp(k, o, m)
      BY <2>2 DEF ProfilesOp, SettingsOp
    <3> QED  BY <1>9, <3>1 DEF Saves
  <2>4. ProfilesSoFar(w, c, n)'
    <3>1. c.is = based' /\ c \in Contents
      BY <1>2, <1>6
    <3>2. ~(Len(ops') \in 1..2)
      <4>1. Len(ops') = n + 4
        BY <1>9
      <4>2. ~(n + 4 \in 1..2)
        OBVIOUS
      <4> QED  BY <4>1, <4>2
    <3>3. ~lost' /\ c.is = "good" => c.v \in kept'.prof
      BY <1>1, <1>6, <1>17, <1>18, <2>1, GoodIs
    <3>4. file'["profiles"] = c
      BY <1>0, <1>1
    <3> QED  BY <1>8, <3>1, <3>2, <3>3, <3>4 DEF ProfilesSoFar
  <2>5. ~lost' => Chosen(w)'
    BY <1>1, <1>4, <1>17, <1>18, <2>1, <2>2 DEF Chosen
  <2>6. ~lost' \/ faults' = 0 => Sound'
    BY <1>1, <1>16, <1>18, <2>1, Stays
  <2>7. ~(Len(ops') < n + 4)
    BY <1>9
  <2> QED  BY <1>6, <2>1, <2>2, <2>3, <2>4, <2>5, <2>6, <2>7 DEF Converting
<1>20. AtPanel'
  <2> SUFFICES ASSUME passes = 1  PROVE AtPanel'
    BY <1>1, <1>7 DEF AtPanel
  <2>1. ~lost' \/ faults' = 0 => Sound'
    BY <1>1, <1>16, <1>18, Stays
  <2>2. ~lost' => Chosen(mem)'
    BY <1>1, <1>2, <1>4, <1>17, <1>18 DEF Chosen
  <2>3. Disk!Readable("config")' /\ ops' = <<>> => Disk!Present("settings")' /\ Disk!Present("profiles")'
    BY <1>1, <1>9, Stays DEF Disk!Converts
  <2> QED  BY <2>1, <2>2, <2>3 DEF AtPanel
<1>21. SettingsFirst'
  BY <1>1, Stays DEF SettingsFirst
<1>22. WhenSettled'
  <2>1. settled => Idle /\ ~Disk!Converts
    BY DEF WhenSettled, Idle, Disk!Converts
  <2> QED  BY <1>1, <1>10, <2>1, Stays DEF WhenSettled
<1>23. AtMigrate' /\ AtReload' /\ AtRead' /\ Running' /\ Saving'
  BY <1>7 DEF AtMigrate, AtReload, AtRead, Running, Saving
<1> QED  BY <1>12, <1>13, <1>14, <1>15, <1>19, <1>20, <1>21, <1>22, <1>23

LEMMA ReadFailsKeepsInv ==
  ASSUME ConfigInv, Disk!ReadFails  PROVE ConfigInv'
<1> USE DEF ConfigInv
<1>1. /\ at = "read" /\ at' = Disk!After /\ broken' = FALSE /\ saving = {} /\ passes \in 1..2 /\ FilesOK
      /\ file["settings"] = Disk!Torn \/ file["profiles"] = Disk!Torn
      /\ ops' = <<>> /\ passes' = passes - 1 /\ lost' = (lost \/ passes = 1)
      /\ UNCHANGED <<file, mem, found, changes, crashes, faults, saving, kept, based, settled>>
  BY DEF Disk!ReadFails, Disk!Goes, Disk!Ends, Disk!counters, Phases, Types
<1>2. (lost => lost') /\ lost' \in BOOLEAN /\ (passes = 1 => lost')
  BY <1>1 DEF Types
<1>3. at' = (IF passes = 2 THEN "tray" ELSE "panel") /\ at' \in {"tray", "panel"}
  BY <1>1 DEF Disk!After
<1>4. file["profiles"] = Disk!Torn
  BY <1>1, FilesAre
<1>5. Types'
  <2>1. ops' \in Seq(Operation) /\ FilesOK'
    BY <1>1, Stays
  <2>2. passes' \in 0..2 /\ at' \in {"down", "tray", "migrate", "reload", "read", "panel", "runs"}
    BY <1>1, <1>3
  <2>3. broken' \in BOOLEAN
    BY <1>1
  <2> QED  BY <1>1, <1>2, <2>1, <2>2, <2>3 DEF Types
<1>6. (~lost' => Found') /\ Disk!ProfilesHaveCopy'
  BY <1>1, <1>2, FoundStays
<1>7. AtPanel'
  <2> SUFFICES ASSUME passes = 1  PROVE AtPanel'
    BY <1>1, <1>3 DEF AtPanel
  <2>1. faults' = 0 => Sound'
    BY <1>1, Stays DEF AtRead, Firm
  <2>2. faults' = 0 /\ Disk!Readable("config")' => Disk!Present("settings")' /\ Disk!Present("profiles")'
    BY <1>1, <1>4, Stays, GoodIs DEF SettingsFirst, Disk!Present
  <2> QED  BY <1>2, <2>1, <2>2 DEF AtPanel
<1>8. SettingsFirst' /\ WhenSettled'
  BY <1>1, Stays DEF SettingsFirst, WhenSettled
<1>9. Phases' /\ AtMigrate' /\ AtReload' /\ AtRead' /\ Converting' /\ Running' /\ Saving'
  BY <1>1, <1>3 DEF Phases, AtMigrate, AtReload, AtRead, Converting, Running, Saving
<1> QED  BY <1>5, <1>6, <1>7, <1>8, <1>9

LEMMA LoadPanelKeepsInv ==
  ASSUME DiskBounds, ConfigInv, Disk!LoadPanel  PROVE ConfigInv'
<1> USE DEF ConfigInv
<1>1. /\ at = "panel" /\ at' = "runs" /\ broken' = FALSE /\ saving = {} /\ FilesOK /\ ops = <<>>
      /\ mem' = [mem EXCEPT !.panel = Disk!FoundPanel] /\ settled' = (faults = 0)
      /\ UNCHANGED <<file, found, passes, changes, crashes, faults, saving, kept, lost, based>>
  BY DEF Disk!LoadPanel, Disk!Goes, Disk!Ends, Disk!counters, Phases, Types
<1>2. ops' = IF file["panel"] = Disk!Torn THEN <<Disk!Aside("panel", "panel.corrupt")>> ELSE <<>>
  BY DEF Disk!LoadPanel, Disk!Goes
<1>3. /\ ops' \in Seq(Operation)
      /\ file["panel"] # Disk!Torn => ops' = <<>>
      /\ file["panel"] = Disk!Torn => Len(ops') = 1 /\ Moves(ops'[1], "panel", "panel.corrupt")
  <2>1. CASE file["panel"] = Disk!Torn
    <3>1. PICK o : o = Disk!Aside("panel", "panel.corrupt")
      OBVIOUS
    <3>2. o \in Operation /\ Moves(o, "panel", "panel.corrupt")
      BY <1>1, <2>1, <3>1, AsideIs DEF Disk!Files
    <3>3. ops' = <<o>>
      BY <1>2, <2>1, <3>1
    <3> QED  BY <2>1, <3>2, <3>3
  <2>2. CASE file["panel"] # Disk!Torn
    BY <1>2, <2>2
  <2> QED  BY <2>1, <2>2
<1>4. mem \in Memory /\ Disk!FoundPanel \in Values
  BY <1>1, FoundTypes DEF Types
<1>5. mem' \in Memory /\ mem'.doc = mem.doc /\ mem'.tray = mem.tray /\ mem'.prof = mem.prof /\ mem'.panel = Disk!FoundPanel
  BY <1>1, <1>4 DEF Memory
<1>6. settled' \in BOOLEAN /\ (settled' <=> faults = 0)
  BY <1>1
<1>7. Types'
  <2>1. broken' \in BOOLEAN
    BY <1>1
  <2> QED  BY <1>1, <1>3, <1>5, <1>6, <2>1, Stays DEF Types
<1>8. (~lost' => Found') /\ Disk!ProfilesHaveCopy'
  BY <1>1, FoundStays
<1>9. Running'
  <2>1. ~lost => Sound /\ Chosen(mem) /\ Disk!FoundPanel \in kept.panel
    BY <1>1 DEF AtPanel, Found
  <2>2. Chosen(mem)' <=> Chosen(mem)
    BY <1>1, <1>5 DEF Chosen
  <2> QED  BY <1>1, <1>5, <1>6, <2>1, <2>2, Stays DEF Running
<1>10. Saving'
  BY <1>1, <1>3 DEF Saving
<1>11. SettingsFirst'
  BY <1>1, Stays DEF SettingsFirst
<1>12. WhenSettled'
  <2>1. faults = 0 => Idle
    BY <1>1 DEF AtPanel, Idle
  <2> QED  BY <1>1, <1>6, <2>1, Stays DEF WhenSettled
<1>13. Phases' /\ AtMigrate' /\ AtReload' /\ AtRead' /\ Converting' /\ AtPanel'
  BY <1>1 DEF Phases, AtMigrate, AtReload, AtRead, Converting, AtPanel
<1> QED  BY <1>7, <1>8, <1>9, <1>10, <1>11, <1>12, <1>13

-----------------------------------------------------------------------------
(* The user changes something.                                              *)

LEMMA KeptChange ==
  ASSUME Types, NEW m \in Memory, kept' = [part \in DOMAIN mem |-> kept[part] \cup Disk!Kept(m)[part]]
  PROVE  /\ kept' \in [doc : SUBSET Values, tray : SUBSET Disk!TrayChoices, prof : SUBSET Values, panel : SUBSET Values]
         /\ kept'.doc = kept.doc \cup {m.doc} /\ kept'.tray = kept.tray \cup {Disk!WithTray(m.tray)}
         /\ kept'.prof = kept.prof \cup {m.prof} /\ kept'.panel = kept.panel \cup {m.panel}
<1> DEFINE D == {"doc", "tray", "prof", "panel"}
<1>1. mem \in Memory /\ kept \in [doc : SUBSET Values, tray : SUBSET Disk!TrayChoices, prof : SUBSET Values, panel : SUBSET Values]
  BY DEF Types
<1>2. kept' = [part \in D |-> kept[part] \cup Disk!Kept(m)[part]]
  BY <1>1, MemoryIs
<1>3. /\ kept'["doc"] = kept.doc \cup {m.doc} /\ kept'["tray"] = kept.tray \cup {Disk!WithTray(m.tray)}
      /\ kept'["prof"] = kept.prof \cup {m.prof} /\ kept'["panel"] = kept.panel \cup {m.panel}
      /\ DOMAIN kept' = D /\ kept' = [part \in D |-> kept'[part]]
  BY <1>1, <1>2, MemoryIs
<1>4. /\ kept'["doc"] \subseteq Values /\ kept'["tray"] \subseteq Disk!TrayChoices
      /\ kept'["prof"] \subseteq Values /\ kept'["panel"] \subseteq Values
  BY <1>1, <1>3, MemoryIs, WithTrayIs
<1>5. PICK f : f = kept'
  OBVIOUS
<1>6. f \in [doc : SUBSET Values, tray : SUBSET Disk!TrayChoices, prof : SUBSET Values, panel : SUBSET Values]
  BY <1>3, <1>4, <1>5, KeptIs
<1> QED  BY <1>3, <1>5, <1>6

LEMMA ChangeKeepsInv ==
  ASSUME DiskBounds, ConfigInv, NEW m \in Memory, NEW parts, NEW todo \in Seq(Operation), Disk!Change(m, parts, todo),
         parts \subseteq {"doc", "tray", "prof", "panel"},
         based' = based \/ based' = file["profiles"].is, Saving'
  PROVE  ConfigInv'
<1> USE DEF ConfigInv
<1>1. /\ at = "runs" /\ at' = "runs" /\ ops' = todo /\ broken' = FALSE /\ saving' = parts /\ mem' = m
      /\ changes' \in 0..MaxRewrites /\ FilesOK
      /\ kept' = [part \in DOMAIN mem |-> kept[part] \cup Disk!Kept(m)[part]]
      /\ UNCHANGED <<file, found, passes, crashes, faults, lost, settled>>
  BY DEF Disk!Change, Disk!Goes, Disk!Ends, Types, DiskBounds
<1>2. /\ kept' \in [doc : SUBSET Values, tray : SUBSET Disk!TrayChoices, prof : SUBSET Values, panel : SUBSET Values]
      /\ kept'.doc = kept.doc \cup {m.doc} /\ kept'.tray = kept.tray \cup {Disk!WithTray(m.tray)}
      /\ kept'.prof = kept.prof \cup {m.prof} /\ kept'.panel = kept.panel \cup {m.panel}
  BY <1>1, KeptChange
<1>3. file["profiles"].is \in {"absent", "torn", "good"}
  BY <1>1, ContentsAre DEF FilesOK
<1>4. Types'
  <2>1. broken' \in BOOLEAN
    BY <1>1
  <2>2. based' \in {"absent", "torn", "good"}
    BY <1>3 DEF Types
  <2> QED  BY <1>1, <1>2, <2>1, <2>2, Stays DEF Types
<1>5. ~lost' => Found'
  BY <1>1, <1>2, Stays DEF Found
<1>6. Disk!ProfilesHaveCopy'
  <2>1. CASE based' = based
    BY <1>1, <1>2, <2>1, Stays DEF Disk!ProfilesHaveCopy
  <2>2. CASE based' = file["profiles"].is
    BY <1>1, <2>2, GoodIs DEF Disk!ProfilesHaveCopy
  <2> QED  BY <2>1, <2>2
<1>7. Running'
  BY <1>1, <1>2, Stays DEF Running, Chosen
<1>8. SettingsFirst' /\ WhenSettled'
  BY <1>1, Stays DEF SettingsFirst, WhenSettled
<1>9. Phases' /\ AtMigrate' /\ AtReload' /\ AtRead' /\ Converting' /\ AtPanel'
  BY <1>1 DEF Phases, AtMigrate, AtReload, AtRead, Converting, AtPanel
<1> QED  BY <1>4, <1>5, <1>6, <1>7, <1>8, <1>9

LEMMA ChangeDocKeepsInv ==
  ASSUME DiskBounds, ConfigInv, NEW v \in Values, Disk!ChangeDoc(v)  PROVE ConfigInv'
<1>1. mem \in Memory
  BY DEF ConfigInv, Types
<1>2. PICK m : m = [mem EXCEPT !.doc = v]
  OBVIOUS
<1>3. m \in Memory
  BY <1>1, <1>2 DEF Memory
<1>4. Disk!Change(m, {"doc", "tray"}, Disk!SaveSettings(m)) /\ based' = based
  BY <1>2 DEF Disk!ChangeDoc
<1>5. PICK todo \in Seq(Operation) :
        /\ todo = Disk!SaveSettings(m) /\ Len(todo) = 4
        /\ \A i \in 1..4 : SettingsOp(4 - i, todo[i], m)
  BY <1>3, MemoryIs, SettingsSave
<1>6. at' = "runs" /\ ops' = todo /\ saving' = {"doc", "tray"} /\ mem' = m
  BY <1>4, <1>5 DEF Disk!Change, Disk!Goes
<1>7. Saves(m, Disk!Absent, 0)'
  <2>1. ASSUME NEW i \in 1..4, NEW k, k = 4 - i
        PROVE  ~(k < 0) /\ k - 0 = 4 - i
    BY <2>1
  <2>2. ASSUME NEW i \in 1..Len(ops')
        PROVE  LET k == Len(ops') - i IN IF k < 0 THEN ProfilesOp(k, ops'[i], m, Disk!Absent) ELSE SettingsOp(k - 0, ops'[i], m)
    BY <1>5, <1>6, <2>1
  <2>3. Len(ops') <= 0 + 4
    <3>1. Len(ops') = 4 /\ 4 <= 0 + 4
      BY <1>5, <1>6
    <3> QED  BY <3>1
  <2> QED  BY <2>2, <2>3 DEF Saves
<1>8. Saving'
  <2>1. ~(Len(ops') < 4) /\ ~(Len(ops') < 3)
    BY <1>5, <1>6
  <2> QED  BY <1>6, <1>7, <2>1 DEF Saving
<1> QED  BY <1>3, <1>4, <1>5, <1>8, ChangeKeepsInv

LEMMA ChangeTrayKeepsInv ==
  ASSUME DiskBounds, ConfigInv, NEW t \in Disk!TrayChoices, Disk!ChangeTray(t)  PROVE ConfigInv'
<1>1. mem \in Memory
  BY DEF ConfigInv, Types
<1>2. PICK m : m = [mem EXCEPT !.tray = t]
  OBVIOUS
<1>3. m \in Memory /\ m.tray = t
  BY <1>1, <1>2 DEF Memory
<1>4. Disk!Change(m, {"tray"}, Disk!SaveTray(t, 0)) /\ based' = based
  BY <1>2 DEF Disk!ChangeTray
<1>5. PICK o \in Operation : o = Disk!Op(Disk!One("tray", Disk!Good(t)), 0) /\ Does(o, "tray", Disk!Good(t), 0) /\ ~o.logged
  BY InAny, OpIs DEF Disk!Files
<1>6. PICK todo \in Seq(Operation) : todo = Disk!SaveTray(t, 0) /\ Len(todo) = 1 /\ todo[1] = o
  <2>1. Disk!SaveTray(t, 0) = <<o>>
    BY <1>5 DEF Disk!SaveTray, Disk!WriteAtomic
  <2>2. <<o>> \in Seq(Operation) /\ Len(<<o>>) = 1 /\ <<o>>[1] = o
    OBVIOUS
  <2> QED  BY <2>1, <2>2
<1>7. at' = "runs" /\ ops' = todo /\ saving' = {"tray"} /\ mem' = m
  BY <1>4, <1>6 DEF Disk!Change, Disk!Goes
<1>8. Saving'
  BY <1>3, <1>5, <1>6, <1>7 DEF Saving
<1> QED  BY <1>3, <1>4, <1>6, <1>8, ChangeKeepsInv

LEMMA ChangePanelKeepsInv ==
  ASSUME DiskBounds, ConfigInv, NEW v \in Values, Disk!ChangePanel(v)  PROVE ConfigInv'
<1>1. mem \in Memory
  BY DEF ConfigInv, Types
<1>2. PICK m : m = [mem EXCEPT !.panel = v]
  OBVIOUS
<1>3. m \in Memory /\ m.panel = v
  BY <1>1, <1>2 DEF Memory
<1>4. Disk!Change(m, {"panel"}, Disk!WriteAtomic("panel", v, 0)) /\ based' = based
  BY <1>2 DEF Disk!ChangePanel
<1>5. PICK o \in Operation : o = Disk!Op(Disk!One("panel", Disk!Good(v)), 0) /\ Does(o, "panel", Disk!Good(v), 0) /\ ~o.logged
  BY InAny, OpIs DEF Disk!Files
<1>6. PICK todo \in Seq(Operation) : todo = Disk!WriteAtomic("panel", v, 0) /\ Len(todo) = 1 /\ todo[1] = o
  <2>1. Disk!WriteAtomic("panel", v, 0) = <<o>>
    BY <1>5 DEF Disk!WriteAtomic
  <2>2. <<o>> \in Seq(Operation) /\ Len(<<o>>) = 1 /\ <<o>>[1] = o
    OBVIOUS
  <2> QED  BY <2>1, <2>2
<1>7. at' = "runs" /\ ops' = todo /\ saving' = {"panel"} /\ mem' = m
  BY <1>4, <1>6 DEF Disk!Change, Disk!Goes
<1>8. Saving'
  BY <1>3, <1>5, <1>6, <1>7 DEF Saving
<1> QED  BY <1>3, <1>4, <1>6, <1>8, ChangeKeepsInv

LEMMA ChangeProfileKeepsInv ==
  ASSUME DiskBounds, ConfigInv, NEW v \in Values, Disk!ChangeProfile(v)  PROVE ConfigInv'
<1>1. mem \in Memory /\ FilesOK
  BY DEF ConfigInv, Types
<1>2. PICK m, c : m = [mem EXCEPT !.prof = v] /\ c = file["profiles"]
  OBVIOUS
<1>3. m \in Memory /\ m.prof \in Values /\ c \in Contents
  BY <1>1, <1>2 DEF Memory, FilesOK
<1>4. Disk!Change(m, {"prof"}, Disk!SaveProfiles(m)) /\ based' = c.is
  BY <1>2 DEF Disk!ChangeProfile
<1>5. PICK n \in {2, 4} : n = IF c = Disk!Absent THEN 2 ELSE 4
  OBVIOUS
<1>6. PICK todo \in Seq(Operation) :
        /\ todo = Disk!SaveProfiles(m) /\ Len(todo) = n
        /\ \A i \in 1..n : ProfilesOp(n - i, todo[i], m, c)
  BY <1>1, <1>2, <1>3, <1>5, ProfilesSave
<1>7. /\ at' = "runs" /\ ops' = todo /\ saving' = {"prof"} /\ mem' = m /\ file' = file /\ lost' = lost
      /\ kept' = [part \in DOMAIN mem |-> kept[part] \cup Disk!Kept(m)[part]]
  BY <1>4, <1>6 DEF Disk!Change, Disk!Goes
<1>8. Saves(m, c, n)'
  <2>1. ASSUME NEW i \in 1..n, NEW k, k = n - i  PROVE k < n
    <3>1. n \in Nat
      OBVIOUS
    <3> QED  BY <2>1, <3>1
  <2>2. ASSUME NEW i \in 1..Len(ops')
        PROVE  LET k == Len(ops') - i IN IF k < n THEN ProfilesOp(k, ops'[i], m, c) ELSE SettingsOp(k - n, ops'[i], m)
    BY <1>6, <1>7, <2>1
  <2>3. Len(ops') <= n + 4
    BY <1>6, <1>7
  <2> QED  BY <2>2, <2>3 DEF Saves
<1>9. ProfilesSoFar(m, c, n)'
  <2>1. c.is = "good" => c # Disk!Absent
    BY GoodIs
  <2>2. Len(ops') \in 1..2 => n = 2
    <3>1. Len(ops') = n
      BY <1>6, <1>7
    <3>2. n \in 1..2 => n = 2
      OBVIOUS
    <3> QED  BY <3>1, <3>2
  <2>3. ~lost' /\ c.is = "good" => c.v \in kept'.prof
    <3>1. kept.prof \subseteq kept'.prof
      BY <1>3, <1>7, KeptChange DEF ConfigInv
    <3>2. c.is = "good" => Disk!FoundProf = c.v /\ c # Disk!Torn
      BY <1>2, GoodIs DEF Disk!FoundProf, Disk!Present
    <3> QED  BY <1>2, <1>7, <3>1, <3>2 DEF ConfigInv, Found
  <2>4. file'["profiles"] = c
    BY <1>2, <1>7
  <2> QED  BY <1>3, <1>4, <1>5, <2>1, <2>2, <2>3, <2>4 DEF ProfilesSoFar
<1>10. Saving'
  <2>1. Len(ops') <= n
    BY <1>6, <1>7
  <2> QED  BY <1>3, <1>7, <1>8, <1>9, <2>1 DEF Saving
<1> QED  BY <1>2, <1>3, <1>4, <1>6, <1>10, ChangeKeepsInv

-----------------------------------------------------------------------------
(* The start of all, and the properties.                                    *)

LEMMA NextKeepsInv ==
  ASSUME DiskBounds, ConfigInv, [Disk!Next]_(Disk!configVars)  PROVE ConfigInv'
<1>1. CASE UNCHANGED Disk!configVars
  <2>1. /\ UNCHANGED <<file, at, ops, mem, found, passes, broken, changes, crashes, faults>>
        /\ UNCHANGED <<saving, kept, lost, based, settled>>
    BY <1>1 DEF Disk!configVars
  <2> USE DEF ConfigInv
  <2>2. Types' /\ Phases' /\ AtMigrate'
    BY <2>1, Stays DEF Types, Phases, AtMigrate
  <2>3. AtReload'
    BY <2>1 DEF AtReload, Migrates, MigrationOp, Sound, InTray, Firm, Disk!Readable
  <2>4. AtRead' /\ AtPanel' /\ SettingsFirst' /\ Running' /\ WhenSettled' /\ (~lost' => Found') /\ Disk!ProfilesHaveCopy'
    BY <2>1, Stays DEF AtRead, Firm, AtPanel, SettingsFirst, Running, WhenSettled, Found, Disk!ProfilesHaveCopy, Chosen
  <2>5. Converting' /\ Saving'
    BY <2>1, Stays DEF Converting, Saving, Saves, ProfilesSoFar, Chosen
  <2> QED  BY <2>2, <2>3, <2>4, <2>5
<1>2. CASE Disk!Step
  BY <1>2, StepKeepsInv
<1>3. CASE Disk!Fails
  BY <1>3, FailsKeepsInv
<1>4. CASE Disk!Quit \/ Disk!Crash
  BY <1>4, EndedKeepsInv
<1>5. CASE Disk!Start \/ Disk!LoadTray \/ Disk!Migrate \/ Disk!Reload
  BY <1>5, StartKeepsInv, LoadTrayKeepsInv, MigrateKeepsInv, ReloadKeepsInv
<1>6. CASE Disk!Read \/ Disk!ReadFails \/ Disk!LoadPanel
  BY <1>6, ReadKeepsInv, ReadFailsKeepsInv, LoadPanelKeepsInv
<1>7. CASE \E v \in Values : Disk!ChangeDoc(v) \/ Disk!ChangeProfile(v) \/ Disk!ChangePanel(v)
  BY <1>7, ChangeDocKeepsInv, ChangeProfileKeepsInv, ChangePanelKeepsInv
<1>8. CASE \E t \in Disk!TrayChoices : Disk!ChangeTray(t)
  BY <1>8, ChangeTrayKeepsInv
<1> QED  BY <1>1, <1>2, <1>3, <1>4, <1>5, <1>6, <1>7, <1>8 DEF Disk!Next

LEMMA InitHasInv ==
  ASSUME DiskBounds, Disk!Init  PROVE ConfigInv
<1>1. PICK settings \in {Disk!Absent} \cup {Disk!Settings(1, k) : k \in Disk!TrayChoices \cup {"none"}},
           byHand \in {<<Disk!Absent, Disk!Absent>>, <<Disk!Torn, Disk!Torn>>, <<Disk!Good("tray"), Disk!Good(1)>>},
           old \in {Disk!Absent, Disk!Good([doc |-> 1, tray |-> "tray", prof |-> 1])},
           profiles \in {Disk!Absent, Disk!Good(1)} :
        file = [f \in Disk!Files |-> CASE f = "settings" -> settings
                                  [] f = "tray" -> byHand[1]
                                  [] f = "panel" -> byHand[2]
                                  [] f = "config" -> old
                                  [] f = "profiles" -> profiles
                                  [] OTHER -> Disk!Absent]
  BY DEF Disk!Init
<1>2. /\ at = "down" /\ ops = <<>> /\ mem = Disk!Default /\ found = "off" /\ passes = 0 /\ broken = FALSE
      /\ changes = 0 /\ crashes = 0 /\ faults = 0
      /\ kept = [doc |-> {Disk!FoundDoc}, tray |-> {Disk!FoundTray}, prof |-> {Disk!FoundProf}, panel |-> {Disk!FoundPanel}]
      /\ saving = {} /\ lost = FALSE /\ based = "absent" /\ settled = FALSE
  BY DEF Disk!Init
<1>3. /\ file["settings"] = settings /\ file["tray"] = byHand[1] /\ file["panel"] = byHand[2]
      /\ file["config"] = old /\ file["profiles"] = profiles /\ file["profiles.bak"] = Disk!Absent
  BY <1>1 DEF Disk!Files
<1>4. settings \in SettingsContents
  BY <1>1, InAny DEF Keys, DiskBounds
<1>5. byHand[1] \in TrayContents /\ byHand[2] \in Contents
  BY <1>1, InAny DEF Disk!TrayChoices, DiskBounds
<1>6. old \in OldContents /\ old \in Written
  <2>1. [doc |-> 1, tray |-> "tray", prof |-> 1] \in Old
    BY DEF Old, DiskBounds, Disk!TrayChoices
  <2> QED  BY <1>1, <2>1 DEF OldContents, Written
<1>7. profiles \in Contents /\ profiles # Disk!Torn
  BY <1>1, InAny, GoodIs DEF DiskBounds
<1>8. FilesOK
  <2>1. \A f \in Disk!Files : file[f] \in Written
    BY <1>1, <1>3, <1>4, <1>5, <1>6, <1>7, InAny
  <2>2. file \in [Disk!Files -> Written]
    BY <1>1, <2>1
  <2> QED  BY <1>3, <1>4, <1>5, <1>6, <1>7, <2>2, InAny DEF FilesOK
<1>9. /\ Disk!FoundDoc \in Values /\ Disk!FoundTray \in Disk!TrayChoices /\ Disk!FoundPanel \in Values /\ Disk!FoundProf \in Values
  BY <1>3, <1>7, <1>8, FoundTypes
<1>10. Types
  <2>1. mem \in Memory /\ found \in Disk!TrayChoices
    BY <1>2 DEF Disk!Default, Memory, DiskBounds, Disk!TrayChoices
  <2>2. ops \in Seq(Operation)
    BY <1>2
  <2>3. kept \in [doc : SUBSET Values, tray : SUBSET Disk!TrayChoices, prof : SUBSET Values, panel : SUBSET Values]
    BY <1>2, <1>9
  <2>4. broken \in BOOLEAN /\ lost \in BOOLEAN /\ settled \in BOOLEAN
    BY <1>2
  <2>5. passes \in 0..2 /\ changes \in 0..MaxRewrites /\ crashes \in 0..MaxCrashes /\ faults \in 0..MaxBreaks
    BY <1>2 DEF DiskBounds
  <2> QED  BY <1>2, <1>8, <2>1, <2>2, <2>3, <2>4, <2>5 DEF Types
<1>11. Found
  BY <1>2 DEF Found
<1>12. SettingsFirst /\ Disk!ProfilesHaveCopy
  BY <1>3, <1>7 DEF SettingsFirst, Disk!ProfilesHaveCopy
<1>13. Phases /\ AtMigrate /\ AtReload /\ AtRead /\ Converting /\ AtPanel /\ Running /\ Saving /\ WhenSettled
  BY <1>2 DEF Phases, AtMigrate, AtReload, AtRead, Converting, AtPanel, Running, Saving, WhenSettled
<1> QED  BY <1>10, <1>11, <1>12, <1>13 DEF ConfigInv

\* ConfigInv holds always.
LEMMA ConfigInvHolds ==
  ASSUME DiskBounds  PROVE Disk!Spec => []ConfigInv
<1>1. Disk!Init => ConfigInv
  BY InitHasInv
<1>2. ConfigInv /\ [Disk!Next]_(Disk!configVars) => ConfigInv'
  BY NextKeepsInv
<1> QED  BY <1>1, <1>2, PTL DEF Disk!Spec

LEMMA InvGives ==
  ASSUME ConfigInv  PROVE Disk!ChoicesSurvive /\ Disk!MemoryAgrees /\ Disk!ProfilesHaveCopy
<1> USE DEF ConfigInv
<1>1. Disk!ChoicesSurvive
  <2>1. file["settings"] # Disk!Torn
    BY FilesAre DEF Types
  <2> QED  BY <2>1 DEF Disk!ChoicesSurvive, Found
<1>2. Disk!MemoryAgrees
  <2>1. mem \in Memory
    BY DEF Types
  <2>2. DOMAIN mem = {"doc", "tray", "prof", "panel"}
    BY <2>1, MemoryIs
  <2>3. /\ Disk!Kept(mem)["doc"] = {mem.doc} /\ Disk!Kept(mem)["tray"] = {Disk!WithTray(mem.tray)}
        /\ Disk!Kept(mem)["prof"] = {mem.prof} /\ Disk!Kept(mem)["panel"] = {mem.panel}
    BY <2>1, MemoryIs
  <2>4. at = "runs" /\ ~lost => /\ mem.doc \in kept["doc"] /\ Disk!WithTray(mem.tray) \in kept["tray"]
                                /\ mem.prof \in kept["prof"] /\ mem.panel \in kept["panel"]
    BY DEF Running, Chosen
  <2> QED  BY <2>2, <2>3, <2>4 DEF Disk!MemoryAgrees
<1> QED  BY <1>1, <1>2

\* Every variable has its type.
THEOREM ConfigTypes ==
  ASSUME DiskBounds  PROVE Disk!Spec => []Disk!TypeOK
<1>1. ASSUME ConfigInv  PROVE Disk!TypeOK
  <2>1. Types /\ FilesOK
    BY <1>1 DEF ConfigInv, Types
  <2>2. DOMAIN file = Disk!Files /\ \A f \in Disk!Files : file[f].is \in {"absent", "torn", "good"}
    BY <2>1, ContentsAre DEF FilesOK
  <2>3. saving \subseteq DOMAIN Disk!Default
    BY <2>1 DEF Types, Disk!Default
  <2>4. {broken, lost, settled} \subseteq BOOLEAN
    BY <2>1 DEF Types
  <2> QED  BY <2>1, <2>2, <2>3, <2>4 DEF Types, Disk!TypeOK, Memory
<1> QED  BY <1>1, ConfigInvHolds, PTL

\* Wherever the process is killed and whatever writes fail, the next start finds
\* what was last saved or was being saved, a running process has in memory what a
\* start may find, and a profiles.json that was cut off leaves its copy
\* (write_atomic, migrate_tray_config, save_profiles_to_disk).
THEOREM ChoicesAlwaysSurvive ==
  ASSUME DiskBounds  PROVE Disk!Spec => []SettingsSurvive
<1>1. ConfigInv => Disk!ChoicesSurvive /\ Disk!MemoryAgrees /\ Disk!ProfilesHaveCopy
  BY InvGives
<1>2. Disk!TypeOK /\ Disk!ChoicesSurvive /\ Disk!MemoryAgrees /\ Disk!ProfilesHaveCopy => SettingsSurvive
  BY DEF SettingsSurvive
<1> QED  BY <1>1, <1>2, ConfigInvHolds, ConfigTypes, PTL

\* A load that follows one that went through changes no file (migrate_tray_config,
\* load_config_from_dir: they convert what is old, once).
THEOREM SecondLoadStaysIdle ==
  ASSUME DiskBounds  PROVE Disk!Spec => Disk!SecondLoadIsIdle
<1>1. ConfigInv /\ [Disk!Next]_(Disk!configVars) => [settled /\ at \notin {"runs", "down"} => UNCHANGED file]_(Disk!configVars)
  <2> SUFFICES ASSUME ConfigInv, Disk!Next, settled, at \notin {"runs", "down"}  PROVE UNCHANGED file
    OBVIOUS
  <2>1. ~Disk!Step
    BY DEF ConfigInv, WhenSettled, Disk!Step
  <2>2. CASE \/ Disk!Fails \/ Disk!Quit \/ Disk!Crash \/ Disk!Start \/ Disk!LoadTray \/ Disk!Migrate \/ Disk!Reload \/ Disk!Read \/ Disk!ReadFails \/ Disk!LoadPanel
    BY <2>2 DEF Disk!Fails, Disk!Quit, Disk!Crash, Disk!Ended, Disk!Start, Disk!LoadTray, Disk!Migrate, Disk!Reload, Disk!Read, Disk!ReadFails, Disk!LoadPanel
  <2>3. CASE (\E v \in Values : Disk!ChangeDoc(v) \/ Disk!ChangeProfile(v) \/ Disk!ChangePanel(v)) \/ \E t \in Disk!TrayChoices : Disk!ChangeTray(t)
    BY <2>3 DEF Disk!ChangeDoc, Disk!ChangeProfile, Disk!ChangePanel, Disk!ChangeTray, Disk!Change
  <2> QED  BY <2>1, <2>2, <2>3 DEF Disk!Next
<1> QED  BY <1>1, ConfigInvHolds, PTL DEF Disk!Spec, Disk!SecondLoadIsIdle
=============================================================================
