----------------------------- MODULE PanelConfig -----------------------------
(***************************************************************************)
(* The panel's configuration: normalized when it is loaded, whatever a hand  *)
(* has written into the file, changed control by control in the settings     *)
(* window, and saved by the frame in which a control says that it changed.   *)
(***************************************************************************)
EXTENDS Integers, Sequences, SequencesExt, FiniteSets

CONSTANTS
  Rows,         \* the registry's row ids, in its order
  Stranger,     \* an id that is not in it
  Least, Most,     \* the range of a slider
  NaN,          \* a number that is not one
  Keys,         \* texts of the hotkey field
  MaxEntries,   \* bound: entries of rows in a file
  MaxEdits,     \* bound: changes
  MaxFaults     \* bound: saves that fail

VARIABLES
  config,   \* panel_config
  disk,     \* panel.json
  grabbed,  \* panel_hotkey_grabbed
  unsaved,  \* history: the last save failed
  typing,   \* history: the hotkey field holds what was not committed
  edits, faults

panelVars == <<config, disk, grabbed, unsaved, typing, edits, faults>>

RowIds == {Rows[i] : i \in 1..Len(Rows)}
RowConfigs == [id : RowIds \cup {Stranger}, visible : BOOLEAN]

-----------------------------------------------------------------------------
(* normalize.                                                               *)

\* normalize_float.
NormalFloat(v, default) == IF v = NaN THEN default ELSE IF v < Least THEN Least ELSE IF v > Most THEN Most ELSE v

\* normalize_u32.
NormalNumber(v) == IF v < Least THEN Least ELSE IF v > Most THEN Most ELSE v

\* A row is kept if it is known and the first of its id.
Keep(rows, row) ==
  IF row.id \in RowIds /\ \A i \in 1..Len(rows) : rows[i].id # row.id THEN Append(rows, row) ELSE rows

\* An id without a row gets a hidden one.
Fill(rows, id) ==
  IF \A i \in 1..Len(rows) : rows[i].id # id THEN Append(rows, [id |-> id, visible |-> FALSE]) ELSE rows

Filled(rows, ids) == FoldLeft(Fill, rows, ids)

\* Mutant of NormalRows: a duplicate is laid out twice.
NormalRowsTwice(rows) == Filled(SelectSeq(rows, LAMBDA row : row.id \in RowIds), Rows)

\* normalize_rows: the first of each known id, and then the ids that are missing.
Kept(rows) == FoldLeft(Keep, <<>>, rows)
NormalRows(rows) == Filled(Kept(rows), Rows)

\* normalize; Stacking::from_stored and parse_position have read the two fields that
\* cannot fail the file.
Normalize(c) ==
  [c EXCEPT !.width = NormalFloat(@, Least), !.seconds = NormalNumber(@), !.rows = NormalRows(@)]

\* Stacking::from_stored.
FromStored(text) == text # "normal"

\* parse_position, deserialize_position.
ParsePosition(p) == IF NaN \in {p[i] : i \in 1..Len(p)} \/ Len(p) # 2 THEN <<>> ELSE p

\* What a file may say: rows in any order, twice or of another build; a number out of its
\* range.
Files ==
  {f \in [width : {NaN, Least - 1, Most + 1}, seconds : {Least - 1, Most, Most + 1},
          top : {FromStored(text) : text \in {"normal", "floating"}}, hide : {TRUE},
          position : {ParsePosition(p) : p \in {<<>>, <<NaN, 0>>, <<0, 0>>}}, hotkey : {"key"},
          rows : UNION {[1..l -> RowConfigs] : l \in 0..MaxEntries}] :
     <<f.width, f.seconds>> \in {<<NaN, Least - 1>>, <<Least - 1, Most>>, <<Most + 1, Most + 1>>}}

\* PanelConfig::fresh: the rows that a new installation shows.
Fresh ==
  [width |-> Least, seconds |-> Least, top |-> TRUE, hide |-> TRUE, position |-> <<>>, hotkey |-> "key",
   rows |-> [i \in 1..Len(Rows) |-> [id |-> Rows[i], visible |-> i = 1]]]

-----------------------------------------------------------------------------
(* The process.                                                             *)

\* load_panel_config, and start_hotkey with what it says.
Load(file) == config = Normalize(file) /\ grabbed = Normalize(file).hotkey

Init ==
  /\ disk \in Files \cup {Fresh} /\ Load(disk)
  /\ unsaved = FALSE /\ typing = FALSE /\ edits = 0 /\ faults = 0

\* Started again, also after a kill.
Restart ==
  /\ config' = Normalize(disk) /\ grabbed' = Normalize(disk).hotkey
  /\ typing' = FALSE /\ unsaved' = FALSE
  /\ UNCHANGED <<disk, edits, faults>>

\* save_panel_config, whose failure is only logged.
Save ==
  \/ disk' = config' /\ unsaved' = FALSE /\ UNCHANGED faults
  \/ faults < MaxFaults /\ faults' = faults + 1 /\ unsaved' = TRUE /\ UNCHANGED disk

\* What an outcome of the settings window does to the file: apply_settings_outcome.
Outcome(configChanged) == IF configChanged THEN Save ELSE UNCHANGED <<disk, unsaved, faults>>

Edit(c) == edits < MaxEdits /\ edits' = edits + 1 /\ c # config /\ config' = c

\* The sliders.
SetWidth == (\E v \in Least..Most : Edit([config EXCEPT !.width = v])) /\ Outcome(TRUE)
SetSeconds == (\E v \in Least..Most : Edit([config EXCEPT !.seconds = v])) /\ Outcome(TRUE)

\* Mutant of TaskbarChanged: the box only asks for a frame.
TaskbarUnsaved == FALSE

\* taskbar_control.
TaskbarChanged == TRUE

\* The window controls.
SetWindow ==
  \/ Edit([config EXCEPT !.top = ~@]) /\ Outcome(TRUE)
  \/ Edit([config EXCEPT !.hide = ~@]) /\ Outcome(TaskbarChanged)

\* draw_group: the box of a row.
ToggleRow ==
  (\E i \in 1..Len(config.rows) : Edit([config EXCEPT !.rows[i].visible = ~@])) /\ Outcome(TRUE)

\* hotkey_control: the field writes into the configuration as it is typed; it is committed
\* when it loses the focus, which a field that is no longer drawn never does.
Type ==
  /\ \E k \in Keys : Edit([config EXCEPT !.hotkey = k])
  /\ typing' = TRUE /\ UNCHANGED <<grabbed, disk, unsaved, faults>>

Commit ==
  /\ typing /\ config.hotkey # grabbed
  /\ UNCHANGED config /\ Outcome(TRUE) /\ grabbed' = config.hotkey /\ typing' = FALSE
  /\ UNCHANGED edits

\* track_panel_position saves the whole of it.
Settle == Edit([config EXCEPT !.position = <<1, 1>>]) /\ Save

Next ==
  \/ Restart \/ Type \/ Commit
  \/ (SetWidth \/ SetSeconds \/ SetWindow \/ ToggleRow \/ Settle) /\ UNCHANGED <<grabbed, typing>>

Spec == Init /\ [][Next]_panelVars

-----------------------------------------------------------------------------
(* Properties.                                                              *)

\* The configuration in use can be laid out, whatever the file said: every row once, every
\* number in its range, a position that can be asked for (normalize).
Usable ==
  /\ {config.width, config.seconds} \subseteq Least..Most
  /\ Len(config.rows) = Len(Rows) /\ {row.id : row \in ToSet(config.rows)} = RowIds
  /\ config.position \in {<<>>} \cup {<<x, y>> : x, y \in Least - 1..Most + 1}
  /\ grabbed \in Keys /\ config.hotkey \in Keys

\* What the file had is kept: the known rows in its order, each as the first entry for it
\* said; another load of what is saved changes nothing (normalize_rows).
OrderIsKept ==
  /\ Normalize(config) = config
  /\ edits = 0 =>
       \A i, j \in 1..Len(disk.rows) :
         /\ disk.rows[i].id \in RowIds
         /\ disk.rows[j].id \in RowIds \ {disk.rows[i].id} /\ i < j
         /\ \A h \in 1..(i - 1) : disk.rows[h].id # disk.rows[i].id
         /\ \A h \in 1..(j - 1) : disk.rows[h].id # disk.rows[j].id
         => \E m, n \in 1..Len(config.rows) :
              m < n /\ config.rows[m] = disk.rows[i] /\ config.rows[n].id = disk.rows[j].id

\* Every control that changes the configuration has it saved in the same frame, but the
\* hotkey field (SettingsOutcome).
EditsAreSaved ==
  edits > 0 /\ ~unsaved => Normalize(disk) = config \/ (typing /\ [Normalize(disk) EXCEPT !.hotkey = config.hotkey] = config)
=============================================================================
