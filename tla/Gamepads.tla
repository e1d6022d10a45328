------------------------------ MODULE Gamepads ------------------------------
(***************************************************************************)
(* The gamepads: the daemon lists the connected ones under the best identity *)
(* it can find, the window reconciles each list with the rows it remembers.  *)
(* All pads are of one model, the case in which only the identity tells them *)
(* apart.                                                                   *)
(***************************************************************************)
EXTENDS Integers, Sequences, FiniteSets, SequencesExt

CONSTANTS
  Pads,       \* the pads
  Identities, \* per pad: the best identity it has, as a choice for the initial state
  MaxNodes    \* bound: input nodes that the kernel gives out

VARIABLES
  identity,   \* per pad: "mac", "serial", "model" (a serial that names the model) or "none"
  node,       \* per pad: its input node, 0 if it is not connected
  wire,       \* per pad: how it is connected
  nodes,      \* nodes given out
  list,       \* the list last reconciled
  rows        \* remembered_gamepads

padVars == <<identity, node, wire, nodes, list, rows>>

Wires == {"wired", "wireless"}
Stable == ({"mac", "serial"} \X Pads) \cup {<<"model", "any">>}
Volatile == {"path"} \X (1..MaxNodes)
Uids == Stable \cup Volatile

TypeOK ==
  /\ identity \in [Pads -> {"mac", "serial", "model", "none"}]
  /\ node \in [Pads -> 0..MaxNodes] /\ wire \in [Pads -> Wires] /\ nodes \in 0..MaxNodes
  /\ list \in Seq([uid : Uids, wire : Wires])
  /\ rows \in Seq([uid : Uids, wire : Wires, on : BOOLEAN])

Init ==
  /\ identity \in Identities
  /\ node = [p \in Pads |-> 0] /\ wire = [p \in Pads |-> "wired"]
  /\ nodes = 0 /\ list = <<>> /\ rows = <<>>

-----------------------------------------------------------------------------
(* The daemon.                                                              *)

\* get_gamepad_info: the address of the pad, else what udev has published by now,
\* else the node, which is another one after each connection.
Uid(p, published) ==
  CASE identity[p] = "mac" -> <<"mac", p>>
    [] identity[p] = "serial" /\ p \in published -> <<"serial", p>>
    [] identity[p] = "model" /\ p \in published -> <<"model", "any">>
    [] OTHER -> <<"path", node[p]>>

Connected == {p \in Pads : node[p] # 0}

\* The pads in the order of the directory, each uid once.
Add(acc, p, published) ==
  IF \E i \in DOMAIN acc : acc[i].uid = Uid(p, published) THEN acc
  ELSE Append(acc, [uid |-> Uid(p, published), wire |-> wire[p]])
Listed(order, published) == FoldLeft(LAMBDA acc, p : Add(acc, p, published), <<>>, order)

-----------------------------------------------------------------------------
(* The window: reconcile.                                                   *)

On(r, seen) ==
  IF \E i \in DOMAIN seen : seen[i].uid = r.uid
  THEN [r EXCEPT !.on = TRUE, !.wire = seen[CHOOSE i \in DOMAIN seen : seen[i].uid = r.uid].wire]
  ELSE [r EXCEPT !.on = FALSE]

\* Mutant of Kept: every row is remembered.
KeptAll(r, seen) == TRUE

\* A row of a session ends with it.
Kept(r, seen) == r.uid \in Stable \/ \E i \in DOMAIN seen : seen[i].uid = r.uid

\* retain_mut.
Retain(acc, r, seen) == IF Kept(r, seen) THEN Append(acc, r) ELSE acc
Retained(all, seen) == FoldLeft(LAMBDA acc, r : Retain(acc, r, seen), <<>>, all)

\* A pad that is not known takes over the first row of its model and connection,
\* if its identity is stable, and else gets a row of its own.
Adopted(acc, c) ==
  LET slots == {i \in DOMAIN acc : acc[i].wire = c.wire}
      new == [uid |-> c.uid, wire |-> c.wire, on |-> TRUE]
  IN  IF \E i \in DOMAIN acc : acc[i].uid = c.uid THEN acc
      ELSE IF c.uid \in Stable /\ slots # {}
           THEN [acc EXCEPT ![CHOOSE i \in slots : \A j \in slots : i <= j] = new]
           ELSE Append(acc, new)

AllAdopted(old, seen) == FoldLeft(Adopted, old, seen)

Reconciled(seen) ==
  LET updated == [i \in DOMAIN rows |-> On(rows[i], seen)]
  IN  AllAdopted(Retained(updated, seen), seen)

-----------------------------------------------------------------------------
Connect(p, w) ==
  /\ node[p] = 0 /\ nodes < MaxNodes
  /\ nodes' = nodes + 1 /\ node' = [node EXCEPT ![p] = nodes + 1]
  /\ wire' = [wire EXCEPT ![p] = w]
  /\ UNCHANGED <<identity, list, rows>>

Disconnect(p) ==
  /\ node[p] # 0 /\ node' = [node EXCEPT ![p] = 0]
  /\ UNCHANGED <<identity, wire, nodes, list, rows>>

\* A list is made and reconciled; one that is dropped on the way is as if it had
\* not been made.
Poll(published) ==
  /\ \E order \in SetToSeqs(Connected) :
       /\ list' = Listed(order, published)
       /\ rows' = Reconciled(list')
  /\ UNCHANGED <<identity, node, wire, nodes>>

Next ==
  \/ \E p \in Pads : (\E w \in Wires : Connect(p, w)) \/ Disconnect(p)
  \/ \E published \in SUBSET Pads : Poll(published)

Spec == Init /\ [][Next]_padVars

-----------------------------------------------------------------------------
(* Properties.                                                              *)

\* The rows do not grow with each reconnection: one row for an identity, none for
\* a session that has ended, and no row is shown as connected that is not
\* (gamepad_registry: "never allowed to accumulate one row per reconnect").
RowsDoNotPile ==
  /\ \A i, j \in DOMAIN rows : rows[i].uid = rows[j].uid => i = j
  /\ \A i \in DOMAIN rows :
       rows[i].on \/ rows[i].uid \in Volatile => \E j \in DOMAIN list : list[j].uid = rows[i].uid

\* Every pad that is listed has a row: one is taken over only by the same pad
\* (gamepad_registry: "same physical device re-identified").
ListedHaveRows == \A j \in DOMAIN list : \E i \in DOMAIN rows : rows[i].uid = list[j].uid
=============================================================================
