---------------------------- MODULE FrameHistory ----------------------------
(***************************************************************************)
(* What the frame metrics promise, without the shared memory between them:  *)
(* every process appends frame intervals to a history, and a poll publishes *)
(* the newest intervals of one process, as that history was at one moment   *)
(* between the beginning of the poll and its end, or nothing at all.  An    *)
(* interval is its number in the history.                                   *)
(***************************************************************************)
EXTENDS Integers, Sequences

CONSTANTS
  Sources,   \* the histories
  Cap        \* how many intervals a history keeps

VARIABLES
  recorded,  \* per source: the intervals recorded so far
  floor,     \* per source: those recorded when the poll under way began
  published  \* what is shown: the source (0: nothing) and its intervals

vars == <<recorded, floor, published>>

Zero == [s \in Sources |-> 0]
Nothing == [source |-> 0, frames |-> <<>>]

\* The newest intervals of a history of k, oldest first.
Newest(k) ==
  LET n == IF k < Cap THEN k ELSE Cap IN [i \in 1..n |-> k - n + i]

Init ==
  /\ recorded = Zero
  /\ floor = Zero
  /\ published = Nothing

Record(s) ==
  /\ recorded' = [recorded EXCEPT ![s] = @ + 1]
  /\ UNCHANGED <<floor, published>>

BeginPoll ==
  /\ floor' = recorded
  /\ UNCHANGED <<recorded, published>>

Publish(s) ==
  /\ \E k \in floor[s]..recorded[s] :
       published' = [source |-> s, frames |-> Newest(k)]
  /\ floor' = Zero
  /\ UNCHANGED recorded

Clear ==
  /\ published' = Nothing
  /\ floor' = Zero
  /\ UNCHANGED recorded

Next ==
  \/ \E s \in Sources : Record(s) \/ Publish(s)
  \/ BeginPoll
  \/ Clear

Spec == Init /\ [][Next]_vars
=============================================================================
