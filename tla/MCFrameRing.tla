---------------------------- MODULE MCFrameRing ----------------------------
(* Two processes with the same pid, one after the other, each with instances *)
(* that share its writer; the first segment wraps its ring, the second is    *)
(* presented to and records nothing.                                         *)
EXTENDS FrameRing
SamePid == [g \in Games |-> 1]
MCFrames == [s \in Segs |-> IF s = 1 THEN 3 ELSE 0]
=============================================================================
