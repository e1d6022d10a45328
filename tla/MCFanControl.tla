---------------------------- MODULE MCFanControl ----------------------------
(* Two fans with one curve, its points out of order. *)
EXTENDS FanControl
MCFans == 0..1
Both == <<<<60, 100>>, <<40, 20>>>>
MCSettings == {(0 :> Both) @@ (1 :> Both)}
=============================================================================
