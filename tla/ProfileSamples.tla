--------------------------- MODULE ProfileSamples ---------------------------
(* The calls that the runs of ProfileSteps make: profiles that switch the    *)
(* pstate mode and set what the switch resets, single calls, and values that *)
(* the guard or the kernel refuses.                                          *)
EXTENDS Integers, TLC

SampleModes ==
  ("active" :> {"performance", "powersave"}) @@ ("passive" :> {"ondemand", "schedutil"})

Set(k, v) == [do |-> k, to |-> v]
Span(a, b) == [do |-> "limits", from |-> a, to |-> b]
Keys(on, effect) ==
  [do |-> "keyboard", on |-> on, colour |-> "red", effect |-> effect, light |-> 80]
Charge(a, b) == [do |-> "battery", on |-> TRUE, start |-> a, end |-> b]

SampleRequests == {
  {Set("mode", "passive"), Set("governor", "schedutil"), Span(2, 3), Set("boost", FALSE)},
  {Set("mode", "active"), Set("governor", "powersave"), Set("epp", "power")},
  {Span(9, 3)}, {Set("mode", "passive")},
  {Set("smt", FALSE), Keys(FALSE, 0)}, {Set("smt", TRUE)},
  {Set("governor", "bogus")}, {Set("epp", "loud")}, {Set("tdp", "power_save")},
  {Set("tdp", "enthusiast"), Keys(TRUE, 7), Set("screen", 40), Charge(40, 80)}}

SampleBreakable == {<<"hi", 1>>, <<"colour", 0>>}
=============================================================================
