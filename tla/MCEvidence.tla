------------------------------ MODULE MCEvidence ------------------------------
(***************************************************************************)
(* Instances of EvidenceCollection for TLC.                                *)
(***************************************************************************)
EXTENDS EvidenceCollection, TLC

CONSTANTS run, rival

Places     == {"park", "noodles", "grill", "kiosk"}
Categories == [park |-> "activity", noodles |-> "dining", grill |-> "dining",
               kiosk |-> "addon"]
Marks      == [park |-> {"child_friendly"}, noodles |-> {"child_friendly"},
               grill |-> {"lighter_options"}, kiosk |-> {}]

\* The park has a restaurant of its own, which amap finds for both searches.
SomeListings ==
  [ activity |-> {<<"park">>, <<>>},
    dining   |-> {<<"noodles", "grill">>, <<"noodles", "noodles">>, <<"park">>},
    addon    |-> {<<"kiosk">>} ]

Best ==
  [activity |-> <<"park">>, dining |-> <<"noodles", "grill">>,
   addon |-> <<"kiosk">>]

Ask(profile, addon, spouse, strict) ==
  [ profile |-> profile, addon |-> addon, spouse |-> spouse, child |-> strict,
    light |-> strict, maxMeters |-> IF strict THEN 5000 ELSE Unknown,
    minutes |-> 240 .. 360 ]

SomeRequests ==
  {Ask("mock_world", TRUE, TRUE, TRUE), Ask("amap", FALSE, FALSE, FALSE)}

SomeInjectors ==
  {<<>>, [check_queue |-> [status |-> "succeeded", answer |-> "closed"],
          check_route |-> [status |-> "failed", answer |-> NoAnswer]]}

============================================================================
