------------------------------ MODULE MCPanel ------------------------------
(* Files that may fail: none, the door's level, or all exports.  Two modules  *)
(* with an AC and a DC channel; the four titles take 800 pixels and more.     *)
EXTENDS Panel, MCReport, TLC

MCBreakages == {{}, {<<"DOOR", "value">>}, {<<"all", "export">>}}
MCUnits == << (1 :> "AC"), (1 :> "DC" @@ 2 :> "AC") >>
MCTitleWidth == 0 :> 96 @@ 1 :> 80 @@ 2 :> 64 @@ 3 :> 120
MCClickAt == {0, 177, 178, 400, 600, 799}
MCPassword == <<0, 0>>
=============================================================================
