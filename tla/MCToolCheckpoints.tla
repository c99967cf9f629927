------------------------- MODULE MCToolCheckpoints -------------------------
(* Model checking ToolCheckpoints: which tools the calls of a run name.     *)
EXTENDS ToolCheckpoints, TLC

CONSTANTS c1, c2, c3

OneFight    == c1 :> "combat"
StoryAndDie == c1 :> "story" @@ c2 :> "dice"
Illustrated == c1 :> "combat" @@ c2 :> "media" @@ c3 :> "dice"

Together == {Calls}
FightOrDie == {{c1, c2}, {c3}}
=============================================================================
