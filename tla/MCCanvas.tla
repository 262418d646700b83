------------------------------ MODULE MCCanvas ------------------------------
(* A screen of 40 by 23 pixels and artwork of 9 by 6, so that both gaps are *)
(* odd; the grid and the snapping distance are those of canvas.rs.          *)
EXTENDS Canvas

MCScreen == <<40, 23>>
MCNatural == <<9, 6>>
MCDefaults == [anchor |-> {"bottom"},
               margins |-> [e \in Edges |-> IF e = "left" THEN 3 ELSE 0]]
MCAnchors == {{}, {"right"}, {"top", "bottom"}}
MCMargins == {-4}
MCAims == {<<-9, 5>>, <<33, 70>>}

=============================================================================
