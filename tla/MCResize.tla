------------------------------ MODULE MCResize ------------------------------
(* View, and Resize with it, for areas and desktops that divide each other:  *)
(* a phone held upright, on its side and with its screen split, and a device *)
(* whose profile asks for an upright desktop.                                *)
EXTENDS View

MCTall == [width |-> 4, height |-> 8]
MCWide == [width |-> 8, height |-> 4]
MCSplit == [width |-> 4, height |-> 4]
MCAllSizes == {MCTall, MCWide, MCSplit}
MCProfile == [width |-> 8, height |-> 16]
MCLandscape == [width |-> 16, height |-> 8]
MCTargets == {-9, 0, 3}

=============================================================================
