------------------------------ MODULE MCInput -------------------------------
(* Instances of Input for TLC, and of the two other ways into the session,  *)
(* which share no state with it: in a behaviour of AnySpec one of the      *)
(* three takes steps and the others stay as they were initially.            *)
EXTENDS Input, Touchpad, TextEntry

NoFingers == {}
MCSteps == {-2, 1}
MCWidest == CHOOSE w \in Widths : \A v \in Widths : v <= w

AnyInit == Init /\ TouchpadInit /\ EntryInit

\* One of the initial states of the touchpad will do for the others to move in.
TouchpadAway == TouchpadInit /\ width = MCWidest

AnyNext ==
  \/ TouchpadAway /\ EntryInit /\ Next /\ UNCHANGED <<touchpadVars, entryVars>>
  \/ Init /\ EntryInit /\ TouchpadNext /\ UNCHANGED <<vars, entryVars>>
  \/ Init /\ TouchpadAway /\ EntryNext /\ UNCHANGED <<vars, touchpadVars>>

AnySpec == AnyInit /\ [][AnyNext]_<<vars, touchpadVars, entryVars>>

AnyTypeOK == TypeOK /\ TouchpadTypeOK /\ EntryTypeOK

=============================================================================
