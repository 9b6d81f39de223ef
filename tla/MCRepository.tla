---------------------------- MODULE MCRepository ----------------------------
(* Repository with the small bounds of the configuration, and beside it the  *)
(* form that edits its catalogue and the library that synchronises records.  *)
(* They share no state: in a behaviour of AnySpec one of the three takes     *)
(* steps and the others stay as they were initially.                         *)
EXTENDS Repository, Editor, Sync, TLC

CONSTANTS d1, d2, i1, i2

MCDevices == {d1, d2}
MCIds == {i1, i2}
MCSymmetry == Permutations(MCDevices) \cup Permutations(MCIds)

AnyInit == Init /\ EditorInit /\ SyncInit

\* One of the initial states of the library will do for the others to move in.
SyncAway == SyncInit /\ kind = "memory"

AnyNext ==
  \/ EditorInit /\ SyncAway /\ Next /\ UNCHANGED <<editorVars, syncVars>>
  \/ Init /\ SyncAway /\ EditorNext /\ UNCHANGED <<vars, syncVars>>
  \/ Init /\ EditorInit /\ SyncNext /\ UNCHANGED <<vars, editorVars>>

AnySpec == AnyInit /\ [][AnyNext]_<<vars, editorVars, syncVars>>

AnyTypeOK == TypeOK /\ EditorTypeOK /\ SyncTypeOK

=============================================================================
