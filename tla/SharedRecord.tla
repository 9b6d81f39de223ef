---------------------------- MODULE SharedRecord ----------------------------
(***************************************************************************)
(* What the synchronisation library promises about one profile that        *)
(* several devices edit: the versions form one chain, and a device adds to *)
(* it only when it has seen the whole of it.  Sync implements this.        *)
(***************************************************************************)
EXTENDS Naturals, Sequences

CONSTANTS Devices, Edits

VARIABLES
  chain,   \* the versions stored, oldest first
  known    \* per device, how many of them it has seen

sharedVars == <<chain, known>>

SharedInit == chain = <<>> /\ known = [d \in Devices |-> 0]

\* A device reads what is stored, or what was stored a while ago.
Learn(d) ==
  /\ \E n \in known[d] .. Len(chain) : known' = [known EXCEPT ![d] = n]
  /\ UNCHANGED chain

\* The device may or may not be told that its version is stored.
Extend(d, edit) ==
  /\ known[d] = Len(chain)
  /\ chain' = Append(chain, edit)
  /\ \E n \in {Len(chain), Len(chain) + 1} : known' = [known EXCEPT ![d] = n]

SharedNext == \E d \in Devices : Learn(d) \/ \E edit \in Edits : Extend(d, edit)

SharedSpec == SharedInit /\ [][SharedNext]_sharedVars

=============================================================================
