------------------------------ MODULE TextEntry ------------------------------
(***************************************************************************)
(* Text from the on-screen keyboard: the client keeps the text of its      *)
(* input field, and whatever the input method makes of it (a word chosen   *)
(* for its first letters, a correction) is typed on the remote computer as *)
(* backspaces and characters that turn the last text into the new one.     *)
(***************************************************************************)
EXTENDS Naturals, Sequences, SequencesExt

CONSTANTS
  Characters,
  MaxText      \* bound on the length of the text in the field

ASSUME MaxTextAssumption == MaxText \in Nat

TextsOfField == BoundedSeq(Characters, MaxText)

Backspace == "scancode 0e"

\* A character is typed by its code point, never by a scancode.
ASSUME CharactersAssumption == Backspace \notin Characters

VARIABLES
  linked,     \* Active.connected
  modifier,   \* AppModel.latched is not empty
  imeText,    \* MainWindow.ime-text
  previous,   \* AppModel.ime_previous
  line,       \* typed on the remote computer since the field was last cleared
  diverted    \* history: since then keys were lost, went to a shortcut or came
              \* past the field, and line is not followed any more

entryVars == <<linked, modifier, imeText, previous, line, diverted>>

EntryTypeOK ==
  /\ linked \in BOOLEAN /\ modifier \in BOOLEAN /\ diverted \in BOOLEAN
  /\ imeText \in TextsOfField /\ previous \in TextsOfField
  /\ line \in Seq(Characters \cup {Backspace})

EntryInit ==
  /\ linked = FALSE /\ modifier = FALSE /\ diverted = FALSE
  /\ imeText = <<>> /\ previous = <<>> /\ line = <<>>

-----------------------------------------------------------------------------
MutantDelta(old, new) ==
  [i \in 1 .. IF Len(old) > Len(new) THEN Len(old) - Len(new) ELSE 0 |-> Backspace]
    \o SubSeq(new, Len(old) + 1, Len(new))

\* How far the two texts agree, up to the first difference or the end of one.
CommonLength(old, new) ==
  CHOOSE n \in 0 .. Len(old) :
    /\ n <= Len(new) /\ \A i \in 1 .. n : old[i] = new[i]
    /\ n < Len(old) /\ n < Len(new) => old[n + 1] # new[n + 1]

\* committed_delta(): what is not in the new text is taken back, and its rest
\* typed; every key goes down and up.
CommittedDelta(old, new) ==
  LET common == CommonLength(old, new) IN
  [i \in 1 .. Len(old) - common |-> Backspace] \o SubSeq(new, common + 1, Len(new))

\* What the remote computer makes of a key at the end of the line.  A backspace
\* at its start takes away what was there before, and is kept as a sign of it.
Typed(text, key) == IF key = Backspace /\ text # <<>> THEN Front(text) ELSE Append(text, key)

\* What it makes of keys, one after the other.
AfterKeys(text, keys) ==
  LET after[n \in 0 .. Len(keys)] == IF n = 0 THEN text ELSE Typed(after[n - 1], keys[n])
  IN  after[Len(keys)]

Divert == diverted' = TRUE /\ line' = <<>>

\* on_committed_text.  With a modifier latched the new characters are shortcuts.
CommitText(text) ==
  /\ text # imeText
  /\ imeText' = text /\ previous' = text
  /\ IF linked /\ ~ modifier /\ ~ diverted
       THEN line' = AfterKeys(line, CommittedDelta(previous, text)) /\ UNCHANGED diverted
       ELSE Divert
  /\ UNCHANGED <<linked, modifier>>

Clear ==
  /\ imeText' = <<>> /\ previous' = <<>>
  /\ line' = <<>> /\ diverted' = FALSE

\* A touch (on_pointer), or a key that on_ime_key sends on: what is typed next
\* goes to another place.
TypeElsewhere == Clear /\ UNCHANGED <<linked, modifier>>

\* A key that is typed past the field, which keeps its text.
TypePast == linked /\ Divert /\ UNCHANGED <<linked, modifier, imeText, previous>>

\* on_special_key
RowKey == TypePast

\* on_key: a hardware key while the picture has the focus.
HardwareKey == TypePast

ToggleModifier ==
  /\ modifier \/ linked
  /\ modifier' = ~ modifier
  /\ UNCHANGED <<linked, imeText, previous, line, diverted>>

\* release(), for whatever reason.
ReleaseModifier == modifier' = FALSE /\ UNCHANGED <<linked, imeText, previous, line, diverted>>

Connects == linked' = TRUE /\ UNCHANGED <<modifier, imeText, previous, line, diverted>>

\* Reconnecting or Disconnected: the field keeps its text, and can be typed in.
Disconnects ==
  /\ linked' = FALSE /\ modifier' = FALSE
  /\ UNCHANGED <<imeText, previous, line, diverted>>

\* stop() and launch().
NewSession == Clear /\ linked' = FALSE /\ modifier' = FALSE

EntryNext ==
  \/ \E text \in TextsOfField : CommitText(text)
  \/ TypeElsewhere \/ RowKey \/ HardwareKey \/ ToggleModifier \/ ReleaseModifier
  \/ Connects \/ Disconnects \/ NewSession

EntrySpec == EntryInit /\ [][EntryNext]_entryVars

-----------------------------------------------------------------------------
(* Properties.                                                             *)

\* "Software keyboard text uses committed TextInput content" (README): whatever
\* the input method replaces, the remote computer ends up with the text of the
\* field, each character once, and nothing from before it is erased.
TypedMatches == ~ diverted => line = imeText

=============================================================================
