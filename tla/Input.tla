------------------------------- MODULE Input --------------------------------
(***************************************************************************)
(* Keys and buttons: what the client believes it holds down on the remote  *)
(* computer against what is held there once every command sent has been    *)
(* worked off (the InputDatabase of the session).  All of it runs on the   *)
(* UI thread, but the window delivers focus changes late: the handler of a *)
(* lost focus runs after events that already went to the new focus.        *)
(*                                                                         *)
(* One modifier (Control, with its left and right keys), one letter and    *)
(* the left button stand for all of them.  Positions, pinching, panning    *)
(* and the wheel hold nothing down and are left out; whether a tap counts  *)
(* as a click (time, distance, pan mode, inside the picture) is free.      *)
(***************************************************************************)
EXTENDS Naturals, FiniteSets

CONSTANTS
  Texts,    \* the keys of the keyboard: a subset of Keyboard
  Fingers   \* touch ids

Keyboard == {"Control", "ControlR", "c"}

ASSUME TextsAssumption == Texts \subseteq Keyboard

\* KeyCode: the scancode 0x1d, the scancode and the character of the letter.
CtrlKey == "scancode 1d"
LetterScan == "scancode 2e"
LetterChar == "unicode c"
NoKey == "none"
KeyCodes == {CtrlKey, LetterScan, LetterChar}

\* MouseButton::Left
LeftButton == "left button"

\* "modifier:Control", the entry of a Control that was only seen as a flag.
Token == "modifier:Control"

VARIABLES
  connected,   \* Active.connected
  suspended,   \* Active.suspended
  focus,       \* remote-focus (scope), the TextInput (ime) or something else
  lost,        \* a has-focus change is still to be delivered
  pressed,     \* AppModel.pressed
  latched,     \* AppModel.latched["Control"]
  fingers,     \* Gestures.fingers, by whether they moved
  dragging,    \* Gestures.dragging
  multi,       \* Gestures.multi
  tapped,      \* Gestures.last_tap is Some
  held,        \* what the session holds down on the remote computer
  down,        \* keys the user holds down
  mouse,       \* the user holds the left mouse button down
  shortcut     \* history: whether a letter was sent with Control held, when asked to

keys == <<pressed, latched>>
gestures == <<fingers, dragging, multi, tapped>>
window == <<connected, suspended, focus, lost>>
user == <<down, mouse>>
vars == <<window, keys, gestures, held, user, shortcut>>

TypeOK ==
  /\ connected \in BOOLEAN /\ suspended \in BOOLEAN
  /\ focus \in {"scope", "ime", "other"} /\ lost \in BOOLEAN
  /\ pressed \in [Texts \cup {Token} -> KeyCodes \cup {NoKey}]
  /\ latched \in {CtrlKey, NoKey}
  /\ fingers \in [Fingers -> {"up", "still", "moved"}]
  /\ dragging \in BOOLEAN /\ multi \in BOOLEAN /\ tapped \in BOOLEAN
  /\ held \subseteq KeyCodes \cup {LeftButton}
  /\ down \subseteq Texts /\ mouse \in BOOLEAN
  /\ shortcut \in {"none", "with", "without"}

Init ==
  /\ connected = FALSE /\ suspended = FALSE
  /\ focus = "scope" /\ lost = FALSE
  /\ pressed = [t \in Texts \cup {Token} |-> NoKey] /\ latched = NoKey
  /\ fingers = [i \in Fingers |-> "up"]
  /\ dragging = FALSE /\ multi = FALSE /\ tapped = FALSE
  /\ held = {} /\ down = {} /\ mouse = FALSE
  /\ shortcut = "none"

-----------------------------------------------------------------------------
Delivered == connected /\ ~ suspended

\* release(), and the two handlers that do the same without it.
ForgetKeys == pressed' = [t \in Texts \cup {Token} |-> NoKey] /\ latched' = NoKey

CancelGestures ==
  /\ fingers' = [i \in Fingers |-> "up"]
  /\ dragging' = FALSE /\ multi' = FALSE /\ tapped' = FALSE

MutantHeldAfterRelease == held

\* What ReleaseAll leaves held.
HeldAfterRelease == {}

Release == ForgetKeys /\ CancelGestures /\ held' = HeldAfterRelease

\* The modifier flag of a key event, which the window keeps from every key
\* event it sees, wherever the focus is.
CtrlFlag(keysDown) == keysDown \cap {"Control", "ControlR"} # {}

\* key_code(): only the left keys of the modifiers have a scancode.
KeyCode(text) ==
  CASE text = "Control" -> CtrlKey
    [] text = "c" -> LetterChar
    [] OTHER -> NoKey

\* shortcut_key(): letters by scancode, the rest as key_code() says.
ShortcutKey(text) == IF text = "c" THEN LetterScan ELSE KeyCode(text)

\* A Control is pressed by its own key, or latched; the token does not count.
ModifierHeld == latched = CtrlKey \/ \E t \in Texts : pressed[t] = CtrlKey

MutantPressedAfterSync(ctrl) == IF ctrl THEN [pressed EXCEPT ![Token] = CtrlKey] ELSE pressed

\* The token of a modifier follows the flag of the event.
PressedAfterSync(ctrl) == [pressed EXCEPT ![Token] = IF ctrl THEN CtrlKey ELSE NoKey]

MutantHeldAfterSync(ctrl) == held \cup {PressedAfterSync(ctrl)[Token]}

\* Its KeyDown is sent when the token appears, its KeyUp when it goes.
HeldAfterSync(ctrl) ==
  LET had == pressed[Token]
      has == PressedAfterSync(ctrl)[Token] IN
  CASE had = NoKey /\ has # NoKey -> held \cup {has}
    [] had # NoKey /\ has = NoKey -> held \ {had}
    [] OTHER -> held

MutantOld(text) == NoKey

\* The code a text was pressed with before, which is released first.
Old(text) == pressed[text]

\* remote_key(.., down = true): synchronise the modifiers, then press the key.
RemoteKeyDown(text, ctrl) ==
  LET key == IF ctrl \/ ModifierHeld THEN ShortcutKey(text) ELSE KeyCode(text)
      synced == HeldAfterSync(ctrl) \ {Old(text)} IN
  IF key = NoKey
    THEN UNCHANGED <<keys, held, shortcut>>
    ELSE /\ pressed' = [PressedAfterSync(ctrl) EXCEPT ![text] = key]
         /\ held' = synced \cup {key}
         /\ shortcut' = IF ctrl /\ text = "c"
                          THEN IF CtrlKey \in synced THEN "with" ELSE "without"
                          ELSE shortcut
         /\ UNCHANGED latched

\* remote_key(.., down = false)
RemoteKeyUp(text) ==
  /\ held' = held \ {pressed[text]}
  /\ pressed' = [pressed EXCEPT ![text] = NoKey]
  /\ UNCHANGED <<latched, shortcut>>

\* on_ime_key sends a key on, rather than leave it to the TextInput, when it
\* has a scancode, a modifier goes with it, or it is pressed already.
Special(text, ctrl) ==
  \/ KeyCode(text) = CtrlKey
  \/ ctrl
  \/ latched = CtrlKey \/ \E t \in Texts \cup {Token} : pressed[t] = CtrlKey
  \/ pressed[text] # NoKey

Reaches(text, ctrl) ==
  /\ Delivered
  /\ focus = "scope" \/ (focus = "ime" /\ Special(text, ctrl))

\* A key goes down, or repeats.
KeyDown(text) ==
  /\ ~ suspended
  /\ down' = down \cup {text}
  /\ IF Reaches(text, CtrlFlag(down')) THEN RemoteKeyDown(text, CtrlFlag(down'))
                                       ELSE UNCHANGED <<keys, held, shortcut>>
  /\ UNCHANGED <<window, gestures, mouse>>

\* A key is lifted; with the app in the background nobody tells the client.
KeyUp(text) ==
  /\ text \in down
  /\ down' = down \ {text}
  /\ IF Reaches(text, CtrlFlag(down')) THEN RemoteKeyUp(text)
                                       ELSE UNCHANGED <<keys, held, shortcut>>
  /\ UNCHANGED <<window, gestures, mouse>>

\* on_committed_text: characters are pressed and released at once, by scancode
\* while a modifier is latched.
CommittedText ==
  /\ Delivered /\ focus = "ime"
  /\ held' = held \ {IF latched = NoKey THEN LetterChar ELSE LetterScan}
  /\ UNCHANGED <<window, keys, gestures, user, shortcut>>

\* on_special_key("Control"): a button of the key row toggles the modifier.  The
\* focus it asks for afterwards is a MoveFocus, as is the user's own.
ToggleControl ==
  /\ ~ suspended
  /\ IF latched # NoKey
       THEN /\ latched' = NoKey
            /\ held' = IF connected THEN held \ {CtrlKey} ELSE held
       ELSE IF connected
         THEN latched' = CtrlKey /\ held' = held \cup {CtrlKey}
         ELSE UNCHANGED <<latched, held>>
  /\ UNCHANGED <<window, pressed, gestures, user, shortcut>>

-----------------------------------------------------------------------------
(* Pointer events (on_pointer, Gestures::event).                           *)

OnScreen == {i \in Fingers : fingers[i] # "up"}

\* A touch takes the focus before the gesture sees it; the loss is told later.
TakeFocus ==
  /\ focus' = "scope"
  /\ lost' = (lost \/ focus = "ime")
  /\ UNCHANGED <<connected, suspended>>

MouseDown ==
  /\ Delivered /\ ~ mouse
  /\ mouse' = TRUE
  /\ held' = held \cup {LeftButton}
  /\ TakeFocus
  /\ UNCHANGED <<keys, gestures, down, shortcut>>

MouseUp ==
  /\ mouse
  /\ mouse' = FALSE
  /\ held' = IF Delivered THEN held \ {LeftButton} ELSE held
  /\ UNCHANGED <<window, keys, gestures, down, shortcut>>

\* A first finger after a tap may start a drag; a second finger ends it.
FingerDown(i, double) ==
  LET first == OnScreen = {} IN
  /\ Delivered /\ fingers[i] = "up"
  /\ double => first /\ tapped
  /\ fingers' = [fingers EXCEPT ![i] = "still"]
  /\ multi' = ~ first
  /\ tapped' = (first /\ tapped)
  /\ dragging' = IF first THEN dragging \/ double ELSE FALSE
  /\ held' = IF double THEN held \cup {LeftButton}
             ELSE IF ~ first /\ dragging THEN held \ {LeftButton}
             ELSE held
  /\ TakeFocus
  /\ UNCHANGED <<keys, user, shortcut>>

FingerMoves(i) ==
  /\ Delivered /\ fingers[i] = "still"
  /\ fingers' = [fingers EXCEPT ![i] = "moved"]
  /\ UNCHANGED <<window, keys, dragging, multi, tapped, held, user, shortcut>>

MutantHeldAfterUp(button) == IF button = "left" THEN held \ {LeftButton} ELSE held

\* A finger that is lifted ends the drag, whichever it is; a left click presses
\* and releases the button at once.
HeldAfterUp(button) == IF dragging \/ button = "left" THEN held \ {LeftButton} ELSE held

\* button: the click a short still touch makes, right if it was held long.
FingerUp(i, button) ==
  /\ Delivered /\ fingers[i] # "up"
  /\ button # "none" => ~ dragging /\ ~ multi /\ fingers[i] = "still"
  /\ fingers' = [fingers EXCEPT ![i] = "up"]
  /\ held' = HeldAfterUp(button)
  /\ dragging' = FALSE
  /\ tapped' = (button = "left" \/ (button = "none" /\ ~ dragging /\ tapped))
  /\ UNCHANGED <<window, keys, multi, user, shortcut>>

\* A cancelled touch releases everything but leaves the keys in the table.
PointerCancelled ==
  /\ Delivered
  /\ OnScreen # {} \/ mouse
  /\ CancelGestures
  /\ held' = HeldAfterRelease
  /\ UNCHANGED <<window, keys, user, shortcut>>

-----------------------------------------------------------------------------
(* Focus, lifecycle and connection.                                        *)

\* The focus moves: to the keyboard row, to a menu, back to the session.
MoveFocus(to) ==
  /\ ~ suspended /\ to # focus
  /\ focus' = to
  /\ lost' = (lost \/ focus # "other")
  /\ UNCHANGED <<connected, suspended, keys, gestures, held, user, shortcut>>

\* changed has-focus: on_release_input.
FocusLost ==
  /\ lost
  /\ lost' = FALSE
  /\ Release
  /\ UNCHANGED <<connected, suspended, focus, user, shortcut>>

\* The menu button, on_input_mode_changed, on_reset_view, on_display_mode.
ReleaseButton ==
  /\ ~ suspended
  /\ Release
  /\ UNCHANGED <<window, user, shortcut>>

\* Suspend: ReleaseAll; only the next tick clears the table.
Suspend ==
  /\ ~ suspended
  /\ suspended' = TRUE
  /\ held' = HeldAfterRelease
  /\ UNCHANGED <<connected, focus, lost, keys, gestures, user, shortcut>>

SuspendedTick ==
  /\ suspended
  /\ ForgetKeys /\ CancelGestures
  /\ UNCHANGED <<window, held, user, shortcut>>

Resume ==
  /\ suspended
  /\ suspended' = FALSE
  /\ UNCHANGED <<connected, focus, lost, keys, gestures, held, user, shortcut>>

Connect ==
  /\ ~ connected
  /\ connected' = TRUE
  /\ UNCHANGED <<suspended, focus, lost, keys, gestures, held, user, shortcut>>

\* Reconnecting releases first; Disconnected ends the session with all it held.
ConnectionLost ==
  /\ connected
  /\ connected' = FALSE
  /\ Release
  /\ UNCHANGED <<suspended, focus, lost, user, shortcut>>

KeyStep ==
  \/ \E text \in Texts : KeyDown(text) \/ KeyUp(text)
  \/ CommittedText \/ ToggleControl

PointerStep ==
  \/ MouseDown \/ MouseUp
  \/ \E i \in Fingers, double \in BOOLEAN : FingerDown(i, double)
  \/ \E i \in Fingers : FingerMoves(i)
  \/ \E i \in Fingers, button \in {"none", "left", "right"} : FingerUp(i, button)
  \/ PointerCancelled

WindowStep ==
  \/ \E to \in {"scope", "ime", "other"} : MoveFocus(to)
  \/ FocusLost \/ ReleaseButton
  \/ Suspend \/ SuspendedTick \/ Resume
  \/ Connect \/ ConnectionLost

Next == KeyStep \/ PointerStep \/ WindowStep

Spec == Init /\ [][Next]_vars

-----------------------------------------------------------------------------
(* Properties.                                                             *)

\* No key is stuck beyond the client's reach: whatever the remote computer holds
\* down is still in a table from which a later event will release it.
KeysKnown ==
  held \cap KeyCodes \subseteq {pressed[t] : t \in Texts \cup {Token}} \cup {latched}

\* The same for the button: a drag is under way or the user holds the mouse, so
\* that lifting the finger or the mouse releases it.
ButtonKnown == LeftButton \in held => dragging \/ mouse

\* "Key release on cancellation, focus loss and disconnect": in the background or
\* without a connection nothing is held, and out of focus no key but the latched.
ReleasedWhenAway ==
  /\ suspended \/ ~ connected => held = {}
  /\ focus = "other" /\ ~ lost => held \subseteq {latched, LeftButton}

\* "Synchronize modifiers before the key: backend events may omit separate
\* modifier presses" (remote_key): a letter typed with Control is a shortcut.
ModifiersSynchronised == shortcut # "without"

\* A key that takes the path of remote_key without the Control flag.
PlainKeyDown(text) ==
  KeyDown(text) /\ ~ CtrlFlag(down') /\ Reaches(text, FALSE) /\ KeyCode(text) # NoKey

\* The tokens of omitted modifiers do not outlive them for long: with the flag
\* off, a key that is pressed leaves Control held only where it is latched or
\* its own key is in the table.
ModifiersCleared ==
  [][(\E text \in Texts : PlainKeyDown(text)) /\ CtrlKey \in held' =>
       latched' = CtrlKey \/ \E t \in Texts : pressed'[t] = CtrlKey]_vars

=============================================================================
