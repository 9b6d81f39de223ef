----------------------------- MODULE InputProofs -----------------------------
(***************************************************************************)
(* What is held down on the remote computer, and the queue that carries    *)
(* the input there.  For Input the invariant adds to the properties that   *)
(* the token stands for Control or for nothing; for Touchpad it says of    *)
(* each operation in the queue what the one before it says, and the        *)
(* refinement of OrderedInput is shown step by step.                       *)
(***************************************************************************)
EXTENDS MCInput, SequenceTheorems, WellFoundedInduction, TLAPS

-----------------------------------------------------------------------------
(* Keys and buttons.                                                       *)

TokenInv == pressed[Token] \in {CtrlKey, NoKey}

InputInv == TypeOK /\ TokenInv /\ KeysKnown /\ ButtonKnown /\ ReleasedWhenAway

\* The codes of the keys, no two of which are alike.
LEMMA Codes ==
  /\ KeyCodes = {CtrlKey, LetterScan, LetterChar}
  /\ NoKey \notin KeyCodes /\ LeftButton \notin KeyCodes /\ LeftButton # NoKey
  /\ Token \notin Texts
BY TextsAssumption DEF KeyCodes, CtrlKey, LetterScan, LetterChar, NoKey, LeftButton, Token, Keyboard

LEMMA KeyOfText ==
  ASSUME NEW text \in Texts
  PROVE  /\ KeyCode(text) \in KeyCodes \cup {NoKey} /\ ShortcutKey(text) \in KeyCodes \cup {NoKey}
         /\ KeyCode(text) # NoKey => ShortcutKey(text) # NoKey
<1>1. CASE text = "Control"
  BY <1>1 DEF KeyCode, ShortcutKey, KeyCodes, CtrlKey, LetterScan, LetterChar, NoKey
<1>2. CASE text = "c"
  BY <1>2 DEF KeyCode, ShortcutKey, KeyCodes, CtrlKey, LetterScan, LetterChar, NoKey
<1>3. CASE text = "ControlR"
  BY <1>3 DEF KeyCode, ShortcutKey, KeyCodes, CtrlKey, LetterScan, LetterChar, NoKey
<1> QED
  BY <1>1, <1>2, <1>3, TextsAssumption DEF Keyboard

\* What the token does to the keys that are held.
LEMMA SyncedKeys ==
  ASSUME TypeOK, TokenInv, NEW ctrl \in BOOLEAN
  PROVE  /\ PressedAfterSync(ctrl) \in [Texts \cup {Token} -> KeyCodes \cup {NoKey}]
         /\ PressedAfterSync(ctrl)[Token] = IF ctrl THEN CtrlKey ELSE NoKey
         /\ \A t \in Texts : PressedAfterSync(ctrl)[t] = pressed[t]
         /\ HeldAfterSync(ctrl) \subseteq held \cup {PressedAfterSync(ctrl)[Token]}
         /\ HeldAfterSync(ctrl) \subseteq held \cup KeyCodes
         /\ ~ ctrl /\ pressed[Token] # NoKey => pressed[Token] \notin HeldAfterSync(ctrl)
<1> DEFINE had == pressed[Token]
           has == PressedAfterSync(ctrl)[Token]
<1>1. /\ PressedAfterSync(ctrl) \in [Texts \cup {Token} -> KeyCodes \cup {NoKey}]
      /\ has = IF ctrl THEN CtrlKey ELSE NoKey
      /\ \A t \in Texts : PressedAfterSync(ctrl)[t] = pressed[t]
  BY Codes DEF PressedAfterSync, TypeOK
<1>2. CASE had = NoKey /\ has # NoKey
  <2>1. HeldAfterSync(ctrl) = held \cup {has}
    BY <1>2 DEF HeldAfterSync
  <2> QED
    BY <1>1, <1>2, <2>1, Codes
<1>3. CASE had # NoKey /\ has = NoKey
  <2>1. HeldAfterSync(ctrl) = held \ {had}
    BY <1>3 DEF HeldAfterSync
  <2> QED
    BY <1>1, <1>3, <2>1, Codes
<1>4. CASE (had = NoKey /\ has = NoKey) \/ (had # NoKey /\ has # NoKey)
  <2>1. HeldAfterSync(ctrl) = held
    BY <1>4 DEF HeldAfterSync
  <2> QED
    BY <1>1, <1>4, <2>1, Codes
<1> QED
  BY <1>2, <1>3, <1>4

\* remote_key, down: all it disturbs are the keys, and those stay known.
LEMMA RemoteKeyDownKeeps ==
  ASSUME TypeOK, TokenInv, KeysKnown, NEW text \in Texts, NEW ctrl \in BOOLEAN,
         RemoteKeyDown(text, ctrl)
  PROVE  /\ pressed' \in [Texts \cup {Token} -> KeyCodes \cup {NoKey}]
         /\ latched' = latched /\ shortcut' \in {"none", "with", "without"}
         /\ TokenInv' /\ KeysKnown'
         /\ held' \subseteq held \cup KeyCodes
         /\ ~ ctrl /\ KeyCode(text) # NoKey => pressed'[Token] = NoKey
<1> DEFINE chosen == IF ctrl \/ ModifierHeld THEN ShortcutKey(text) ELSE KeyCode(text)
<1>0. PICK key : key = chosen
  OBVIOUS
<1> HIDE DEF chosen
<1>1. key \in KeyCodes \cup {NoKey} /\ (KeyCode(text) # NoKey => key # NoKey)
  BY <1>0, KeyOfText DEF chosen
<1>2. CASE key = NoKey
  <2>1. UNCHANGED <<pressed, latched, held, shortcut>> /\ KeyCode(text) = NoKey
    BY <1>0, <1>1, <1>2 DEF RemoteKeyDown, chosen, keys
  <2> QED
    BY <2>1 DEF TypeOK, TokenInv, KeysKnown
<1>3. CASE key # NoKey
  <2>1. /\ pressed' = [PressedAfterSync(ctrl) EXCEPT ![text] = key]
        /\ held' = (HeldAfterSync(ctrl) \ {pressed[text]}) \cup {key}
        /\ latched' = latched
        /\ shortcut' \in {"none", "with", "without"}
    BY <1>0, <1>3 DEF RemoteKeyDown, chosen, Old, TypeOK
  <2>2. /\ pressed' \in [Texts \cup {Token} -> KeyCodes \cup {NoKey}]
        /\ pressed'[text] = key
        /\ pressed'[Token] = IF ctrl THEN CtrlKey ELSE NoKey
        /\ \A t \in Texts \ {text} : pressed'[t] = pressed[t]
    BY <1>1, <2>1, SyncedKeys, Codes
  <2>3. held' \subseteq held \cup KeyCodes
    BY <1>1, <1>3, <2>1, SyncedKeys
  <2>4. KeysKnown'
    <3> SUFFICES ASSUME NEW k \in KeyCodes, k \in held'
                 PROVE  k = latched \/ \E t \in Texts \cup {Token} : pressed'[t] = k
      BY <2>1 DEF KeysKnown
    <3>1. CASE k = key
      BY <2>2, <3>1
    <3>2. CASE k # key /\ k = PressedAfterSync(ctrl)[Token]
      BY <2>2, <3>2, SyncedKeys
    <3>3. CASE k # key /\ k # PressedAfterSync(ctrl)[Token]
      <4>1. k \in held /\ k # pressed[text]
        BY <2>1, <3>3, SyncedKeys
      <4>2. CASE k = latched
        BY <4>2
      <4>3. CASE k # latched
        <5>1. PICK t \in Texts \cup {Token} : pressed[t] = k
          BY <4>1, <4>3 DEF KeysKnown
        <5>2. CASE t = Token
          <6>1. k = CtrlKey /\ ~ ctrl
            BY <3>3, <5>1, <5>2, SyncedKeys, Codes DEF TokenInv
          <6> QED
            BY <2>1, <3>3, <5>1, <5>2, <6>1, SyncedKeys, Codes
        <5>3. CASE t # Token
          BY <2>2, <4>1, <5>1, <5>3
        <5> QED
          BY <5>2, <5>3
      <4> QED
        BY <4>2, <4>3
    <3> QED
      BY <3>1, <3>2, <3>3
  <2>5. TokenInv' /\ (~ ctrl => pressed'[Token] = NoKey)
    BY <2>2 DEF TokenInv
  <2> QED
    BY <2>1, <2>2, <2>3, <2>4, <2>5
<1> QED
  BY <1>2, <1>3

\* A key that goes down, with the flag the window gives it.
LEMMA KeyDownStep ==
  ASSUME InputInv, NEW text \in Texts, KeyDown(text)
  PROVE  InputInv'
<1> DEFINE ctrl == CtrlFlag(down')
<1>1. ctrl \in BOOLEAN
  BY DEF CtrlFlag
<1>2. CASE Reaches(text, ctrl)
  <2>1. RemoteKeyDown(text, ctrl) /\ Delivered /\ focus # "other"
    BY <1>2 DEF KeyDown, Reaches
  <2>2. /\ pressed' \in [Texts \cup {Token} -> KeyCodes \cup {NoKey}]
        /\ latched' = latched /\ shortcut' \in {"none", "with", "without"}
        /\ TokenInv' /\ KeysKnown'
        /\ held' \subseteq held \cup KeyCodes
    BY <1>1, <2>1, RemoteKeyDownKeeps DEF InputInv
  <2> HIDE DEF ctrl
  <2>3. TypeOK'
    BY <2>2 DEF InputInv, TypeOK, KeyDown, window, gestures
  <2>4. ButtonKnown' /\ ReleasedWhenAway'
    BY <2>1, <2>2, Codes DEF InputInv, ButtonKnown, ReleasedWhenAway, Delivered, KeyDown, window, gestures
  <2> QED
    BY <2>2, <2>3, <2>4 DEF InputInv
<1>3. CASE ~ Reaches(text, ctrl)
  BY <1>3 DEF InputInv, TypeOK, TokenInv, KeysKnown, ButtonKnown, ReleasedWhenAway, KeyDown, window, gestures, keys
<1> QED
  BY <1>2, <1>3

LEMMA KeyUpStep ==
  ASSUME InputInv, NEW text \in Texts, KeyUp(text)
  PROVE  InputInv'
<1> DEFINE ctrl == CtrlFlag(down')
<1>2. CASE Reaches(text, ctrl)
  <2>1. RemoteKeyUp(text)
    BY <1>2 DEF KeyUp
  <2>2. /\ pressed' \in [Texts \cup {Token} -> KeyCodes \cup {NoKey}]
        /\ pressed'[text] = NoKey
        /\ \A t \in (Texts \cup {Token}) \ {text} : pressed'[t] = pressed[t]
        /\ held' = held \ {pressed[text]} /\ latched' = latched
    BY <2>1 DEF RemoteKeyUp, InputInv, TypeOK
  <2>3. TypeOK'
    BY <2>1, <2>2 DEF InputInv, TypeOK, KeyUp, RemoteKeyUp, window, gestures
  <2>4. TokenInv' /\ KeysKnown'
    BY <2>2, Codes DEF InputInv, TokenInv, KeysKnown
  <2>5. ButtonKnown' /\ ReleasedWhenAway'
    BY <2>2 DEF InputInv, ButtonKnown, ReleasedWhenAway, KeyUp, window, gestures
  <2> QED
    BY <2>3, <2>4, <2>5 DEF InputInv
<1>3. CASE ~ Reaches(text, ctrl)
  BY <1>3 DEF InputInv, TypeOK, TokenInv, KeysKnown, ButtonKnown, ReleasedWhenAway, KeyUp, window, gestures, keys
<1> QED
  BY <1>2, <1>3

LEMMA InputStep == InputInv /\ [Next]_vars => InputInv'
<1> SUFFICES ASSUME InputInv, [Next]_vars PROVE InputInv'
  OBVIOUS
<1>1. ASSUME NEW text \in Texts, KeyDown(text) PROVE InputInv'
  BY <1>1, KeyDownStep
<1>2. ASSUME NEW text \in Texts, KeyUp(text) PROVE InputInv'
  BY <1>2, KeyUpStep
<1>3. CASE CommittedText
  BY <1>3, Codes DEF CommittedText, Delivered, InputInv, TypeOK, TokenInv, KeysKnown, ButtonKnown, ReleasedWhenAway, window, keys, gestures, user
<1>4. CASE ToggleControl
  BY <1>4, Codes DEF ToggleControl, InputInv, TypeOK, TokenInv, KeysKnown, ButtonKnown, ReleasedWhenAway, window, keys, gestures, user
<1>5. CASE MouseDown
  BY <1>5, Codes DEF MouseDown, TakeFocus, Delivered, InputInv, TypeOK, TokenInv, KeysKnown, ButtonKnown, ReleasedWhenAway, window, keys, gestures, user
<1>6. CASE MouseUp
  BY <1>6, Codes, ZenonT(40) DEF MouseUp, Delivered, InputInv, TypeOK, TokenInv, KeysKnown, ButtonKnown, ReleasedWhenAway, window, keys, gestures, user
<1>7. ASSUME NEW i \in Fingers, NEW double \in BOOLEAN, FingerDown(i, double) PROVE InputInv'
  BY <1>7, Codes, ZenonT(40) DEF FingerDown, TakeFocus, Delivered, InputInv, TypeOK, TokenInv, KeysKnown, ButtonKnown, ReleasedWhenAway, window, keys, gestures, user
<1>8. ASSUME NEW i \in Fingers, FingerMoves(i) PROVE InputInv'
  BY <1>8, Codes DEF FingerMoves, Delivered, InputInv, TypeOK, TokenInv, KeysKnown, ButtonKnown, ReleasedWhenAway, window, keys, gestures, user
<1>9. ASSUME NEW i \in Fingers, NEW button \in {"none", "left", "right"}, FingerUp(i, button) PROVE InputInv'
  BY <1>9, Codes, ZenonT(40) DEF FingerUp, HeldAfterUp, Delivered, InputInv, TypeOK, TokenInv, KeysKnown, ButtonKnown, ReleasedWhenAway, window, keys, gestures, user
<1>10. CASE PointerCancelled
  BY <1>10, Codes, ZenonT(40) DEF PointerCancelled, CancelGestures, HeldAfterRelease, Delivered, InputInv, TypeOK, TokenInv, KeysKnown, ButtonKnown, ReleasedWhenAway, window, keys, gestures, user
<1>11. ASSUME NEW to \in {"scope", "ime", "other"}, MoveFocus(to) PROVE InputInv'
  BY <1>11, Codes DEF MoveFocus, InputInv, TypeOK, TokenInv, KeysKnown, ButtonKnown, ReleasedWhenAway, window, keys, gestures, user
<1>12. CASE FocusLost
  BY <1>12, Codes, ZenonT(40) DEF FocusLost, Release, ForgetKeys, CancelGestures, HeldAfterRelease, InputInv, TypeOK, TokenInv, KeysKnown, ButtonKnown, ReleasedWhenAway, window, keys, gestures, user
<1>13. CASE ReleaseButton
  BY <1>13, Codes, ZenonT(40) DEF ReleaseButton, Release, ForgetKeys, CancelGestures, HeldAfterRelease, InputInv, TypeOK, TokenInv, KeysKnown, ButtonKnown, ReleasedWhenAway, window, keys, gestures, user
<1>14. CASE Suspend
  BY <1>14, Codes DEF Suspend, HeldAfterRelease, InputInv, TypeOK, TokenInv, KeysKnown, ButtonKnown, ReleasedWhenAway, window, keys, gestures, user
<1>15. CASE SuspendedTick
  BY <1>15, Codes, ZenonT(40) DEF SuspendedTick, ForgetKeys, CancelGestures, InputInv, TypeOK, TokenInv, KeysKnown, ButtonKnown, ReleasedWhenAway, window, keys, gestures, user
<1>16. CASE Resume
  BY <1>16, Codes, ZenonT(40) DEF Resume, InputInv, TypeOK, TokenInv, KeysKnown, ButtonKnown, ReleasedWhenAway, window, keys, gestures, user
<1>17. CASE Connect
  BY <1>17, Codes DEF Connect, InputInv, TypeOK, TokenInv, KeysKnown, ButtonKnown, ReleasedWhenAway, window, keys, gestures, user
<1>18. CASE ConnectionLost
  BY <1>18, Codes, ZenonT(40) DEF ConnectionLost, Release, ForgetKeys, CancelGestures, HeldAfterRelease, InputInv, TypeOK, TokenInv, KeysKnown, ButtonKnown, ReleasedWhenAway, window, keys, gestures, user
<1>19. CASE UNCHANGED vars
  BY <1>19 DEF vars, InputInv, TypeOK, TokenInv, KeysKnown, ButtonKnown, ReleasedWhenAway, window, keys, gestures, user
<1> QED
  BY <1>1, <1>2, <1>3, <1>4, <1>5, <1>6, <1>7, <1>8, <1>9, <1>10, <1>11, <1>12, <1>13, <1>14, <1>15, <1>16, <1>17, <1>18, <1>19
     DEF Next, KeyStep, PointerStep, WindowStep

\* The invariant of the keys and buttons.
THEOREM InputInvariance == Spec => []InputInv
<1>1. Init => InputInv
  BY Codes, ZenonT(40) DEF Init, InputInv, TypeOK, TokenInv, KeysKnown, ButtonKnown, ReleasedWhenAway
<1> QED
  BY <1>1, InputStep, PTL DEF Spec

\* No key is stuck beyond the client's reach.
THEOREM KeysKnownAlways == Spec => []KeysKnown
<1>1. InputInv => KeysKnown
  BY DEF InputInv
<1> QED
  BY <1>1, InputInvariance, PTL

\* Nor is the button.
THEOREM ButtonKnownAlways == Spec => []ButtonKnown
<1>1. InputInv => ButtonKnown
  BY DEF InputInv
<1> QED
  BY <1>1, InputInvariance, PTL

\* In the background, without a connection and out of focus nothing is held that
\* the client means to have released.
THEOREM ReleasedWhenAwayAlways == Spec => []ReleasedWhenAway
<1>1. InputInv => ReleasedWhenAway
  BY DEF InputInv
<1> QED
  BY <1>1, InputInvariance, PTL

\* A key pressed without the flag clears the token, so Control is held on only
\* where it is latched or its own key is in the table.
THEOREM ModifiersClearedAlways == Spec => ModifiersCleared
<1>1. ASSUME InputInv, InputInv', NEW text \in Texts, PlainKeyDown(text), CtrlKey \in held'
      PROVE  latched' = CtrlKey \/ \E t \in Texts : pressed'[t] = CtrlKey
  <2>1. /\ KeyDown(text) /\ CtrlFlag(down') = FALSE /\ KeyCode(text) # NoKey
        /\ Reaches(text, CtrlFlag(down'))
    BY <1>1 DEF PlainKeyDown, CtrlFlag
  <2>2. RemoteKeyDown(text, CtrlFlag(down'))
    BY <2>1 DEF KeyDown
  <2>3. pressed'[Token] = NoKey
    BY <1>1, <2>1, <2>2, RemoteKeyDownKeeps DEF InputInv
  <2>4. CtrlKey \in {pressed'[t] : t \in Texts \cup {Token}} \cup {latched'} /\ CtrlKey # NoKey
    BY <1>1, Codes DEF InputInv, KeysKnown
  <2> QED
    BY <2>3, <2>4
<1>2. InputInv /\ InputInv' /\ [Next]_vars =>
        [(\E text \in Texts : PlainKeyDown(text)) /\ CtrlKey \in held' =>
           latched' = CtrlKey \/ \E t \in Texts : pressed'[t] = CtrlKey]_vars
  BY <1>1
<1> QED
  BY <1>2, InputInvariance, PTL DEF Spec, ModifiersCleared

-----------------------------------------------------------------------------
(* Facts about numbers and sequences.                                      *)

LEMMA LeastElement ==
  ASSUME NEW S, S \subseteq Nat, S # {}
  PROVE  \E m \in S : \A k \in S : m <= k
<1>1. PICK m \in S : \A k \in S : <<k, m>> \notin OpToRel(<, Nat)
  BY WFMin, NatLessThanWellFounded
<1>2. \A k \in S : ~ (k < m)
  BY <1>1 DEF OpToRel
<1> QED
  BY <1>2

LEMMA MinIsElement ==
  ASSUME NEW S, S \subseteq Nat, S # {}
  PROVE  Min(S) \in S
<1>1. \E m \in S : \A k \in S : m <= k
  BY LeastElement
<1> QED
  BY <1>1 DEF Min

\* RemoveAt takes one element out.
LEMMA Removed ==
  ASSUME NEW S, NEW s \in Seq(S), NEW n \in 1 .. Len(s)
  PROVE  /\ RemoveAt(s, n) \in Seq(S) /\ Len(RemoveAt(s, n)) = Len(s) - 1
         /\ \A i \in 1 .. n - 1 : RemoveAt(s, n)[i] = s[i]
<1> DEFINE front == SubSeq(s, 1, n - 1)
           rest == SubSeq(s, n + 1, Len(s))
<1>0. Len(s) \in Nat /\ n \in Nat /\ \A i \in 1 .. Len(s) : s[i] \in S
  BY LenProperties, ElementOfSeq
<1>1. front \in Seq(S) /\ Len(front) = n - 1 /\ \A i \in 1 .. n - 1 : front[i] = s[i]
  <2>1. /\ front \in Seq(S) /\ Len(front) = IF 1 <= n - 1 THEN (n - 1) - 1 + 1 ELSE 0
        /\ \A i \in 1 .. (n - 1) - 1 + 1 : front[i] = s[1 + i - 1]
    BY <1>0, SubSeqProperties
  <2> HIDE DEF front
  <2> QED
    BY <1>0, <2>1
<1>2. rest \in Seq(S) /\ Len(rest) = Len(s) - n
  <2>1. rest \in Seq(S) /\ Len(rest) = IF n + 1 <= Len(s) THEN Len(s) - (n + 1) + 1 ELSE 0
    BY <1>0, SubSeqProperties
  <2> HIDE DEF rest
  <2> QED
    BY <1>0, <2>1
<1> HIDE DEF front, rest
<1>3. RemoveAt(s, n) = front \o rest
  BY DEF RemoveAt, front, rest
<1>4. /\ front \o rest \in Seq(S) /\ Len(front \o rest) = Len(front) + Len(rest)
      /\ \A i \in 1 .. Len(front) + Len(rest) :
           (front \o rest)[i] = IF i <= Len(front) THEN front[i] ELSE rest[i - Len(front)]
  BY <1>1, <1>2, ConcatProperties
<1> QED
  BY <1>0, <1>1, <1>2, <1>3, <1>4

\* To put an element in the place of the last one is to take that out first.
WithLast(t, s, e, S) ==
  /\ t \in Seq(S) /\ Len(t) = Len(s) /\ t[Len(s)] = e
  /\ \A i \in 1 .. Len(s) - 1 : t[i] = s[i]
  /\ t = Append(RemoveAt(s, Len(s)), e)

LEMMA LastReplaced ==
  ASSUME NEW S, NEW s \in Seq(S), s # <<>>, NEW e \in S
  PROVE  WithLast(ReplaceAt(s, Len(s), e), s, e, S)
<1> DEFINE t == ReplaceAt(s, Len(s), e)
           u == RemoveAt(s, Len(s))
<1>1. Len(s) \in Nat \ {0} /\ Len(s) \in 1 .. Len(s)
  BY EmptySeq, LenProperties
<1>2. t \in Seq(S) /\ Len(t) = Len(s) /\ \A i \in 1 .. Len(s) : t[i] = IF i = Len(s) THEN e ELSE s[i]
  BY <1>1, ExceptSeq DEF ReplaceAt
<1>3. u \in Seq(S) /\ Len(u) = Len(s) - 1 /\ \A i \in 1 .. Len(s) - 1 : u[i] = s[i]
  BY <1>1, Removed
<1> HIDE DEF t, u
<1>4. /\ Append(u, e) \in Seq(S) /\ Len(Append(u, e)) = Len(s)
      /\ Append(u, e)[Len(s)] = e /\ \A i \in 1 .. Len(s) - 1 : Append(u, e)[i] = u[i]
  BY <1>1, <1>3
<1>5. t = Append(u, e)
  BY <1>1, <1>2, <1>3, <1>4, SeqEqual
<1>6. WithLast(t, s, e, S)
  BY <1>1, <1>2, <1>5 DEF WithLast, u
<1> QED
  BY <1>6 DEF t

-----------------------------------------------------------------------------
(* The touchpad and its queue.                                             *)

LEMMA OperationTypes ==
  /\ Moves \subseteq Operations
  /\ \A operation \in Operations : IsMove(operation) <=> operation \in Moves
  /\ \A operation \in Operations : IsMove(operation) => operation.x \in Positions
BY DEF Operations, Moves, IsMove, Move, Down, Up, Wheel

LEMMA CursorIsPosition ==
  ASSUME NEW w \in Widths
  PROVE  /\ \A x \in 0 .. w - 1 : x \in Positions
         /\ \A x \in Int : OntoDesktop(x, w) \in 0 .. w - 1
  BY TouchpadBounds DEF Positions, OntoDesktop

\* A full queue gives up one of its moves, or has none.
LEMMA VictimIsMove ==
  ASSUME TouchpadTypeOK
  PROVE  Victim = 0 \/ (Victim \in 1 .. Len(queue) /\ IsMove(queue[Victim]))
<1> DEFINE I == {i \in 1 .. Len(queue) : IsMove(queue[i])}
<1>1. Victim = IF I # {} THEN Min(I) ELSE 0
  BY DEF Victim, SelectInSeq
<1>2. I \subseteq Nat /\ I # {} => Min(I) \in I
  <2> HIDE DEF I
  <2> QED
    BY MinIsElement
<1> QED
  BY <1>1, <1>2

\* Each entry of the queue was aimed where its move goes, or where the entry
\* before it was aimed.
ChainInv ==
  ~ dropped =>
    /\ aim = IF queue = <<>> THEN remoteX ELSE targets[Len(queue)]
    /\ \A i \in 1 .. Len(queue) :
         targets[i] = IF IsMove(queue[i]) THEN queue[i].x
                      ELSE IF i = 1 THEN remoteX ELSE targets[i - 1]

TouchpadInv == TouchpadTypeOK /\ ChainInv

\* The three ways an operation is accepted.
Coalesced(operation) ==
  /\ queue # <<>> /\ IsMove(operation) /\ IsMove(queue[Len(queue)])
  /\ queue' = ReplaceAt(queue, Len(queue), operation)
  /\ targets' = ReplaceAt(targets, Len(targets), operation.x)
  /\ dropped' = dropped

Appended(operation) ==
  /\ Len(queue) < Capacity
  /\ queue' = Append(queue, operation)
  /\ targets' = Append(targets, Aimed(operation))
  /\ dropped' = dropped

Displaced(operation) ==
  /\ Len(queue) = Capacity /\ Victim \in 1 .. Len(queue) /\ IsMove(queue[Victim])
  /\ queue' = Append(RemoveAt(queue, Victim), operation)
  /\ targets' = Append(RemoveAt(targets, Victim), Aimed(operation))
  /\ dropped' = TRUE

LEMMA CoalescedQueue ==
  ASSUME queue \in Seq(Operations), NEW operation \in Operations, Coalesced(operation)
  PROVE  /\ queue' \in Seq(Operations) /\ Len(queue') = Len(queue)
         /\ queue'[Len(queue)] = operation
         /\ \A i \in 1 .. Len(queue) - 1 : queue'[i] = queue[i]
<1>1. queue # <<>> /\ queue' = ReplaceAt(queue, Len(queue), operation)
  BY DEF Coalesced
<1>2. WithLast(queue', queue, operation, Operations)
  BY <1>1, LastReplaced, Zenon
<1> QED
  BY <1>2, Zenon DEF WithLast

LEMMA CoalescedTargets ==
  ASSUME NEW Places, targets \in Seq(Places), targets # <<>>,
         NEW operation, operation.x \in Places, Coalesced(operation)
  PROVE  /\ targets' \in Seq(Places) /\ Len(targets') = Len(targets)
         /\ targets'[Len(targets)] = operation.x
         /\ \A i \in 1 .. Len(targets) - 1 : targets'[i] = targets[i]
<1>1. targets' = ReplaceAt(targets, Len(targets), operation.x)
  BY DEF Coalesced
<1>2. WithLast(targets', targets, operation.x, Places)
  BY <1>1, LastReplaced, Zenon
<1> QED
  BY <1>2, Zenon DEF WithLast

LEMMA PushShape ==
  ASSUME TouchpadTypeOK, Push
  PROVE  /\ outbox' \in Seq(Operations)
         /\ UNCHANGED <<width, cursor, holding, remoteX>>
         /\ \E operation \in Operations :
              /\ aim' = Aimed(operation) /\ Aimed(operation) \in Positions \cup {Nowhere}
              /\ Coalesced(operation) \/ Appended(operation) \/ Displaced(operation)
<1> PICK operation : operation = Head(outbox)
  OBVIOUS
<1>1. /\ outbox # <<>> /\ outbox \in Seq(Operations) /\ outbox' = Tail(outbox)
      /\ Replaced(operation) # 0 \/ MayAppend
      /\ aim' = Aimed(operation)
      /\ IF Replaced(operation) # 0
           THEN /\ queue' = ReplaceAt(queue, Replaced(operation), operation)
                /\ targets' = ReplaceAt(targets, Replaced(operation), operation.x)
                /\ UNCHANGED dropped
           ELSE /\ queue' = Append(Room(queue), operation)
                /\ targets' = Append(Room(targets), Aimed(operation))
                /\ dropped' = (dropped \/ Len(queue) = Capacity)
      /\ UNCHANGED <<width, cursor, holding, remoteX>>
  BY Zenon DEF Push, TouchpadTypeOK
<1>2. operation \in Operations /\ outbox' \in Seq(Operations)
  BY <1>1, HeadTailProperties
<1>3. Aimed(operation) \in Positions \cup {Nowhere}
  BY <1>2, OperationTypes DEF Aimed, TouchpadTypeOK
<1>4. Len(queue) \in Nat /\ Len(queue) <= Capacity /\ Len(targets) = Len(queue)
  BY LenProperties DEF TouchpadTypeOK
<1>5. CASE Replaced(operation) # 0
  <2>1. queue # <<>> /\ IsMove(operation) /\ IsMove(queue[Len(queue)]) /\ Replaced(operation) = Len(queue)
    BY <1>5 DEF Replaced, Last
  <2>2. Coalesced(operation)
    BY <1>1, <1>4, <1>5, <2>1 DEF Coalesced
  <2> QED
    BY <1>1, <1>2, <1>3, <2>2
<1>6. CASE Replaced(operation) = 0 /\ Len(queue) < Capacity
  <2>1. dropped' = dropped
    <3>1. Len(queue) # Capacity /\ dropped \in BOOLEAN
      BY <1>4, <1>6, TouchpadBounds DEF TouchpadTypeOK
    <3> QED
      BY <1>1, <1>6, <3>1
  <2>2. Appended(operation)
    BY <1>1, <1>6, <2>1 DEF Appended, Room
  <2> QED
    BY <1>1, <1>2, <1>3, <2>2
<1>7. CASE Replaced(operation) = 0 /\ ~ (Len(queue) < Capacity)
  <2>1. Len(queue) = Capacity
    BY <1>4, <1>7, TouchpadBounds
  <2>2. Victim \in 1 .. Len(queue) /\ IsMove(queue[Victim])
    BY <1>1, <1>7, VictimIsMove DEF MayAppend
  <2>3. dropped' = TRUE
    BY <1>1, <1>7, <2>1, Zenon
  <2>4. Displaced(operation)
    BY <1>1, <1>7, <2>1, <2>2, <2>3 DEF Displaced, Room
  <2> QED
    BY <1>1, <1>2, <1>3, <2>4
<1> QED
  BY <1>5, <1>6, <1>7

LEMMA PushKeeps == TouchpadInv /\ Push => TouchpadInv'
<1> SUFFICES ASSUME TouchpadInv, Push PROVE TouchpadInv'
  OBVIOUS
<1> DEFINE Places == Positions \cup {Nowhere}
<1>0. PICK operation \in Operations :
        /\ aim' = Aimed(operation) /\ Aimed(operation) \in Places
        /\ Coalesced(operation) \/ Appended(operation) \/ Displaced(operation)
  BY PushShape DEF TouchpadInv
<1>1. /\ outbox' \in Seq(Operations) /\ UNCHANGED <<width, cursor, holding, remoteX>>
  BY PushShape DEF TouchpadInv
<1>2. /\ queue \in Seq(Operations) /\ targets \in Seq(Places)
      /\ Len(targets) = Len(queue) /\ Len(queue) \in Nat /\ Len(queue) <= Capacity
      /\ dropped \in BOOLEAN /\ Capacity \in Nat \ {0}
  BY LenProperties, TouchpadBounds DEF TouchpadInv, TouchpadTypeOK
<1>3. SUFFICES /\ queue' \in Seq(Operations) /\ Len(queue') <= Capacity
               /\ targets' \in Seq(Places) /\ Len(targets') = Len(queue')
               /\ dropped' \in BOOLEAN /\ ChainInv'
  BY <1>0, <1>1 DEF TouchpadInv, TouchpadTypeOK
<1>4. CASE Coalesced(operation)
  <2> DEFINE n == Len(queue)
  <2>1. operation.x \in Places /\ Aimed(operation) = operation.x
    BY <1>4, OperationTypes DEF Coalesced, Aimed
  <2>2. /\ queue' \in Seq(Operations) /\ Len(queue') = n /\ queue'[n] = operation
        /\ \A i \in 1 .. n - 1 : queue'[i] = queue[i]
    BY <1>2, <1>4, CoalescedQueue
  <2>4. /\ targets' \in Seq(Places) /\ Len(targets') = n /\ targets'[n] = operation.x
        /\ \A i \in 1 .. n - 1 : targets'[i] = targets[i]
    <3>1. targets # <<>>
      BY <1>2, <1>4, EmptySeq DEF Coalesced
    <3> QED
      BY <1>2, <1>4, <2>1, <3>1, CoalescedTargets
  <2>5. n \in Nat \ {0} /\ queue' # <<>>
    BY <1>2, <1>4, <2>2, EmptySeq DEF Coalesced
  <2>6. ASSUME ~ dropped'
        PROVE  /\ aim' = targets'[n]
               /\ \A i \in 1 .. n :
                    targets'[i] = IF IsMove(queue'[i]) THEN queue'[i].x
                                  ELSE IF i = 1 THEN remoteX' ELSE targets'[i - 1]
    <3>1. \A i \in 1 .. n :
            targets[i] = IF IsMove(queue[i]) THEN queue[i].x
                         ELSE IF i = 1 THEN remoteX ELSE targets[i - 1]
      BY <1>4, <2>6 DEF Coalesced, TouchpadInv, ChainInv
    <3>2. \A i \in 1 .. n - 1 :
            targets'[i] = IF IsMove(queue'[i]) THEN queue'[i].x
                          ELSE IF i = 1 THEN remoteX' ELSE targets'[i - 1]
      BY <1>1, <2>2, <2>4, <2>5, <3>1
    <3>3. targets'[n] = queue'[n].x /\ IsMove(queue'[n])
      BY <1>4, <2>2, <2>4 DEF Coalesced
    <3> QED
      BY <1>0, <2>1, <2>4, <2>5, <3>2, <3>3
  <2>7. ChainInv'
    BY <2>2, <2>5, <2>6 DEF ChainInv
  <2> QED
    BY <1>2, <1>4, <2>2, <2>4, <2>7 DEF Coalesced
<1>5. CASE Appended(operation)
  <2> DEFINE n == Len(queue)
  <2>1. /\ queue' \in Seq(Operations) /\ Len(queue') = n + 1 /\ queue'[n + 1] = operation
        /\ \A i \in 1 .. n : queue'[i] = queue[i]
    BY <1>2, <1>5 DEF Appended
  <2>2. /\ targets' \in Seq(Places) /\ Len(targets') = n + 1 /\ targets'[n + 1] = Aimed(operation)
        /\ \A i \in 1 .. n : targets'[i] = targets[i]
    BY <1>0, <1>2, <1>5 DEF Appended
  <2>3. ASSUME ~ dropped'
        PROVE  /\ aim' = targets'[n + 1]
               /\ \A i \in 1 .. n + 1 :
                    targets'[i] = IF IsMove(queue'[i]) THEN queue'[i].x
                                  ELSE IF i = 1 THEN remoteX' ELSE targets'[i - 1]
    <3>1. /\ aim = IF queue = <<>> THEN remoteX ELSE targets[n]
          /\ \A i \in 1 .. n :
               targets[i] = IF IsMove(queue[i]) THEN queue[i].x
                            ELSE IF i = 1 THEN remoteX ELSE targets[i - 1]
      BY <1>5, <2>3 DEF Appended, TouchpadInv, ChainInv
    <3>2. \A i \in 1 .. n :
            targets'[i] = IF IsMove(queue'[i]) THEN queue'[i].x
                          ELSE IF i = 1 THEN remoteX' ELSE targets'[i - 1]
      <4> SUFFICES ASSUME NEW i \in 1 .. n
                   PROVE  targets'[i] = IF IsMove(queue'[i]) THEN queue'[i].x
                                        ELSE IF i = 1 THEN remoteX' ELSE targets'[i - 1]
        OBVIOUS
      <4>1. targets'[i] = targets[i] /\ queue'[i] = queue[i]
        BY <1>2, <2>1, <2>2
      <4>2. i # 1 => targets'[i - 1] = targets[i - 1]
        BY <1>2, <2>2
      <4> QED
        BY <1>1, <3>1, <4>1, <4>2
    <3>3. aim = IF n = 0 THEN remoteX ELSE targets'[n]
      <4>1. queue = <<>> <=> n = 0
        BY <1>2, EmptySeq
      <4> QED
        BY <1>2, <2>2, <3>1, <4>1
    <3>4. targets'[n + 1] = IF IsMove(queue'[n + 1]) THEN queue'[n + 1].x
                            ELSE IF n + 1 = 1 THEN remoteX' ELSE targets'[n]
      BY <1>1, <1>2, <2>1, <2>2, <3>3 DEF Aimed
    <3> QED
      BY <1>0, <1>2, <2>2, <3>2, <3>4
  <2>4. queue' # <<>>
    BY <1>2, <2>1, EmptySeq
  <2>5. ChainInv'
    BY <2>1, <2>3, <2>4 DEF ChainInv
  <2> QED
    BY <1>2, <1>5, <2>1, <2>2, <2>5 DEF Appended
<1>6. CASE Displaced(operation)
  <2>1. /\ RemoveAt(queue, Victim) \in Seq(Operations) /\ Len(RemoveAt(queue, Victim)) = Len(queue) - 1
        /\ RemoveAt(targets, Victim) \in Seq(Places) /\ Len(RemoveAt(targets, Victim)) = Len(queue) - 1
    BY <1>2, <1>6, Removed DEF Displaced
  <2>2. /\ queue' \in Seq(Operations) /\ Len(queue') = Len(queue)
        /\ targets' \in Seq(Places) /\ Len(targets') = Len(queue)
    BY <1>0, <1>2, <1>6, <2>1 DEF Displaced
  <2> QED
    BY <1>2, <1>6, <2>2 DEF Displaced, ChainInv
<1> QED
  BY <1>0, <1>4, <1>5, <1>6

LEMMA PopKeeps == TouchpadInv /\ Pop => TouchpadInv'
<1> SUFFICES ASSUME TouchpadInv, Pop PROVE TouchpadInv'
  OBVIOUS
<1> DEFINE Places == Positions \cup {Nowhere}
           n == Len(queue)
<1>1. /\ queue # <<>> /\ queue' = Tail(queue) /\ targets' = Tail(targets)
      /\ remoteX' = PointerAfter(remoteX, Head(queue))
      /\ UNCHANGED <<width, cursor, holding, outbox, aim, dropped>>
  BY DEF Pop
<1>2. /\ queue \in Seq(Operations) /\ targets \in Seq(Places)
      /\ Len(targets) = n /\ n \in Nat \ {0} /\ n <= Capacity /\ Capacity \in Nat
  BY <1>1, EmptySeq, LenProperties, TouchpadBounds DEF TouchpadInv, TouchpadTypeOK
<1>3. targets # <<>>
  BY <1>2, EmptySeq
<1>4. /\ queue' \in Seq(Operations) /\ Len(queue') = n - 1
      /\ \A i \in 1 .. n - 1 : queue'[i] = queue[i + 1]
      /\ Head(queue) = queue[1] /\ Head(queue) \in Operations
  BY <1>1, <1>2, HeadTailProperties
<1>5. /\ targets' \in Seq(Places) /\ Len(targets') = n - 1
      /\ \A i \in 1 .. n - 1 : targets'[i] = targets[i + 1]
  BY <1>1, <1>2, <1>3, HeadTailProperties
<1>6. remoteX' \in Places
  BY <1>1, <1>4, OperationTypes DEF PointerAfter, TouchpadInv, TouchpadTypeOK
<1>7. ASSUME ~ dropped' PROVE
        /\ aim' = IF n = 1 THEN remoteX' ELSE targets'[n - 1]
        /\ \A i \in 1 .. n - 1 :
             targets'[i] = IF IsMove(queue'[i]) THEN queue'[i].x
                           ELSE IF i = 1 THEN remoteX' ELSE targets'[i - 1]
  <2>1. /\ aim = targets[n]
        /\ \A i \in 1 .. n :
             targets[i] = IF IsMove(queue[i]) THEN queue[i].x
                          ELSE IF i = 1 THEN remoteX ELSE targets[i - 1]
    BY <1>1, <1>7 DEF TouchpadInv, ChainInv
  <2>2. remoteX' = targets[1]
    BY <1>1, <1>2, <1>4, <2>1 DEF PointerAfter
  <2>3. aim' = IF n = 1 THEN remoteX' ELSE targets'[n - 1]
    BY <1>1, <1>2, <1>5, <2>1, <2>2
  <2>4. ASSUME NEW i \in 1 .. n - 1
        PROVE  targets'[i] = IF IsMove(queue'[i]) THEN queue'[i].x
                             ELSE IF i = 1 THEN remoteX' ELSE targets'[i - 1]
    <3>1. /\ i + 1 \in 1 .. n /\ i + 1 # 1 /\ (i + 1) - 1 = i
          /\ targets'[i] = targets[i + 1] /\ queue'[i] = queue[i + 1]
      BY <1>2, <1>4, <1>5
    <3>2. i # 1 => i - 1 \in 1 .. n - 1 /\ targets'[i - 1] = targets[i]
      BY <1>2, <1>5
    <3> QED
      BY <2>1, <2>2, <3>1, <3>2
  <2> QED
    BY <2>3, <2>4
<1>8. queue' = <<>> <=> n = 1
  BY <1>2, <1>4, EmptySeq
<1>9. ChainInv'
  BY <1>4, <1>7, <1>8 DEF ChainInv
<1>10. TouchpadTypeOK'
  BY <1>1, <1>2, <1>4, <1>5, <1>6 DEF TouchpadInv, TouchpadTypeOK
<1> QED
  BY <1>9, <1>10 DEF TouchpadInv

\* The mapper hands over operations, and keeps its cursor on the desktop.
LEMMA GestureKeeps ==
  ASSUME TouchpadInv, NEW operations \in Seq(Operations), Gesture(operations),
         cursor' \in 0 .. width - 1, holding' \in BOOLEAN
  PROVE  TouchpadInv'
BY DEF Gesture, TouchpadInv, TouchpadTypeOK, ChainInv

LEMMA TouchpadStep == TouchpadInv /\ [TouchpadNext]_touchpadVars => TouchpadInv'
<1> SUFFICES ASSUME TouchpadInv, [TouchpadNext]_touchpadVars PROVE TouchpadInv'
  OBVIOUS
<1>0. width \in Widths /\ width \in Nat \ {0} /\ cursor \in 0 .. width - 1 /\ holding \in BOOLEAN
  BY TouchpadBounds DEF TouchpadInv, TouchpadTypeOK
<1>a. /\ \A button \in {Left, Right} : Down(button) \in Operations /\ Up(button) \in Operations
      /\ Wheel \in Operations /\ Left \in {Left, Right}
  BY DEF Operations
<1>1. ASSUME NEW step \in Steps, MoveBy(step) PROVE TouchpadInv'
  <2> DEFINE to == OntoDesktop(cursor + step, width)
  <2>1. to \in 0 .. width - 1 /\ to \in Positions
    BY <1>0, CursorIsPosition, TouchpadBounds
  <2> HIDE DEF to
  <2>2. Gesture(<<Move(to)>>) /\ cursor' = to /\ holding' = holding
    BY <1>1 DEF MoveBy, to
  <2>3. <<Move(to)>> \in Seq(Operations)
    BY <2>1 DEF Operations, Moves
  <2> QED
    BY <1>0, <2>1, <2>2, <2>3, GestureKeeps
<1>2. ASSUME NEW button \in {Left, Right}, Click(button) PROVE TouchpadInv'
  <2>1. <<Down(button), Up(button)>> \in Seq(Operations)
    BY <1>a
  <2> QED
    BY <1>0, <1>2, <2>1, GestureKeeps DEF Click
<1>3. CASE BeginDrag
  <2>1. <<Down(Left)>> \in Seq(Operations)
    BY <1>a
  <2> QED
    BY <1>0, <1>3, <2>1, GestureKeeps DEF BeginDrag
<1>4. CASE EndDrag
  <2>1. <<Up(Left)>> \in Seq(Operations)
    BY <1>a
  <2> QED
    BY <1>0, <1>4, <2>1, GestureKeeps DEF EndDrag
<1>5. CASE Scroll
  <2>1. <<Wheel>> \in Seq(Operations)
    BY <1>a
  <2> QED
    BY <1>0, <1>5, <2>1, GestureKeeps DEF Scroll
<1>6. ASSUME NEW w \in Widths, UpdateRemoteSize(w) PROVE TouchpadInv'
  <2>1. CursorAfterResize(w) \in 0 .. w - 1
    BY <1>0, CursorIsPosition DEF CursorAfterResize
  <2> QED
    BY <1>6, <2>1 DEF UpdateRemoteSize, TouchpadInv, TouchpadTypeOK, ChainInv
<1>7. CASE Push
  BY <1>7, PushKeeps
<1>8. CASE Pop
  BY <1>8, PopKeeps
<1>9. CASE UNCHANGED touchpadVars
  BY <1>9 DEF touchpadVars, TouchpadInv, TouchpadTypeOK, ChainInv
<1> QED
  BY <1>1, <1>2, <1>3, <1>4, <1>5, <1>6, <1>7, <1>8, <1>9 DEF TouchpadNext

\* The invariant of the touchpad and its queue.
THEOREM TouchpadInvariance == TouchpadSpec => []TouchpadInv
<1>1. TouchpadInit => TouchpadInv
  <2> SUFFICES ASSUME TouchpadInit PROVE TouchpadInv
    OBVIOUS
  <2>1. /\ queue = <<>> /\ targets = <<>> /\ outbox = <<>> /\ aim = Nowhere /\ remoteX = Nowhere
        /\ width \in Widths /\ width \in Nat \ {0} /\ cursor = width \div 2
        /\ holding = FALSE /\ dropped = FALSE
    BY TouchpadBounds DEF TouchpadInit
  <2>2. cursor \in 0 .. width - 1
    BY <2>1
  <2>3. TouchpadTypeOK
    <3>1. /\ <<>> \in Seq(Operations) /\ <<>> \in Seq(Positions \cup {Nowhere})
          /\ Len(queue) = 0 /\ Len(targets) = 0 /\ Capacity \in Nat
      BY <2>1, TouchpadBounds
    <3>2. /\ queue \in Seq(Operations) /\ targets \in Seq(Positions \cup {Nowhere})
          /\ outbox \in Seq(Operations)
      BY <2>1, <3>1, Zenon
    <3>3. Len(queue) <= Capacity /\ Len(targets) = Len(queue)
      BY <3>1
    <3>4. aim \in Positions \cup {Nowhere} /\ remoteX \in Positions \cup {Nowhere}
      BY <2>1
    <3> QED
      BY <2>1, <2>2, <3>2, <3>3, <3>4, Zenon DEF TouchpadTypeOK
  <2>4. ChainInv
    BY <2>1 DEF ChainInv
  <2> QED
    BY <2>3, <2>4 DEF TouchpadInv
<1> QED
  BY <1>1, TouchpadStep, PTL DEF TouchpadSpec

\* From each entry to the one before it, back to the last move.
THEOREM ClicksLandWhereAimedAlways == TouchpadSpec => []ClicksLandWhereAimed
<1>1. TouchpadInv => ClicksLandWhereAimed
  <2> SUFFICES ASSUME TouchpadInv, ~ dropped,
                      NEW i \in 1 .. Len(queue), NEW j \in 0 .. i - 1,
                      ~ IsMove(queue[i]), IsLastMove(j, i)
               PROVE  targets[i] = IF j = 0 THEN remoteX ELSE queue[j].x
    BY DEF ClicksLandWhereAimed
  <2> DEFINE x == IF j = 0 THEN remoteX ELSE queue[j].x
             S == {k \in j + 1 .. i : targets[k] # x}
  <2>1. Len(queue) \in Nat
    BY LenProperties DEF TouchpadInv, TouchpadTypeOK
  <2>2. \A k \in 1 .. Len(queue) :
          targets[k] = IF IsMove(queue[k]) THEN queue[k].x
                       ELSE IF k = 1 THEN remoteX ELSE targets[k - 1]
    BY DEF TouchpadInv, ChainInv
  <2>3. CASE S = {}
    BY <2>1, <2>3
  <2>4. CASE S # {}
    <3>1. S \subseteq Nat
      BY <2>1
    <3>2. PICK m \in S : \A k \in S : m <= k
      <4> HIDE DEF S
      <4> QED
        BY <2>4, <3>1, LeastElement
    <3>3. m \in j + 1 .. i /\ m \in 1 .. Len(queue) /\ targets[m] # x
      BY <2>1, <3>2
    <3>4. ~ IsMove(queue[m])
      BY <2>1, <3>3 DEF IsLastMove
    <3>5. targets[m] = IF m = 1 THEN remoteX ELSE targets[m - 1]
      BY <2>2, <3>3, <3>4
    <3>6. CASE m = j + 1
      <4>1. CASE j = 0
        BY <3>3, <3>5, <3>6, <4>1
      <4>2. CASE j # 0
        <5>1. IsMove(queue[j]) /\ j \in 1 .. Len(queue)
          BY <2>1, <4>2 DEF IsLastMove
        <5> QED
          BY <2>1, <2>2, <3>3, <3>5, <3>6, <4>2, <5>1
      <4> QED
        BY <4>1, <4>2
    <3>7. CASE m # j + 1
      <4>1. m - 1 \in j + 1 .. i /\ m # 1
        BY <2>1, <3>3, <3>7
      <4>2. m - 1 \notin S
        BY <2>1, <3>2, <3>3
      <4> QED
        BY <3>3, <3>5, <4>1, <4>2
    <3> QED
      BY <3>6, <3>7
  <2> QED
    BY <2>3, <2>4
<1> QED
  BY <1>1, TouchpadInvariance, PTL

\* What the queue holds is what was accepted, in its order; only moves are left
\* out, each for an operation that comes in.
THEOREM QueueIsOrderedAlways == TouchpadSpec => QueueIsOrdered
<1>1. TouchpadInit => Ordered!OrderedInit
  BY DEF TouchpadInit, Ordered!OrderedInit
<1>2. ASSUME TouchpadInv, Push PROVE \E operation \in Operations : Ordered!Accept(operation)
  <2>1. PICK operation \in Operations : Coalesced(operation) \/ Appended(operation) \/ Displaced(operation)
    BY <1>2, PushShape DEF TouchpadInv
  <2>2. queue \in Seq(Operations) /\ Len(queue) \in Nat /\ Len(queue) <= Capacity /\ Capacity \in Nat \ {0}
    BY <1>2, LenProperties, TouchpadBounds DEF TouchpadInv, TouchpadTypeOK
  <2>3. CASE Appended(operation)
    BY <2>2, <2>3 DEF Appended, Ordered!Accept, Ordered!Rest
  <2>4. ASSUME NEW n \in 1 .. Len(queue), IsMove(queue[n]),
               queue' = Append(RemoveAt(queue, n), operation)
        PROVE  Ordered!Accept(operation)
    <3>1. queue[n] \in Moves
      BY <2>2, <2>4, ElementOfSeq, OperationTypes
    <3>2. Len(RemoveAt(queue, n)) < Capacity
      BY <2>2, Removed
    <3>3. RemoveAt(queue, n) \in Ordered!Rest
      BY <3>1 DEF Ordered!Rest, Ordered!RemoveAt, RemoveAt
    <3> QED
      BY <2>4, <3>2, <3>3, Zenon DEF Ordered!Accept
  <2>5. CASE Coalesced(operation)
    <3>1. queue # <<>> /\ IsMove(queue[Len(queue)]) /\ queue' = ReplaceAt(queue, Len(queue), operation)
      BY <2>5 DEF Coalesced
    <3>2. Len(queue) \in 1 .. Len(queue)
      BY <2>2, <3>1, EmptySeq
    <3>3. queue' = Append(RemoveAt(queue, Len(queue)), operation)
      <4>1. queue \in Seq(Operations) /\ operation \in Operations
        BY <2>2
      <4>2. WithLast(queue', queue, operation, Operations)
        BY <3>1, <4>1, LastReplaced, Zenon
      <4> QED
        BY <4>2, Zenon DEF WithLast
    <3> QED
      BY <2>4, <3>1, <3>2, <3>3
  <2>6. CASE Displaced(operation)
    BY <2>4, <2>6 DEF Displaced
  <2> QED
    BY <2>1, <2>3, <2>5, <2>6
<1>3. TouchpadInv /\ [TouchpadNext]_touchpadVars => [Ordered!OrderedNext]_queue
  <2> SUFFICES ASSUME TouchpadInv, [TouchpadNext]_touchpadVars, queue' # queue
               PROVE  Ordered!OrderedNext
    OBVIOUS
  <2>1. Push \/ Pop
    BY DEF TouchpadNext, MoveBy, Click, BeginDrag, EndDrag, Scroll, UpdateRemoteSize, Gesture, touchpadVars
  <2>2. CASE Push
    BY <1>2, <2>2 DEF Ordered!OrderedNext
  <2>3. CASE Pop
    BY <2>3 DEF Pop, Ordered!OrderedNext, Ordered!Take
  <2> QED
    BY <2>1, <2>2, <2>3
<1> QED
  BY <1>1, <1>3, TouchpadInvariance, PTL DEF TouchpadSpec, QueueIsOrdered, Ordered!OrderedSpec

-----------------------------------------------------------------------------
(* Committed text.  What a text comes to after n keys has a closed form, and *)
(* the recursive definition agrees with it by induction over the keys.      *)

\* Induction over a set of numbers.
LEMMA SetInduction ==
  ASSUME NEW S, 0 \in S, \A n \in Nat : n \in S => n + 1 \in S
  PROVE  Nat \subseteq S
<1> SUFFICES ASSUME Nat \ S # {}
             PROVE  FALSE
  OBVIOUS
<1>1. PICK n \in Nat \ S : \A k \in Nat \ S : n <= k
  BY LeastElement
<1>2. n - 1 \in Nat /\ (n - 1) + 1 = n
  BY <1>1
<1>3. n - 1 \in S
  BY <1>1, <1>2
<1> QED BY <1>1, <1>2, <1>3

\* The two texts agree so far, and no further or one of them ends.
LEMMA CommonAgrees ==
  ASSUME NEW old \in Seq(Characters), NEW new \in Seq(Characters)
  PROVE  /\ CommonLength(old, new) \in 0 .. Len(old) /\ CommonLength(old, new) <= Len(new)
         /\ \A i \in 1 .. CommonLength(old, new) : old[i] = new[i]
<1> DEFINE S == {n \in Nat : n = Len(old) \/ n = Len(new) \/ old[n + 1] # new[n + 1]}
<1>0. Len(old) \in Nat /\ Len(new) \in Nat
  OBVIOUS
<1>1. S \subseteq Nat /\ Len(old) \in S /\ Len(new) \in S
  BY <1>0
<1>2. PICK n \in S : \A k \in S : n <= k
  BY <1>1, LeastElement
<1>3. n \in 0 .. Len(old) /\ n <= Len(new)
  BY <1>0, <1>1, <1>2
<1>4. ASSUME NEW i \in 1 .. n
      PROVE  old[i] = new[i]
  <2>1. i - 1 \in Nat /\ ~ (n <= i - 1) /\ (i - 1) + 1 = i
    BY <1>0, <1>3
  <2>2. i - 1 \notin S
    BY <1>2, <2>1
  <2> QED BY <2>1, <2>2
<1>5. n < Len(old) /\ n < Len(new) => old[n + 1] # new[n + 1]
  BY <1>0, <1>2, <1>3
<1>6. \E m \in 0 .. Len(old) :
        /\ m <= Len(new) /\ \A i \in 1 .. m : old[i] = new[i]
        /\ m < Len(old) /\ m < Len(new) => old[m + 1] # new[m + 1]
  BY <1>3, <1>4, <1>5
<1> QED BY <1>6 DEF CommonLength

\* A function that starts with the text and takes one key after the other is
\* what the keys make of the text.
LEMMA KeysMake ==
  ASSUME NEW text, NEW typing, Len(typing) \in Nat, NEW W,
         W = [n \in 0 .. Len(typing) |-> IF n = 0 THEN text ELSE Typed(W[n - 1], typing[n])]
  PROVE  AfterKeys(text, typing) = W[Len(typing)]
<1> DEFINE Follows(f) ==
             f = [n \in 0 .. Len(typing) |-> IF n = 0 THEN text ELSE Typed(f[n - 1], typing[n])]
           A == CHOOSE f : Follows(f)
<1>1. AfterKeys(text, typing) = A[Len(typing)]
  BY DEF AfterKeys
<1>2. Follows(W)
  OBVIOUS
<1>3. Follows(A)
  <2> HIDE DEF Follows
  <2> QED BY <1>2
<1> DEFINE S == {n \in Nat : n <= Len(typing) => A[n] = W[n]}
<1> HIDE DEF A
<1>4. \A n \in 0 .. Len(typing) :
        /\ A[n] = IF n = 0 THEN text ELSE Typed(A[n - 1], typing[n])
        /\ W[n] = IF n = 0 THEN text ELSE Typed(W[n - 1], typing[n])
  BY <1>2, <1>3
<1>5. 0 \in S
  BY <1>4
<1>6. ASSUME NEW n \in Nat, n \in S
      PROVE  n + 1 \in S
  <2> SUFFICES ASSUME n + 1 <= Len(typing)
               PROVE  A[n + 1] = W[n + 1]
    OBVIOUS
  <2>1. n + 1 \in 0 .. Len(typing) /\ n + 1 # 0 /\ (n + 1) - 1 = n /\ n <= Len(typing)
    OBVIOUS
  <2>2. A[n] = W[n]
    BY <1>6, <2>1
  <2> QED BY <1>4, <2>1, <2>2
<1>7. Len(typing) \in S
  <2> HIDE DEF S
  <2> QED BY <1>5, <1>6, SetInduction
<1> QED BY <1>1, <1>7

\* The keys of committed_delta() turn the old text into the new one.
LEMMA DeltaRewrites ==
  ASSUME NEW old \in Seq(Characters), NEW new \in Seq(Characters)
  PROVE  AfterKeys(old, CommittedDelta(old, new)) = new
<1> DEFINE common == CommonLength(old, new)
           back == Len(old) - common
           typing == CommittedDelta(old, new)
           last == back + (Len(new) - common)
           W == [n \in 0 .. last |->
                   IF n <= back THEN SubSeq(old, 1, Len(old) - n)
                                ELSE SubSeq(new, 1, common + (n - back))]
<1>1. /\ Len(old) \in Nat /\ Len(new) \in Nat /\ common \in 0 .. Len(old) /\ common <= Len(new)
      /\ \A i \in 1 .. common : old[i] = new[i]
  BY CommonAgrees
<1> HIDE DEF common
<1>2. /\ back \in Nat /\ last \in Nat /\ back <= last /\ common \in Nat
      /\ Len(old) = back + common /\ Len(new) = (last - back) + common
  BY <1>1
<1>3. typing = [i \in 1 .. back |-> Backspace] \o SubSeq(new, common + 1, Len(new))
  BY DEF CommittedDelta, common
<1>4. /\ \A n \in 0 .. last : n <= back => W[n] = SubSeq(old, 1, Len(old) - n)
      /\ \A n \in 0 .. last : n > back => W[n] = SubSeq(new, 1, common + (n - back))
      /\ W = [n \in 0 .. last |-> W[n]]
  BY <1>2
<1> HIDE DEF typing, back, last, W
<1>5. /\ Len(typing) = last
      /\ \A n \in 1 .. back : typing[n] = Backspace
      /\ \A n \in back + 1 .. last : typing[n] = new[common + (n - back)]
  <2> DEFINE taken == [i \in 1 .. back |-> Backspace]
             rest == SubSeq(new, common + 1, Len(new))
  <2>1. /\ taken \in Seq({Backspace}) /\ Len(taken) = back
        /\ \A i \in 1 .. back : taken[i] = Backspace
    BY <1>2
  <2>2. rest \in Seq(Characters) /\ Len(rest) = last - back
    BY <1>2
  <2>3. \A i \in 1 .. last - back : rest[i] = new[common + i]
    BY <1>2
  <2> HIDE DEF taken, rest
  <2>4. /\ Len(taken \o rest) = Len(taken) + Len(rest)
        /\ \A i \in 1 .. Len(taken) : (taken \o rest)[i] = taken[i]
        /\ \A i \in 1 .. Len(rest) : (taken \o rest)[Len(taken) + i] = rest[i]
    <3>1. taken \in Seq(Characters \cup {Backspace}) /\ rest \in Seq(Characters \cup {Backspace})
      BY <2>1, <2>2
    <3> QED BY <3>1
  <2>5. typing = taken \o rest
    BY <1>3 DEF taken, rest
  <2>6. Len(typing) = last
    BY <1>2, <2>1, <2>2, <2>4, <2>5
  <2>7. ASSUME NEW n \in back + 1 .. last
        PROVE  typing[n] = new[common + (n - back)]
    <3>1. n - back \in 1 .. last - back /\ back + (n - back) = n
      BY <1>2
    <3> QED BY <2>1, <2>2, <2>3, <2>4, <2>5, <3>1
  <2> QED BY <2>1, <2>4, <2>5, <2>6, <2>7
<1>same. SubSeq(old, 1, common) = SubSeq(new, 1, common)
  BY <1>1
<1>6. ASSUME NEW n \in 1 .. last
      PROVE  W[n] = Typed(W[n - 1], typing[n])
  <2>0. n \in 0 .. last /\ n - 1 \in 0 .. last /\ n \in Nat \ {0}
    BY <1>2
  <2>1. CASE n <= back
    <3>1. n \in 1 .. back /\ n - 1 <= back
      BY <1>2, <2>0, <2>1
    <3>2. /\ W[n] = SubSeq(old, 1, Len(old) - n) /\ W[n - 1] = SubSeq(old, 1, Len(old) - (n - 1))
          /\ typing[n] = Backspace
      BY <1>4, <1>5, <2>0, <2>1, <3>1
    <3>3. Len(old) - (n - 1) \in 1 .. Len(old) /\ Len(old) - n = Len(old) - (n - 1) - 1
      BY <1>2, <2>0, <2>1
    <3>4. \A m \in 1 .. Len(old) : /\ SubSeq(old, 1, m) # <<>>
                                   /\ Front(SubSeq(old, 1, m)) = SubSeq(old, 1, m - 1)
      BY DEF Front
    <3> QED BY <3>2, <3>3, <3>4 DEF Typed
  <2>2. CASE n > back
    <3> DEFINE m == common + (n - back)
    <3>1. /\ m \in 1 .. Len(new) /\ m - 1 = common + ((n - 1) - back)
          /\ n \in back + 1 .. last
      BY <1>2, <2>0, <2>2
    <3>2. W[n] = SubSeq(new, 1, m) /\ typing[n] = new[m]
      BY <1>4, <1>5, <2>0, <2>2, <3>1
    <3> HIDE DEF m
    <3>3. W[n - 1] = SubSeq(new, 1, m - 1)
      <4>1. CASE n - 1 = back
        <5>1. Len(old) - (n - 1) = common /\ m - 1 = common /\ n - 1 <= back
          BY <1>2, <2>0, <3>1, <4>1
        <5>2. W[n - 1] = SubSeq(old, 1, Len(old) - (n - 1))
          BY <1>4, <2>0, <5>1
        <5> QED BY <1>same, <5>1, <5>2
      <4>2. CASE n - 1 # back
        <5>1. n - 1 > back
          BY <1>2, <2>0, <2>2, <4>2
        <5> QED BY <1>4, <2>0, <3>1, <5>1
      <4> QED BY <4>1, <4>2
    <3>4. new[m] # Backspace /\ Append(SubSeq(new, 1, m - 1), new[m]) = SubSeq(new, 1, m)
      BY <3>1, CharactersAssumption
    <3> QED BY <3>2, <3>3, <3>4 DEF Typed
  <2> QED BY <1>2, <2>0, <2>1, <2>2
<1>7. W[0] = old
  <2>1. W[0] = SubSeq(old, 1, Len(old))
    BY <1>1, <1>2, <1>4
  <2> QED BY <2>1
<1>8. W[last] = new
  <2>0. SubSeq(new, 1, Len(new)) = new
    OBVIOUS
  <2>1. CASE last = back
    <3>1. Len(old) - last = common /\ Len(new) = common /\ last \in 0 .. last /\ last <= back
      BY <1>1, <1>2, <2>1
    <3>2. W[last] = SubSeq(old, 1, common)
      BY <1>4, <3>1
    <3> QED BY <1>same, <2>0, <3>1, <3>2
  <2>2. CASE last # back
    <3>1. last > back /\ common + (last - back) = Len(new) /\ last \in 0 .. last
      BY <1>1, <1>2, <2>2
    <3>2. W[last] = SubSeq(new, 1, Len(new))
      BY <1>4, <3>1
    <3> QED BY <2>0, <3>2
  <2> QED BY <2>1, <2>2
<1>9. W = [n \in 0 .. Len(typing) |-> IF n = 0 THEN old ELSE Typed(W[n - 1], typing[n])]
  <2>1. \A n \in 0 .. last : W[n] = IF n = 0 THEN old ELSE Typed(W[n - 1], typing[n])
    <3> SUFFICES ASSUME NEW n \in 0 .. last, n # 0
                 PROVE  W[n] = Typed(W[n - 1], typing[n])
      BY <1>7
    <3>1. n \in 1 .. last
      BY <1>2
    <3> QED BY <1>6, <3>1
  <2>2. [n \in 0 .. last |-> W[n]] =
          [n \in 0 .. last |-> IF n = 0 THEN old ELSE Typed(W[n - 1], typing[n])]
    BY <2>1
  <2> QED BY <1>4, <1>5, <2>2
<1>10. Len(typing) \in Nat
  BY <1>2, <1>5
<1>11. AfterKeys(old, typing) = W[Len(typing)]
  BY <1>9, <1>10, KeysMake, SMTT(30)
<1> QED BY <1>5, <1>8, <1>11 DEF typing

-----------------------------------------------------------------------------
(* The field and the line.                                                 *)

EntryInv == EntryTypeOK /\ previous = imeText /\ TypedMatches

LEMMA FieldTexts == TextsOfField \subseteq Seq(Characters) /\ <<>> \in TextsOfField
BY MaxTextAssumption DEF TextsOfField, BoundedSeq, SeqOf

\* Every step keeps the last text the one in the field, and the line followed
\* equal to it.
LEMMA EntryStepKeeps ==
  ASSUME EntryInv, [EntryNext]_entryVars
  PROVE  EntryInv'
<1> USE DEF EntryInv, EntryTypeOK, TypedMatches
<1>empty. <<>> \in TextsOfField /\ <<>> \in Seq(Characters \cup {Backspace})
  BY FieldTexts
<1>1. ASSUME NEW text \in TextsOfField, CommitText(text)
      PROVE  EntryInv'
  <2>1. CASE linked /\ ~ modifier /\ ~ diverted
    <3>1. line' = AfterKeys(previous, CommittedDelta(previous, text))
      BY <1>1, <2>1 DEF CommitText
    <3>2. line' = text
      BY <3>1, FieldTexts, DeltaRewrites
    <3>3. text \in Seq(Characters \cup {Backspace})
      BY FieldTexts
    <3>4. /\ imeText' = text /\ previous' = text
          /\ UNCHANGED <<linked, modifier, diverted>>
      BY <1>1, <2>1 DEF CommitText
    <3> QED BY <3>2, <3>3, <3>4
  <2>2. CASE ~ (linked /\ ~ modifier /\ ~ diverted)
    BY <1>1, <1>empty, <2>2 DEF CommitText, Divert
  <2> QED BY <2>1, <2>2
<1>2. CASE TypeElsewhere \/ NewSession
  BY <1>2, <1>empty DEF TypeElsewhere, NewSession, Clear
<1>3. CASE RowKey \/ HardwareKey
  BY <1>3, <1>empty DEF RowKey, HardwareKey, TypePast, Divert
<1>4. CASE ToggleModifier \/ ReleaseModifier \/ Connects \/ Disconnects
  BY <1>4 DEF ToggleModifier, ReleaseModifier, Connects, Disconnects
<1>5. CASE UNCHANGED entryVars
  BY <1>5 DEF entryVars
<1> QED BY <1>1, <1>2, <1>3, <1>4, <1>5 DEF EntryNext

\* The field of the client and its invariant, in every state.
THEOREM EntryInvariance == EntrySpec => []EntryInv
<1>1. EntryInit => EntryInv
  <2>1. <<>> \in Seq(Characters \cup {Backspace})
    OBVIOUS
  <2> QED BY <2>1, FieldTexts DEF EntryInit, EntryInv, EntryTypeOK, TypedMatches
<1>2. EntryInv /\ [EntryNext]_entryVars => EntryInv'
  BY EntryStepKeeps
<1> QED BY <1>1, <1>2, PTL DEF EntrySpec

\* Whatever the input method makes of the text, the remote computer ends up with
\* the text of the field, and nothing from before it is erased.
THEOREM TypedMatchesAlways == EntrySpec => []TypedMatches
<1>1. EntryInv => TypedMatches
  BY DEF EntryInv
<1> QED BY <1>1, EntryInvariance, PTL

-----------------------------------------------------------------------------
(* The three side by side, as they are checked.                            *)

\* A behaviour in which one of the three moves at a time is one of each of them.
THEOREM AnyIsEach == AnySpec => Spec /\ TouchpadSpec /\ EntrySpec
<1>1. AnyInit => Init /\ TouchpadInit /\ EntryInit
  BY DEF AnyInit
<1>2. [AnyNext]_<<vars, touchpadVars, entryVars>> => [Next]_vars
  BY DEF AnyNext
<1>3. [AnyNext]_<<vars, touchpadVars, entryVars>> => [TouchpadNext]_touchpadVars
  BY DEF AnyNext
<1>4. [AnyNext]_<<vars, touchpadVars, entryVars>> => [EntryNext]_entryVars
  BY DEF AnyNext
<1> QED BY <1>1, <1>2, <1>3, <1>4, PTL DEF AnySpec, Spec, TouchpadSpec, EntrySpec

\* Every variable of the three keeps its type.
THEOREM AnyTyped == AnySpec => []AnyTypeOK
<1>1. InputInv /\ TouchpadInv /\ EntryInv => AnyTypeOK
  BY DEF InputInv, TouchpadInv, EntryInv, AnyTypeOK
<1> QED BY <1>1, AnyIsEach, InputInvariance, TouchpadInvariance, EntryInvariance, PTL

=============================================================================
