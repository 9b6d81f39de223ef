------------------------------- MODULE Resize -------------------------------
(***************************************************************************)
(* The size of the remote desktop: the viewport and display-mode callbacks *)
(* arm a resize that the tick sends once its delay has passed.             *)
(***************************************************************************)
EXTENDS Naturals

CONSTANTS
  Sizes,       \* sizes the picture area can have, as display_size() rounds them
  Landscape,   \* landscape_size() of the device's profile
  Profile,     \* the size in the device's profile
  Unknown,     \* no size: None
  MaxChanges   \* bound on the changes of the picture area

ASSUME UnknownAssumption == Unknown \notin Sizes \cup {Landscape, Profile}
ASSUME ChangesAssumption == MaxChanges \in Nat

VARIABLES
  viewport,    \* Gestures.viewport.{width, height}, Unknown until it is laid out
  follow,      \* AppModel.dynamic_resolution
  lastSize,    \* AppModel.last_size
  resize,      \* AppModel.resize: the size, or Unknown for None
  due,         \* the delay of resize has passed
  uiConnected, \* MainWindow.connected
  session,     \* the session page is shown
  asked,       \* the size the session was last asked for
  changes      \* changes of the picture area so far

vars == <<viewport, follow, lastSize, resize, due, uiConnected, session, asked, changes>>

AnySize == Sizes \cup {Landscape, Profile, Unknown}

TypeOK ==
  /\ viewport \in Sizes \cup {Unknown}
  /\ follow \in BOOLEAN
  /\ lastSize \in Sizes \cup {Landscape, Unknown}
  /\ resize \in Sizes \cup {Landscape, Unknown}
  /\ due \in BOOLEAN /\ uiConnected \in BOOLEAN /\ session \in BOOLEAN
  /\ asked \in AnySize
  /\ changes \in 0 .. MaxChanges

Init ==
  /\ viewport = Unknown /\ follow = FALSE /\ lastSize = Unknown
  /\ resize = Unknown /\ due = FALSE
  /\ uiConnected = FALSE /\ session = FALSE /\ asked = Unknown
  /\ changes = 0

MutantDisplaySize(following) == IF following THEN viewport ELSE Profile

\* display_size()
DisplaySize(following) == IF following THEN viewport ELSE Landscape

-----------------------------------------------------------------------------
\* launch(), from the list or again from the certificate dialog: a resize that
\* is pending stays pending.
Launch(dynamic) ==
  /\ ~ session \/ ~ uiConnected
  /\ session' = TRUE /\ uiConnected' = FALSE
  /\ follow' = dynamic
  /\ lastSize' = Unknown
  /\ asked' = IF dynamic THEN Profile ELSE Landscape
  /\ UNCHANGED <<viewport, resize, due, changes>>

\* stop()
Stop ==
  /\ session
  /\ session' = FALSE /\ uiConnected' = FALSE
  /\ resize' = Unknown
  /\ UNCHANGED <<viewport, follow, lastSize, due, asked, changes>>

\* on_viewport, when the picture area was laid out anew; the delay starts again.
\* The area is laid out on every page, shown or not, and between two sessions
\* the mode of the last one still arms a resize.
ViewportChanges(size) ==
  /\ changes < MaxChanges /\ size # viewport
  /\ changes' = changes + 1
  /\ viewport' = size
  /\ IF follow /\ lastSize # size
       THEN resize' = size /\ due' = FALSE
       ELSE UNCHANGED <<resize, due>>
  /\ UNCHANGED <<follow, lastSize, uiConnected, session, asked>>

MutantSizeForMode(following) == IF resize # Unknown THEN resize ELSE DisplaySize(following)

\* A change of mode replaces the resize that was pending.
SizeForMode(following) == DisplaySize(following)

\* on_display_mode: due at once.  A picture on screen has been laid out.
DisplayMode(following) ==
  /\ uiConnected /\ viewport # Unknown
  /\ follow' = following
  /\ resize' = SizeForMode(following) /\ due' = TRUE
  /\ UNCHANGED <<viewport, lastSize, uiConnected, session, asked, changes>>

\* The Connected event, the first or after a reconnect.
OnConnected ==
  /\ session
  /\ uiConnected' = TRUE
  /\ IF viewport # Unknown /\ lastSize # DisplaySize(follow)
       THEN resize' = DisplaySize(follow) /\ due' = FALSE
       ELSE UNCHANGED <<resize, due>>
  /\ UNCHANGED <<viewport, follow, lastSize, session, asked, changes>>

\* Reconnecting and Disconnected.
OnConnectionLost ==
  /\ uiConnected
  /\ uiConnected' = FALSE
  /\ UNCHANGED <<viewport, follow, lastSize, resize, due, session, asked, changes>>

DelayPasses ==
  /\ resize # Unknown /\ ~ due
  /\ due' = TRUE
  /\ UNCHANGED <<viewport, follow, lastSize, resize, uiConnected, session, asked, changes>>

\* The end of a tick.  send() works: the session is connected, and a thread
\* that has returned without its event drained yet does not mind.
TickResizes ==
  /\ resize # Unknown /\ due /\ uiConnected
  /\ asked' = resize /\ lastSize' = resize
  /\ resize' = Unknown
  /\ UNCHANGED <<viewport, follow, due, uiConnected, session, changes>>

Next ==
  \/ \E dynamic \in BOOLEAN : Launch(dynamic)
  \/ Stop
  \/ \E size \in Sizes : ViewportChanges(size)
  \/ \E following \in BOOLEAN : DisplayMode(following)
  \/ OnConnected \/ OnConnectionLost
  \/ DelayPasses \/ TickResizes

Spec == Init /\ [][Next]_vars

-----------------------------------------------------------------------------
(* Properties.                                                             *)

\* A session in landscape mode is at, or on its way to, the landscape size: no
\* viewport change armed before the mode or the session changed gets through.
LandscapeKept ==
  uiConnected /\ ~ follow =>
    /\ resize \in {Landscape, Unknown}
    /\ resize = Unknown => asked = Landscape

\* The desktop settles at the size of the picture area: "dynamic desktop resize
\* after a short debounce".
FollowSettles ==
  uiConnected /\ follow /\ viewport # Unknown /\ resize = Unknown => asked = viewport

=============================================================================
