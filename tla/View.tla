-------------------------------- MODULE View ---------------------------------
(***************************************************************************)
(* The picture of the session on the screen: Viewport scales, zooms and    *)
(* pans it, update_view() tells the window where to draw it, and a touch   *)
(* is mapped back to a pixel of the remote desktop.  Together with Resize, *)
(* whose callbacks change the same Viewport.                               *)
(*                                                                         *)
(* Lengths are whole numbers here and f32 in the code; ExactAssumption     *)
(* keeps to the sizes for which both are the same.  Positions are kept     *)
(* twice as large, for the halves of centring.                             *)
(***************************************************************************)
EXTENDS Resize, Integers

CONSTANTS
  Zooms,     \* values of Viewport.zoom, between 1 and 4
  Targets,   \* where fingers may drag the picture, before it is clamped
  Touches    \* positions of a touch, one axis

ASSUME SizesAssumption ==
  \A s \in Sizes \cup {Landscape, Profile} : s.width \in Nat \ {0} /\ s.height \in Nat \ {0}
ASSUME ZoomAssumption == 1 \in Zooms /\ Zooms \subseteq 1 .. 4
ASSUME TargetsAssumption == Targets \subseteq Int /\ Touches \subseteq Int

VARIABLES
  remote,   \* Viewport.{remote_width, remote_height}
  zoom,     \* Viewport.zoom
  pan,      \* Viewport.{pan_x, pan_y}
  drawn,    \* MainWindow.image-{x, y, width, height}; positions twice as large
  picture   \* the size of MainWindow.remote-image, or Unknown for none

viewVars == <<remote, zoom, pan, drawn, picture>>

Centred == [x |-> 0, y |-> 0]

ViewTypeOK ==
  /\ TypeOK
  /\ remote \in Sizes \cup {Landscape, Profile}
  /\ zoom \in Zooms
  /\ pan \in [x : Int, y : Int]
  /\ drawn \in [x : Int, y : Int, width : Nat, height : Nat]
  /\ picture \in Sizes \cup {Landscape, Profile, Unknown}

ViewInit ==
  /\ Init
  /\ remote = Landscape /\ zoom = 1 /\ pan = Centred
  /\ drawn = [x |-> 0, y |-> 0, width |-> 0, height |-> 0]
  /\ picture = Unknown

-----------------------------------------------------------------------------
(* Viewport.                                                               *)

\* scale(), as a fraction: the picture fits the area and is then zoomed.
Scale(area, size, z) ==
  IF area.width * size.height <= area.height * size.width
    THEN [num |-> area.width * z, den |-> size.width]
    ELSE [num |-> area.height * z, den |-> size.height]

Scaled(length, scale) == (length * scale.num) \div scale.den

\* No size is rounded when it is scaled, nor scaled to nothing.
Exact(length, scale) == Scaled(length, scale) > 0 /\ Scaled(length, scale) * scale.den = length * scale.num

ASSUME ExactAssumption ==
  \A area \in Sizes, size \in Sizes \cup {Landscape, Profile}, z \in Zooms :
    Exact(size.width, Scale(area, size, z)) /\ Exact(size.height, Scale(area, size, z))

\* origin() on one axis, twice as large.
Origin(length, drawnLength, shift) == length - drawnLength + 2 * shift

Clamped(value, limit) == IF value > limit THEN limit ELSE IF value < - limit THEN - limit ELSE value

\* How far the picture may be moved: to its edge, and not at all if it fits.
Slack(length, drawnLength) == IF drawnLength > length THEN (drawnLength - length) \div 2 ELSE 0

MutantClampPan(area, size, z, target) == target

\* clamp_pan()
ClampPan(area, size, z, target) ==
  LET scale == Scale(area, size, z) IN
  [x |-> Clamped(target.x, Slack(area.width, Scaled(size.width, scale))),
   y |-> Clamped(target.y, Slack(area.height, Scaled(size.height, scale)))]

\* map() on one axis; -1 for None.
MapAxis(position, length, size, shift, scale) ==
  LET offset == 2 * position - Origin(length, Scaled(size, scale), shift)
      pixel == (offset * scale.den) \div (2 * scale.num) IN
  IF offset < 0 \/ pixel >= size THEN -1 ELSE pixel

Map(x, y) ==
  LET scale == Scale(viewport, remote, zoom)
      column == MapAxis(x, viewport.width, remote.width, pan.x, scale)
      row == MapAxis(y, viewport.height, remote.height, pan.y, scale) IN
  IF column = -1 \/ row = -1 THEN Unknown ELSE <<column, row>>

\* update_view(): the window draws the picture at origin(), scaled.
DrawnAt(area, size, z, shift) ==
  LET scale == Scale(area, size, z)
      width == Scaled(size.width, scale)
      height == Scaled(size.height, scale) IN
  [x |-> Origin(area.width, width, shift.x), y |-> Origin(area.height, height, shift.y),
   width |-> width, height |-> height]

-----------------------------------------------------------------------------
(* The callbacks and the tick, beside what they do to the size.            *)

\* launch() resets the gestures and does not call update_view(): there is no
\* picture yet.
ViewLaunch(dynamic) ==
  /\ Launch(dynamic)
  /\ remote' = asked' /\ zoom' = 1 /\ pan' = Centred
  /\ picture' = Unknown
  /\ UNCHANGED drawn

ViewStop ==
  /\ Stop
  /\ picture' = Unknown
  /\ UNCHANGED <<remote, zoom, pan, drawn>>

ViewChanges(size) ==
  /\ ViewportChanges(size)
  /\ pan' = ClampPan(size, remote, zoom, pan)
  /\ drawn' = DrawnAt(size, remote, zoom, pan')
  /\ UNCHANGED <<remote, zoom, picture>>

MutantDrawnAfterReset == drawn

DrawnAfterReset == DrawnAt(viewport, remote, 1, Centred)

\* on_display_mode and on_reset_view
Recentre ==
  /\ zoom' = 1 /\ pan' = Centred
  /\ drawn' = DrawnAfterReset
  /\ UNCHANGED <<remote, picture>>

ViewMode(following) == DisplayMode(following) /\ Recentre

\* The button is on the session page, connected or not.  The area has been laid
\* out by then.
ResetView ==
  /\ session /\ viewport # Unknown
  /\ Recentre
  /\ UNCHANGED vars

\* Reconnecting keeps the picture, Disconnected takes it away.
ViewLost ==
  /\ OnConnectionLost
  /\ picture' \in {picture, Unknown}
  /\ UNCHANGED <<remote, zoom, pan, drawn>>

\* Gestures::event: two fingers zoom and move the picture, one finger or two
\* move it in pan mode.
Gesture(z, target) ==
  /\ uiConnected /\ viewport # Unknown
  /\ zoom' = z
  /\ pan' = ClampPan(viewport, remote, z, target)
  /\ drawn' = DrawnAt(viewport, remote, z, pan')
  /\ UNCHANGED <<remote, picture, vars>>

\* The tick shows a new frame, of any size the server may have chosen.
Frame(size) ==
  /\ session /\ viewport # Unknown
  /\ picture' = size /\ remote' = size
  /\ pan' = ClampPan(viewport, size, zoom, pan)
  /\ drawn' = DrawnAt(viewport, size, zoom, pan')
  /\ UNCHANGED <<zoom, vars>>

ViewNext ==
  \/ \E dynamic \in BOOLEAN : ViewLaunch(dynamic)
  \/ ViewStop
  \/ \E size \in Sizes : ViewChanges(size)
  \/ \E following \in BOOLEAN : ViewMode(following)
  \/ ResetView
  \/ ViewLost
  \/ \E z \in Zooms, x \in Targets, y \in Targets : Gesture(z, [x |-> x, y |-> y])
  \/ \E size \in Sizes \cup {Landscape, Profile} : Frame(size)
  \/ (OnConnected \/ DelayPasses \/ TickResizes) /\ UNCHANGED viewVars

ViewSpec == ViewInit /\ [][ViewNext]_<<vars, viewVars>>

-----------------------------------------------------------------------------
(* Properties.                                                             *)

\* The pixel of the picture that is drawn at a position of one axis, -1 for none.
PixelAt(position, start, drawnLength, size) ==
  LET offset == 2 * position - start
      pixel == (offset * size) \div (2 * drawnLength) IN
  IF offset < 0 \/ pixel >= size THEN -1 ELSE pixel

PixelSeen(x, y) ==
  LET column == PixelAt(x, drawn.x, drawn.width, picture.width)
      row == PixelAt(y, drawn.y, drawn.height, picture.height) IN
  IF column = -1 \/ row = -1 THEN Unknown ELSE <<column, row>>

\* A touch reaches the pixel that is drawn under it, whatever changed the size,
\* the zoom or the position before.
TouchesHitPicture ==
  picture # Unknown => \A x \in Touches, y \in Touches : Map(x, y) = PixelSeen(x, y)

\* The picture covers the area along every axis it is larger on, and is centred
\* on the others: no change of size leaves it moved off the screen.
PictureCovers ==
  picture # Unknown =>
    /\ IF drawn.width > viewport.width
         THEN drawn.x <= 0 /\ drawn.x + 2 * drawn.width >= 2 * viewport.width
         ELSE drawn.x = viewport.width - drawn.width
    /\ IF drawn.height > viewport.height
         THEN drawn.y <= 0 /\ drawn.y + 2 * drawn.height >= 2 * viewport.height
         ELSE drawn.y = viewport.height - drawn.height

=============================================================================
